--------------------------- MODULE SharedDrivesProofs ---------------------------
(***************************************************************************)
(* Theorems about SharedDrives, for any drives, files, events, changes of  *)
(* access and faults: a file of a synced drive is in the store as it is or *)
(* its change is still to come (Covered), and chunks of a file that has    *)
(* left its drive are on their way out (NothingLingers).                   *)
(*                                                                         *)
(* Both are proved of every drive with a cursor, whether it can be seen at *)
(* the moment or not: access comes back.  The invariant follows the row or *)
(* file being worked through the phases (JobInv, RowsInv), keeps the hash  *)
(* a file was listed under apart from the version that was read (HashInv), *)
(* and keeps the window being walked apart from those to come (WalkInv).   *)
(***************************************************************************)
EXTENDS SharedDrives, TLAPS

RowPhases == {"handle", "removed", "extract", "record"}
JobPhases == RowPhases \cup {"window"}

\* What is being worked, by phase.
JobInv ==
  /\ pc \notin JobPhases => job = None
  /\ pc \in JobPhases => job \in Job
  /\ pc \in RowPhases => job.file \in Files
  /\ pc \in {"handle", "removed", "record"} => job.row
  /\ pc = "window" => ~job.row /\ job.file = None
  /\ pc = "extract" => job.hash \in Versions
  /\ pc = "extract" /\ ~job.row => job.file \notin todo

\* A drive whose window is being walked had one left, its only one of the cycle.
WalkInv == pc \in {"window", "extract"} /\ ~job.row =>
  job.drive \notin walk /\ floor[job.drive] <= Oldest

\* A file is missed once: by a row, or by its drive's window of this cycle, which
\* is over or has come past it.
MissInv ==
  /\ \A m, n \in misses : m.drive = n.drive /\ m.file = n.file => m = n
  /\ pc \notin {"extract", "record", "backfill", "window"} => misses = {}
  /\ pc = "extract" /\ job.row => misses = {}
  /\ pc \in {"extract", "backfill", "window"} => \A m \in misses :
       /\ m.drive \notin walk
       /\ pc # "backfill" /\ m.drive = job.drive => m.file \notin todo \cup {job.file}

\* A version counts the events before it.
VersionBound == \A f \in Files : ver[f] <= events + 1

\* What is purged is gone from the store once the drives are being forgotten.
PurgeInv ==
  /\ pc \notin {"purge", "forget"} => purging = {}
  /\ pc = "forget" => \A d \in purging : Stamped(d) = {}

\* A row is of a drive with a cursor, and a removal whose file is back in the
\* drive has the file's return ahead of the cursor.
RowsInv == \A r \in rows :
  /\ r.drive \in fed
  /\ r.event = "remove" /\ loc[r.file] = r.drive => r.file \in changed[r.drive]

\* The row being worked is queued; what was read for it is the file as it is or
\* there is a change to come; a removal's chunks are gone before its row is.
WorkInv ==
  /\ pc \in {"handle", "removed"} => HasRow(job.drive, job.file, "remove")
  /\ pc = "record" \/ (pc = "extract" /\ job.row) => HasRow(job.drive, job.file, "upsert")
  /\ pc = "removed" => job.file \notin Stamped(job.drive)
  /\ pc = "extract" /\ loc[job.file] = job.drive /\ job.drive \in fed =>
       ver[job.file] = job.hash \/ job.file \in changed[job.drive]

\* A hash is no later than the version it is a hash of: in the folders,
ArtifactHash == \A d \in Drives : \A a \in artifacts[d] :
  a.hash <= a.content.ver /\ a.content.ver <= ver[a.file]

\* in what is to be published, where the store has the file as it was then or
\* later,
PendingHash == \A p \in pending \cup misses :
  /\ p.hash <= ver[p.file]
  /\ chunks[p.file] # None => p.hash <= chunks[p.file].content.ver
  /\ pc = "extract" /\ p.file = job.file => p.hash <= job.hash

\* in the store,
StoreHash == \A f \in Files : chunks[f] # None => chunks[f].content.ver <= ver[f]

\* and in hand.
JobHash == pc = "extract" => job.hash <= ver[job.file]

HashInv == ArtifactHash /\ PendingHash /\ StoreHash /\ JobHash

\* A change to come, where a drive that is being purged counts only for what
\* has gone already.
StillToCome(f) ==
  \/ f \in changed[loc[f]] \/ HasRow(loc[f], f, "upsert") \/ InBackfill(loc[f], f)
  \/ loc[f] \in purging /\ chunks[f] = None

\* A file of a drive with a cursor, and one that was written and whose row is
\* about to go.
FileCovered(f) == loc[f] \in fed => InStore(f) \/ StillToCome(f) \/ f \in excused

RecordCovered == pc = "record" /\ loc[job.file] \in fed =>
  InStore(job.file) \/ job.file \in changed[loc[job.file]] \/ job.file \in excused

CoverInv == RecordCovered /\ \A f \in Files : FileCovered(f)

\* Chunks under a drive with a cursor that the file has left are on their way out.
LingerInv ==
  \A f \in Files : \A d \in fed :
    f \in Stamped(d) /\ loc[f] # d =>
      f \in changed[d] \/ HasRow(d, f, "remove") \/ f \in excused

TypeInv == TypeOK /\ VersionBound /\ JobInv /\ WalkInv /\ MissInv

-----------------------------------------------------------------------------
(* The steps.                                                               *)

\* A step is one of these.
LEMMA StepCases ==
  ASSUME [Next]_vars
  PROVE  \/ Remote \/ Access \/ \E f \in Files : PeerPublishes(f)
         \/ ListDrives \/ EndDiscovery
         \/ \E d \in Drives : Bootstrap(d) \/ \E f \in Files : ListChange(d, f)
         \/ CountAbsences \/ PresenceFails \/ SaveKnown
         \/ \E d \in Drives : PurgeDrive(d) \/ ForgetDrive(d) \/ ForgetFails(d)
         \/ RemoveChunks \/ FinishRemove \/ FinishUpsert \/ EndWork
         \/ \E r \in rows : TakeRow(r)
         \/ Import \/ Extract \/ JobFails \/ SkipFile
         \/ Collect \/ EndBackfill \/ RecordMisses \/ EndCycle
         \/ \E p \in pending : PublishFile(p)
         \/ \E d \in Drives : BeginBackfill(d)
         \/ \E f \in Files : BackfillFile(f)
         \/ Crash \/ UNCHANGED vars
BY DEF Next, Cycle, Discover, Presence, Work, Share

-----------------------------------------------------------------------------
(* Types.                                                                   *)

\* Versions are numbers, so events are bounded as they are counted.
LEMMA VersionsAreNats ==
  ASSUME TypeOK
  PROVE  /\ \A f \in Files : ver[f] \in Nat /\ ver[f] \in Versions
         /\ events \in Nat /\ events <= MaxEvents /\ MaxEvents \in Nat
<1>1. MaxEvents \in Nat /\ \A f \in Files : ver[f] \in Versions
  BY DrivesAssumption DEF TypeOK
<1>2. \A n \in Versions : n \in Nat
  BY <1>1 DEF Versions
<1>3. events \in Nat /\ events <= MaxEvents
  BY <1>1 DEF TypeOK
<1> QED BY <1>1, <1>2, <1>3

\* Chunks written for the job are chunks.
LEMMA WriteTyped ==
  ASSUME TypeOK, job \in Job, job.file \in Files, NEW content \in Content, WriteChunks(content)
  PROVE  chunks' \in [Files -> Chunks \cup {None}] /\ excused' \subseteq Files
<1>1. [drive |-> job.drive, content |-> content] \in Chunks
  BY DEF Job, Chunks
<1> QED BY <1>1 DEF WriteChunks, TypeOK

\* An artifact put in a drive's folder.
LEMMA PutTyped ==
  ASSUME TypeOK, NEW d \in Drives, NEW a \in Artifact, Put(d, a)
  PROVE  artifacts' \in [Drives -> SUBSET Artifact]
BY DEF Put, TypeOK

\* A row replaces the one of its drive and file.
LEMMA RowTyped ==
  ASSUME TypeOK, NEW d \in Drives, NEW f \in Files, rows' = WithRow(d, f)
  PROVE  /\ rows' \subseteq Row
         /\ \A r, s \in rows' : r.drive = s.drive /\ r.file = s.file => r = s
<1>1. [drive |-> d, file |-> f, event |-> Kind(f, d)] \in Row
  BY DEF Row, Kind
<1> QED BY <1>1 DEF WithRow, TypeOK

\* What was missed replaces what was pending of the same file.
LEMMA PendingTyped ==
  ASSUME TypeOK, MissInv, pending' = WithPending(misses)
  PROVE  /\ pending' \subseteq Pending
         /\ \A p, q \in pending' : p.drive = q.drive /\ p.file = q.file => p = q
BY DEF TypeOK, WithPending, MissInv

\* What happens on Drive.
RemoteTyped ==
  /\ loc \in [Files -> Drives \cup {None}] /\ ver \in [Files -> Versions]
  /\ age \in [Files -> 0..Oldest]
  /\ accessible \subseteq Drives
  /\ changed \in [Drives -> SUBSET Files]
  /\ events \in 0..MaxEvents /\ access \in 0..MaxAccess

\* An event leaves Drive well-typed, and no version past the events.
LEMMA RemoteStep ==
  ASSUME TypeOK, VersionBound, Remote \/ Access
  PROVE  RemoteTyped' /\ VersionBound'
<1>1. /\ \A f \in Files : ver[f] \in Nat /\ ver[f] \in Versions
      /\ events \in Nat /\ events <= MaxEvents /\ MaxEvents \in Nat
  BY VersionsAreNats
<1>e. Event => events' = events + 1 /\ events' \in 0..MaxEvents
  BY <1>1 DEF Event
<1>r. ASSUME NEW f \in Files, NEW ds, Reported(f, ds)
      PROVE  changed' \in [Drives -> SUBSET Files]
  BY <1>r DEF Reported, TypeOK
<1>2. ASSUME NEW f \in Files, Edit(f)
      PROVE  RemoteTyped' /\ VersionBound'
  <2>1. ver[f] + 1 \in Versions
    BY <1>1, <1>2 DEF Edit, Event, VersionBound, Versions
  <2>2. ver' \in [Files -> Versions] /\ age' \in [Files -> 0..Oldest]
    BY <1>2, <2>1, DrivesAssumption DEF Edit, TypeOK
  <2>3. VersionBound'
    BY <1>1, <1>2, <1>e DEF Edit, VersionBound, TypeOK
  <2> QED BY <1>2, <1>e, <1>r, <2>2, <2>3 DEF Edit, RemoteTyped, TypeOK
<1>3. ASSUME NEW f \in Files, NEW d \in Drives \cup {None}, Move(f, d)
      PROVE  RemoteTyped' /\ VersionBound'
  <2>1. loc' \in [Files -> Drives \cup {None}]
    BY <1>3 DEF Move, TypeOK
  <2>2. VersionBound'
    BY <1>1, <1>3, <1>e DEF Move, VersionBound
  <2> QED BY <1>3, <1>e, <1>r, <2>1, <2>2 DEF Move, RemoteTyped, TypeOK
<1>4. CASE Access
  <2>1. PICK d \in Drives : ChangeAccess(d)
    BY <1>4 DEF Access
  <2>2. access' \in 0..MaxAccess
    BY <2>1, DrivesAssumption DEF ChangeAccess, TypeOK
  <2> QED BY <2>1, <2>2 DEF ChangeAccess, RemoteTyped, VersionBound, TypeOK
<1> QED BY <1>2, <1>3, <1>4 DEF Remote

\* Every step keeps the types.
LEMMA TypeOKStep ==
  ASSUME TypeInv, [Next]_vars
  PROVE  TypeOK' /\ VersionBound'
<1> USE DEF TypeInv
<1>v. VersionBound /\ (UNCHANGED <<ver, events>> => VersionBound')
  BY DEF VersionBound
<1>f. Fault => faults' \in 0..MaxFaults
  BY DrivesAssumption DEF Fault, TypeOK
<1>w. ASSUME UNCHANGED remoteVars PROVE RemoteTyped' /\ VersionBound'
  BY <1>v, <1>w DEF RemoteTyped, TypeOK, remoteVars
<1>1. CASE Remote \/ Access
  BY <1>1, RemoteStep DEF Remote, Access, RemoteTyped, TypeOK, storeVars, cycleVars
<1>2. ASSUME NEW f \in Files, PeerPublishes(f)
      PROVE  TypeOK' /\ VersionBound'
  <2>1. events' \in 0..MaxEvents /\ events' = events + 1
    BY <1>2, VersionsAreNats DEF PeerPublishes, Event
  <2>2. loc[f] \in Drives
    BY <1>2 DEF PeerPublishes, TypeOK
  <2>3. [file |-> f, hash |-> ver[f], content |-> [ver |-> ver[f], full |-> TRUE]] \in Artifact
    BY VersionsAreNats DEF Artifact, Content
  <2>4. artifacts' \in [Drives -> SUBSET Artifact]
    BY <1>2, <2>2, <2>3, PutTyped DEF PeerPublishes
  <2>5. VersionBound'
    BY <1>2, <2>1, VersionsAreNats DEF VersionBound, PeerPublishes
  <2> QED BY <1>2, <2>1, <2>4, <2>5 DEF PeerPublishes, TypeOK, storeVars, cycleVars
<1>3. CASE ListDrives \/ EndDiscovery
  BY <1>3, <1>f, <1>w DEF ListDrives, EndDiscovery, TypeOK, RemoteTyped, storeVars, cycleVars, Phases
<1>4. ASSUME NEW d \in Drives, Bootstrap(d)
      PROVE  TypeOK' /\ VersionBound'
  <2>1. changed' \in [Drives -> SUBSET Files]
    BY <1>4 DEF Bootstrap, TypeOK
  <2>2. excused' \subseteq Files /\ fed' \subseteq Drives
    BY <1>4 DEF Bootstrap, BetweenTheTwo, TypeOK
  <2> QED BY <1>4, <1>v, <2>1, <2>2 DEF Bootstrap, TypeOK, cycleVars
<1>5. ASSUME NEW d \in Drives, NEW f \in Files, ListChange(d, f)
      PROVE  TypeOK' /\ VersionBound'
  <2>1. changed' \in [Drives -> SUBSET Files]
    BY <1>5 DEF ListChange, TypeOK
  <2>2. /\ rows' \subseteq Row
        /\ \A r, s \in rows' : r.drive = s.drive /\ r.file = s.file => r = s
    BY <1>5, RowTyped DEF ListChange
  <2> QED BY <1>5, <1>v, <2>1, <2>2 DEF ListChange, TypeOK, cycleVars
<1>6. CASE CountAbsences
  <2>1. ASSUME NEW d \in Gone \ Due PROVE absent[d] + 1 \in 0..Threshold
    <3>1. d \in Drives /\ ~(absent[d] + 1 >= Threshold)
      BY DEF Gone, Due, TypeOK
    <3> QED BY <3>1, DrivesAssumption DEF TypeOK
  <2>2. absent' \in [Drives -> 0..Threshold] /\ purging' \subseteq Drives
    <3>1. 0 \in 0..Threshold
      BY DrivesAssumption
    <3>2. Due \subseteq Drives
      BY DEF Due, Gone, TypeOK
    <3> HIDE DEF TypeInv
    <3>3. absent \in [Drives -> 0..Threshold] /\ purging \subseteq Drives
      BY DEF TypeInv, TypeOK
    <3> QED BY <1>6, <2>1, <3>1, <3>2, <3>3 DEF CountAbsences
  <2> QED BY <1>6, <1>w, <2>2 DEF CountAbsences, ToWork, TypeOK, RemoteTyped, Phases
<1>7. CASE PresenceFails
  <2>1. excused' \subseteq Files
    BY <1>7 DEF PresenceFails, LostBy, TypeOK
  <2> QED BY <1>7, <1>f, <1>w, <2>1 DEF PresenceFails, ToWork, TypeOK, RemoteTyped, storeVars, Phases
<1>8. CASE SaveKnown
  BY <1>8, <1>w DEF SaveKnown, Remembered, TypeOK, RemoteTyped, Phases
<1>9. ASSUME NEW d \in Drives, PurgeDrive(d)
      PROVE  TypeOK' /\ VersionBound'
  <2>1. chunks' \in [Files -> Chunks \cup {None}]
    BY <1>9 DEF PurgeDrive, TypeOK
  <2>2. absent' \in [Drives -> 0..Threshold]
    BY <1>9, DrivesAssumption DEF PurgeDrive, TypeOK
  <2> QED BY <1>9, <1>w, <2>1, <2>2 DEF PurgeDrive, TypeOK, RemoteTyped, cycleVars
<1>10. ASSUME NEW d \in Drives, ForgetDrive(d)
       PROVE  TypeOK' /\ VersionBound'
  <2>1. changed' \in [Drives -> SUBSET Files] /\ floor' \in [Drives -> 0..(Oldest + 1)]
    BY <1>10, DrivesAssumption DEF ForgetDrive, TypeOK
  <2> QED BY <1>10, <1>v, <2>1 DEF ForgetDrive, Forgotten, TypeOK, Phases
<1>11. ASSUME NEW d \in Drives, ForgetFails(d)
       PROVE  TypeOK' /\ VersionBound'
  <2>1. excused' \subseteq Files
    BY <1>11 DEF ForgetFails, LostBy, TypeOK
  <2> QED BY <1>11, <1>f, <1>w, <2>1 DEF ForgetFails, Forgotten, TypeOK, RemoteTyped, storeVars, Phases
<1>12. CASE RemoveChunks
  <2>1. chunks' \in [Files -> Chunks \cup {None}]
    BY <1>12 DEF RemoveChunks, Dropped, TypeOK, JobInv, JobPhases, RowPhases
  <2> QED BY <1>12, <1>w, <2>1 DEF RemoveChunks, TypeOK, RemoteTyped, Phases
<1>13. CASE FinishRemove
  <2>1. artifacts' \in [Drives -> SUBSET Artifact]
    BY <1>13 DEF FinishRemove, TypeOK
  <2> QED BY <1>13, <1>f, <1>w, <2>1 DEF FinishRemove, Cleared, Done, TypeOK, RemoteTyped, Phases
<1>14. CASE FinishUpsert
  BY <1>14, <1>w, PendingTyped DEF FinishUpsert, Done, TypeOK, RemoteTyped, Phases
<1>15. CASE EndWork
  BY <1>15, <1>w DEF EndWork, TypeOK, RemoteTyped, storeVars, Phases
<1>16. ASSUME NEW r \in rows, TakeRow(r)
       PROVE  TypeOK' /\ VersionBound'
  <2>1. r.drive \in Drives /\ r.file \in Files
    BY DEF TypeOK, Row
  <2>2. job' \in Job
    <3>1. ver[r.file] \in Versions
      BY <2>1, VersionsAreNats
    <3> HIDE DEF TypeInv
    <3>2. \/ job' = [drive |-> r.drive, file |-> r.file, hash |-> 0,
                      row |-> TRUE, hit |-> FALSE]
          \/ job' = [drive |-> r.drive, file |-> r.file, hash |-> ver[r.file],
                      row |-> TRUE, hit |-> FALSE]
      BY <1>16 DEF TakeRow
    <3>3. \A h \in Versions \cup {0} :
            [drive |-> r.drive, file |-> r.file, hash |-> h,
             row |-> TRUE, hit |-> FALSE] \in Job
      BY <2>1 DEF Job
    <3> QED BY <3>1, <3>2, <3>3
  <2> QED BY <1>16, <1>w, <2>2 DEF TakeRow, TypeOK, RemoteTyped, storeVars, Phases
<1>17. CASE Import \/ Extract
  <2>0. job \in Job /\ job.file \in Files
    BY <1>17 DEF Import, Extract, JobInv, JobPhases, RowPhases
  <2>1. \E content \in Content : WriteChunks(content)
    <3>1. CASE Import
      <4>1. PICK a \in artifacts[job.drive] : WriteChunks(a.content)
        BY <3>1 DEF Import
      <4>2. a \in Artifact
        BY <2>0, <4>1 DEF TypeOK, Job
      <4> QED BY <4>1, <4>2 DEF Artifact
    <3>2. CASE Extract
      <4>1. \A b \in BOOLEAN : [ver |-> ver[job.file], full |-> b] \in Content
        BY <2>0, VersionsAreNats DEF Content
      <4> QED BY <3>2, <4>1 DEF Extract
    <3> QED BY <1>17, <3>1, <3>2
  <2>2. chunks' \in [Files -> Chunks \cup {None}] /\ excused' \subseteq Files
    BY <2>0, <2>1, WriteTyped
  <2>3. job' \in Job \cup {None} /\ pc' \in Phases
    <3>1. [NoFile EXCEPT !.hit = TRUE] \in Job
      BY <2>0 DEF Job, NoFile
    <3> QED BY <1>17, <2>0, <3>1 DEF Import, Extract, AfterFile, Phases
  <2>4. misses' \subseteq Pending /\ faults' \in 0..MaxFaults
    <3>1. CASE misses' = misses
      BY <1>17, <1>f, <3>1 DEF Import, Extract, TypeOK
    <3>2. CASE /\ misses' = misses \cup {[drive |-> job.drive, file |-> job.file, hash |-> job.hash]}
               /\ faults' = faults
      <4>1. pc = "extract" /\ job.hash \in Versions
        BY <1>17 DEF Import, Extract, JobInv
      <4>2. [drive |-> job.drive, file |-> job.file, hash |-> job.hash] \in Pending
        BY <2>0, <4>1 DEF Job, Pending
      <4> QED BY <3>2, <4>2 DEF TypeOK
    <3> QED BY <1>17, <3>1, <3>2 DEF Import, Extract
  <2> QED BY <1>17, <1>w, <2>2, <2>3, <2>4 DEF Import, Extract, TypeOK, RemoteTyped
<1>18. CASE JobFails
  BY <1>18, <1>f, <1>w DEF JobFails, TypeOK, RemoteTyped, storeVars, Phases
<1>19. CASE Collect
  <2>1. artifacts' \in [Drives -> SUBSET Artifact]
    BY <1>19 DEF Collect, TypeOK
  <2> QED BY <1>19, <1>w, <2>1 DEF Collect, TypeOK, RemoteTyped, storeVars, Phases
<1>20. CASE EndBackfill
  <2>1. job \in Job /\ ~job.row /\ floor[job.drive] <= Oldest /\ floor[job.drive] \in Nat
    BY <1>20, DrivesAssumption DEF EndBackfill, JobInv, JobPhases, WalkInv, TypeOK, Job
  <2>2. floor[job.drive] + 1 \in 0..(Oldest + 1) /\ Oldest + 1 \in 0..(Oldest + 1)
    BY <2>1, DrivesAssumption
  <2>3. \E n \in 0..(Oldest + 1) : floor' = [floor EXCEPT ![job.drive] = n]
    BY <1>20, <2>2 DEF EndBackfill
  <2>4. floor' \in [Drives -> 0..(Oldest + 1)]
    BY <2>3 DEF TypeOK
  <2>5. excused' \subseteq Files
    BY <1>20 DEF EndBackfill, Unmet, TypeOK
  <2> QED BY <1>20, <1>w, <2>4, <2>5 DEF EndBackfill, TypeOK, RemoteTyped, Phases
<1>21. CASE RecordMisses
  BY <1>21, <1>w, PendingTyped DEF RecordMisses, TypeOK, RemoteTyped, Phases
<1>22. CASE EndCycle
  BY <1>22, <1>w DEF EndCycle, TypeOK, RemoteTyped, storeVars, Phases
<1>23. ASSUME NEW p \in pending, PublishFile(p)
       PROVE  TypeOK' /\ VersionBound'
  <2>1. p \in Pending /\ chunks[p.file] \in Chunks
    BY <1>23 DEF PublishFile, TypeOK, Pending
  <2>2. [file |-> p.file, hash |-> p.hash, content |-> chunks[p.file].content] \in Artifact
    BY <2>1 DEF Artifact, Chunks, Pending
  <2>3. p.drive \in Drives
    BY <2>1 DEF Pending
  <2>4. artifacts' \in [Drives -> SUBSET Artifact]
    BY <1>23, <2>2, <2>3, PutTyped DEF PublishFile
  <2> QED BY <1>23, <1>w, <2>4 DEF PublishFile, TypeOK, RemoteTyped, cycleVars
<1>24. ASSUME NEW d \in Drives, BeginBackfill(d)
       PROVE  TypeOK' /\ VersionBound'
  <2>1. job' \in Job /\ todo' \subseteq Files
    BY <1>24 DEF BeginBackfill, Job
  <2> QED BY <1>24, <1>w, <2>1 DEF BeginBackfill, TypeOK, RemoteTyped, storeVars, Phases
<1>25. ASSUME NEW f \in Files, BackfillFile(f)
       PROVE  TypeOK' /\ VersionBound'
  <2>1. job \in Job
    BY <1>25 DEF BackfillFile, JobInv, JobPhases
  <2>2. job' \in Job
    BY <1>25, <2>1, VersionsAreNats DEF BackfillFile, Job
  <2> QED BY <1>25, <1>w, <2>2 DEF BackfillFile, TypeOK, RemoteTyped, storeVars, Phases
<1>28. CASE SkipFile
  <2>1. job \in Job /\ job.file \in Files
    BY <1>28 DEF SkipFile, JobInv, JobPhases, RowPhases
  <2>2. NoFile \in Job /\ excused' \subseteq Files
    BY <1>28, <2>1 DEF SkipFile, NoFile, Job, Unmet, TypeOK
  <2> QED BY <1>28, <1>w, <2>2 DEF SkipFile, TypeOK, RemoteTyped, storeVars, Phases
<1>26. CASE Crash
  <2>1. excused' \subseteq Files
    BY <1>26 DEF Crash, LostBy, TypeOK
  <2> QED BY <1>26, <1>f, <1>w, <2>1 DEF Crash, TypeOK, RemoteTyped, storeVars, Phases
<1>27. CASE UNCHANGED vars
  BY <1>27, <1>w DEF vars, storeVars, cycleVars, TypeOK, RemoteTyped
<1> HIDE DEF TypeInv
<1> QED BY StepCases, <1>1, <1>2, <1>3, <1>4, <1>5, <1>6, <1>7, <1>8, <1>9, <1>10, <1>11, <1>12,
           <1>13, <1>14, <1>15, <1>16, <1>17, <1>18, <1>19, <1>20, <1>21, <1>22, <1>23, <1>24,
           <1>25, <1>26, <1>27, <1>28


-----------------------------------------------------------------------------
(* What is being worked.                                                    *)

\* The row or file in hand.
LEMMA JobInHand ==
  ASSUME TypeInv
  PROVE  /\ pc \in RowPhases => job \in Job /\ job.drive \in Drives /\ job.file \in Files
         /\ pc = "window" => job \in Job /\ job.drive \in Drives /\ ~job.row /\ job.file = None
         /\ pc \in JobPhases => job.row \in BOOLEAN /\ job # None
         /\ pc = "extract" => job.hash \in Versions
         /\ pc \notin JobPhases => job = None
         /\ None \notin Files /\ None \notin Drives
<1>1. \A j \in Job : j.drive \in Drives /\ j.row \in BOOLEAN
  BY DEF Job
<1> QED BY <1>1, DrivesAssumption, NoneAssumption DEF TypeInv, JobInv, JobPhases, RowPhases

\* The steps that neither begin nor end the work on a row or file.
LEMMA QuietSteps ==
  ASSUME TypeInv, [Next]_vars
  PROVE  \/ UNCHANGED <<pc, job, todo, misses>>
         \/ pc \notin JobPhases /\ pc' \notin JobPhases /\ UNCHANGED <<job, todo, misses>>
         \/ RemoveChunks \/ FinishRemove \/ FinishUpsert \/ \E r \in rows : TakeRow(r)
         \/ Import \/ Extract \/ JobFails \/ SkipFile \/ EndBackfill \/ RecordMisses \/ Crash
         \/ \E d \in Drives : BeginBackfill(d)
         \/ \E f \in Files : BackfillFile(f)
<1>1. CASE Remote \/ Access \/ \E f \in Files : PeerPublishes(f)
  BY <1>1 DEF Remote, Access, PeerPublishes, cycleVars
<1>2. CASE ListDrives \/ EndDiscovery
  BY <1>2 DEF ListDrives, EndDiscovery, JobPhases, RowPhases
<1>3. CASE \E d \in Drives : Bootstrap(d) \/ \E f \in Files : ListChange(d, f)
  BY <1>3 DEF Bootstrap, ListChange, cycleVars
<1>4. CASE CountAbsences \/ PresenceFails \/ SaveKnown
  BY <1>4 DEF CountAbsences, PresenceFails, SaveKnown, ToWork, JobPhases, RowPhases
<1>5. CASE \E d \in Drives : PurgeDrive(d) \/ ForgetDrive(d) \/ ForgetFails(d)
  BY <1>5 DEF PurgeDrive, ForgetDrive, ForgetFails, Forgotten, cycleVars, JobPhases, RowPhases
<1>6. CASE EndWork \/ Collect \/ EndCycle
  BY <1>6 DEF EndWork, Collect, EndCycle, JobPhases, RowPhases
<1>7. CASE \E p \in pending : PublishFile(p)
  BY <1>7 DEF PublishFile, cycleVars
<1>8. CASE UNCHANGED vars
  BY <1>8 DEF vars, cycleVars
<1> QED BY StepCases, <1>1, <1>2, <1>3, <1>4, <1>5, <1>6, <1>7, <1>8

\* What is in hand follows the phases.
LEMMA JobStep ==
  ASSUME TypeInv, [Next]_vars
  PROVE  JobInv'
<1>0. JobInv /\ (pc \notin JobPhases => job = None)
  BY DEF TypeInv, JobInv
<1>1. CASE UNCHANGED <<pc, job, todo, misses>>
  BY <1>0, <1>1 DEF JobInv
<1>2. CASE pc' \notin JobPhases /\ job' = None
  BY <1>2 DEF JobInv, JobPhases, RowPhases
<1>3. CASE FinishRemove \/ FinishUpsert \/ JobFails \/ EndBackfill \/ Crash
  BY <1>2, <1>3 DEF FinishRemove, FinishUpsert, JobFails, EndBackfill, Crash, JobPhases, RowPhases
<1>4. CASE RecordMisses
  BY <1>0, <1>2, <1>4 DEF RecordMisses, JobPhases, RowPhases
<1>5. CASE RemoveChunks
  BY <1>0, <1>5 DEF RemoveChunks, JobInv, JobPhases, RowPhases
<1>6. ASSUME NEW r \in rows, TakeRow(r)
      PROVE  JobInv'
  <2>1. r.drive \in Drives /\ r.file \in Files /\ ver[r.file] \in Versions
    BY VersionsAreNats DEF TypeInv, TypeOK, Row
  <2>2. \A h \in Versions \cup {0} :
          [drive |-> r.drive, file |-> r.file, hash |-> h,
             row |-> TRUE, hit |-> FALSE] \in Job
    BY <2>1 DEF Job
  <2>3. CASE r.event = "remove"
    BY <1>6, <2>1, <2>2, <2>3 DEF TakeRow, JobInv, JobPhases, RowPhases
  <2>4. CASE r.event # "remove"
    BY <1>6, <2>1, <2>2, <2>4 DEF TakeRow, JobInv, JobPhases, RowPhases
  <2> QED BY <2>3, <2>4
<1>7. CASE Import \/ Extract
  <2>1. pc = "extract" /\ AfterFile
    BY <1>7 DEF Import, Extract
  <2>2. job \in Job /\ job.file \in Files /\ job.row \in BOOLEAN
    BY <2>1, JobInHand DEF JobPhases, RowPhases
  <2>3. CASE job.row
    BY <2>1, <2>2, <2>3 DEF AfterFile, JobInv, JobPhases, RowPhases
  <2>4. CASE ~job.row
    <3> DEFINE hit == [NoFile EXCEPT !.hit = TRUE]
    <3>1. hit \in Job /\ hit.file = None /\ hit.row = job.row
      BY <2>2 DEF NoFile, Job
    <3>2. pc' = "window" /\ job' = hit
      BY <2>1, <2>4 DEF AfterFile
    <3> HIDE DEF hit
    <3> QED BY <2>1, <2>4, <3>1, <3>2 DEF JobInv, JobPhases, RowPhases
  <2> QED BY <2>3, <2>4
<1>10. CASE SkipFile
  <2>1. pc = "extract" /\ ~job.row /\ pc' = "window" /\ job' = NoFile /\ todo' = todo
    BY <1>10 DEF SkipFile
  <2>2. job \in Job
    BY <2>1, JobInHand DEF RowPhases
  <2>3. NoFile \in Job /\ NoFile.file = None /\ NoFile.row = job.row
    BY <2>2 DEF NoFile, Job
  <2> QED BY <2>1, <2>3 DEF JobInv, JobPhases, RowPhases
<1>8. ASSUME NEW d \in Drives, BeginBackfill(d)
      PROVE  JobInv'
  <2>1. [drive |-> d, file |-> None, hash |-> 0, row |-> FALSE, hit |-> FALSE] \in Job
    BY DEF Job
  <2> QED BY <1>8, <2>1 DEF BeginBackfill, JobInv, JobPhases, RowPhases
<1>9. ASSUME NEW f \in Files, BackfillFile(f)
      PROVE  JobInv'
  <2>1. pc = "window" /\ ver[f] \in Versions
    BY <1>9, VersionsAreNats DEF BackfillFile, TypeInv
  <2>2. job \in Job /\ ~job.row
    BY <2>1, JobInHand
  <2>3. /\ job' \in Job /\ job'.file = f /\ job'.hash = ver[f] /\ ~job'.row
    BY <1>9, <2>1, <2>2 DEF BackfillFile, Job
  <2> QED BY <1>9, <2>1, <2>3 DEF BackfillFile, JobInv, JobPhases, RowPhases
<1> QED BY QuietSteps, <1>0, <1>1, <1>2, <1>3, <1>4, <1>5, <1>6, <1>7, <1>8, <1>9, <1>10

\* A window being walked was one left of the cycle.
LEMMA WalkStep ==
  ASSUME TypeInv, [Next]_vars
  PROVE  WalkInv'
<1>0. /\ WalkInv
      /\ pc' \notin {"window", "extract"} => WalkInv'
      /\ UNCHANGED <<pc, job, walk, floor>> => WalkInv'
  BY DEF TypeInv, WalkInv
<1>1. CASE Remote \/ Access \/ (\E f \in Files : PeerPublishes(f)) \/ UNCHANGED vars
  BY <1>0, <1>1 DEF Remote, Access, PeerPublishes, storeVars, cycleVars, vars
<1>2. CASE ListDrives \/ EndDiscovery
  BY <1>0, <1>2 DEF ListDrives, EndDiscovery
<1>3. CASE \E d \in Drives : Bootstrap(d) \/ \E f \in Files : ListChange(d, f)
  BY <1>0, <1>3 DEF Bootstrap, ListChange, cycleVars
<1>4. CASE CountAbsences \/ PresenceFails \/ SaveKnown
  BY <1>0, <1>4 DEF CountAbsences, PresenceFails, SaveKnown, ToWork
<1>5. CASE \E d \in Drives : PurgeDrive(d) \/ ForgetDrive(d) \/ ForgetFails(d)
  BY <1>0, <1>5 DEF PurgeDrive, ForgetDrive, ForgetFails, Forgotten, cycleVars
<1>6. CASE RemoveChunks \/ FinishRemove \/ FinishUpsert \/ EndWork \/ JobFails \/ Crash
  BY <1>0, <1>6 DEF RemoveChunks, FinishRemove, FinishUpsert, EndWork, JobFails, Crash
<1>7. CASE Collect \/ EndBackfill \/ RecordMisses \/ EndCycle
  BY <1>0, <1>7 DEF Collect, EndBackfill, RecordMisses, EndCycle
<1>8. CASE \E p \in pending : PublishFile(p)
  BY <1>0, <1>8 DEF PublishFile, cycleVars
<1>9. ASSUME NEW r \in rows, TakeRow(r)
      PROVE  WalkInv'
  BY <1>9 DEF TakeRow, WalkInv
<1>10. CASE Import \/ Extract
  <2>1. pc = "extract" /\ AfterFile /\ UNCHANGED <<walk, floor>>
    BY <1>10 DEF Import, Extract
  <2>2. job \in Job
    BY <2>1, JobInHand DEF RowPhases
  <2>3. job'.drive = job.drive /\ job'.row = job.row
    BY <2>1, <2>2 DEF AfterFile, NoFile, Job
  <2> QED BY <1>0, <2>1, <2>3 DEF AfterFile, WalkInv
<1>13. CASE SkipFile
  <2>1. pc = "extract" /\ job' = NoFile /\ UNCHANGED <<walk, floor>>
    BY <1>13 DEF SkipFile, storeVars
  <2>2. job \in Job
    BY <2>1, JobInHand DEF RowPhases
  <2>3. job'.drive = job.drive /\ job'.row = job.row
    BY <2>1, <2>2 DEF NoFile, Job
  <2> QED BY <1>0, <2>1, <2>3 DEF WalkInv
<1>11. ASSUME NEW d \in Drives, BeginBackfill(d)
       PROVE  WalkInv'
  BY <1>11 DEF BeginBackfill, WalkInv, storeVars
<1>12. ASSUME NEW f \in Files, BackfillFile(f)
       PROVE  WalkInv'
  <2>1. job \in Job
    BY <1>12, JobInHand DEF BackfillFile
  <2>2. job'.drive = job.drive /\ job'.row = job.row
    BY <1>12, <2>1 DEF BackfillFile, Job
  <2> QED BY <1>0, <1>12, <2>2 DEF BackfillFile, WalkInv, storeVars
<1> QED BY StepCases, <1>1, <1>2, <1>3, <1>4, <1>5, <1>6, <1>7, <1>8, <1>9, <1>10, <1>11, <1>12, <1>13

\* No file is missed twice before its miss is recorded.
LEMMA MissStep ==
  ASSUME TypeInv, [Next]_vars
  PROVE  MissInv'
<1>0. MissInv
  BY DEF TypeInv
<1>1. ASSUME misses' = {} PROVE MissInv'
  BY <1>1 DEF MissInv
<1>2. ASSUME pc \notin {"extract", "record", "backfill", "window"}, misses' = misses
      PROVE  MissInv'
  BY <1>0, <1>1, <1>2 DEF MissInv
<1>3. CASE Remote \/ Access \/ (\E f \in Files : PeerPublishes(f)) \/ UNCHANGED vars
  BY <1>0, <1>3 DEF MissInv, Remote, Access, PeerPublishes, storeVars, cycleVars, vars
<1>4. CASE ListDrives \/ EndDiscovery
  BY <1>2, <1>4 DEF ListDrives, EndDiscovery
<1>5. CASE \E d \in Drives : Bootstrap(d) \/ \E f \in Files : ListChange(d, f)
  BY <1>2, <1>5 DEF Bootstrap, ListChange, cycleVars
<1>6. CASE CountAbsences \/ PresenceFails \/ SaveKnown
  BY <1>2, <1>6 DEF CountAbsences, PresenceFails, SaveKnown, ToWork
<1>7. CASE \E d \in Drives : PurgeDrive(d) \/ ForgetDrive(d) \/ ForgetFails(d)
  BY <1>2, <1>7 DEF PurgeDrive, ForgetDrive, ForgetFails, Forgotten, cycleVars
<1>8. CASE RemoveChunks \/ FinishRemove \/ EndWork \/ (\E r \in rows : TakeRow(r)) \/ Collect
  BY <1>2, <1>8 DEF RemoveChunks, FinishRemove, EndWork, TakeRow, Collect
<1>9. CASE \E p \in pending : PublishFile(p)
  BY <1>2, <1>9 DEF PublishFile, cycleVars
<1>10. CASE FinishUpsert \/ RecordMisses \/ EndCycle \/ Crash
  BY <1>1, <1>10 DEF FinishUpsert, RecordMisses, EndCycle, Crash
<1>m. \A m \in misses : m.drive \in Drives /\ m.file \in Files /\ m.file # None
  BY DrivesAssumption DEF TypeInv, TypeOK, Pending
<1>11. CASE JobFails
  <2>1. CASE job.row
    BY <1>0, <1>1, <1>11, <2>1 DEF JobFails, MissInv
  <2>2. CASE ~job.row
    BY <1>0, <1>11, <2>2 DEF JobFails, MissInv, storeVars
  <2> QED BY <2>1, <2>2
<1>12. CASE EndBackfill
  BY <1>0, <1>12 DEF EndBackfill, MissInv
<1>13. ASSUME NEW d \in Drives, BeginBackfill(d)
       PROVE  MissInv'
  <2>1. pc = "backfill" /\ pc' = "window" /\ walk' = walk \ {d} /\ d \in walk /\ misses' = misses
    BY <1>13 DEF BeginBackfill
  <2>2. \A m \in misses : m.drive \notin walk' /\ m.drive # job'.drive
    BY <1>0, <1>13, <2>1 DEF MissInv, BeginBackfill
  <2> QED BY <1>0, <2>1, <2>2 DEF MissInv
<1>14. ASSUME NEW f \in Files, BackfillFile(f)
       PROVE  MissInv'
  <2>1. pc = "window" /\ job \in Job /\ job.file = None /\ ~job.row
    BY <1>14, JobInHand DEF BackfillFile
  <2>2. job'.drive = job.drive /\ job'.row = job.row /\ job'.file = f
    BY <1>14, <2>1 DEF BackfillFile, Job
  <2>3. todo' \cup {f} \subseteq todo /\ UNCHANGED <<misses, walk>> /\ pc' = "extract"
    BY <1>14 DEF BackfillFile
  <2> QED BY <1>0, <2>1, <2>2, <2>3 DEF MissInv
<1>15. CASE Import \/ Extract
  <2>1. pc = "extract" /\ AfterFile /\ UNCHANGED <<todo, walk>>
    BY <1>15 DEF Import, Extract
  <2>2. job \in Job /\ job.file \in Files /\ job.row \in BOOLEAN
    BY <2>1, JobInHand DEF RowPhases, JobPhases
  <2> DEFINE new == [drive |-> job.drive, file |-> job.file, hash |-> job.hash]
  <2>3. misses' = misses \/ misses' = misses \cup {new}
    BY <1>15 DEF Import, Extract
  <2>4. new.drive = job.drive /\ new.file = job.file
    OBVIOUS
  <2> HIDE DEF new
  <2>5. CASE job.row
    <3>1. misses = {} /\ pc' = "record"
      BY <1>0, <2>1, <2>5 DEF MissInv, AfterFile
    <3> QED BY <2>3, <3>1 DEF MissInv
  <2>6. CASE ~job.row
    <3>1. pc' = "window" /\ job'.drive = job.drive /\ job'.file = None
      BY <2>1, <2>2, <2>6 DEF AfterFile, NoFile, Job
    <3>2. job.file \notin todo /\ job.drive \notin walk
      BY <2>1, <2>6 DEF TypeInv, JobInv, WalkInv
    <3>3. \A m \in misses : m.drive = job.drive => m.file \notin todo \cup {job.file}
      BY <1>0, <2>1, <3>2 DEF MissInv
    <3>4. \A m \in misses' : /\ m.drive \notin walk
                             /\ m.drive = job.drive => m.file \notin todo /\ m.file # None
      BY <1>0, <1>m, <2>1, <2>2, <2>3, <2>4, <3>2, <3>3, JobInHand DEF MissInv
    <3>5. \A m, n \in misses' : m.drive = n.drive /\ m.file = n.file => m = n
      BY <1>0, <2>3, <2>4, <3>3 DEF MissInv
    <3> QED BY <2>1, <3>1, <3>4, <3>5 DEF MissInv
  <2> QED BY <2>2, <2>5, <2>6
<1>16. CASE SkipFile
  <2>1. pc = "extract" /\ ~job.row /\ pc' = "window" /\ job' = NoFile /\ UNCHANGED <<todo, walk, misses>>
    BY <1>16 DEF SkipFile
  <2>2. job \in Job
    BY <2>1, JobInHand DEF RowPhases
  <2>3. job'.drive = job.drive /\ job'.file = None
    BY <2>1, <2>2 DEF NoFile, Job
  <2> QED BY <1>0, <1>m, <2>1, <2>3 DEF MissInv
<1> QED BY StepCases, <1>3, <1>4, <1>5, <1>6, <1>7, <1>8, <1>9, <1>10, <1>11, <1>12, <1>13,
           <1>14, <1>15, <1>16

\* Types and what is in hand, together.
LEMMA TypeInvStep ==
  ASSUME TypeInv, [Next]_vars
  PROVE  TypeInv'
BY TypeOKStep, JobStep, WalkStep, MissStep DEF TypeInv

-----------------------------------------------------------------------------
(* Purged drives, queued rows.                                              *)

\* What happens on Drive touches nothing else; what changes of a file is ahead
\* of the cursors of the drives it concerns.
LEMMA RemoteEffect ==
  ASSUME TypeInv, Remote \/ Access
  PROVE  /\ UNCHANGED <<storeVars, cycleVars, artifacts, excused>>
         /\ \A d \in Drives : changed[d] \subseteq changed'[d]
         /\ \A f \in Files : ver[f] <= ver'[f]
         /\ \A f \in Files : ver'[f] # ver[f] \/ loc'[f] # loc[f] =>
              \A d \in fed : d = loc[f] \/ d = loc'[f] => f \in changed'[d]
         /\ \A f \in Files : age'[f] # age[f] => ver'[f] # ver[f]
<1>0. /\ UNCHANGED <<storeVars, cycleVars, artifacts, excused>>
      /\ fed \subseteq Drives /\ None \notin Drives
      /\ \A f \in Files : ver[f] \in Nat
      /\ ver \in [Files -> Versions] /\ loc \in [Files -> Drives \cup {None}]
      /\ age \in [Files -> 0..Oldest]
  BY VersionsAreNats, DrivesAssumption DEF Remote, Access, TypeInv, TypeOK
<1>1. ASSUME NEW f \in Files, NEW ds, Reported(f, ds)
      PROVE  /\ \A d \in Drives : changed[d] \subseteq changed'[d]
             /\ \A d \in fed \cap ds : f \in changed'[d]
  BY <1>0, <1>1 DEF Reported
<1>2. ASSUME NEW g \in Files, Edit(g)
      PROVE  /\ \A d \in Drives : changed[d] \subseteq changed'[d]
             /\ \A f \in Files : ver[f] <= ver'[f]
             /\ \A f \in Files : ver'[f] # ver[f] \/ loc'[f] # loc[f] =>
                  \A d \in fed : d = loc[f] \/ d = loc'[f] => f \in changed'[d]
             /\ \A f \in Files : age'[f] # age[f] => ver'[f] # ver[f]
  <2>1. /\ \A f \in Files \ {g} : ver'[f] = ver[f]
        /\ ver'[g] = ver[g] + 1 /\ loc' = loc /\ Reported(g, {loc[g]})
        /\ \A f \in Files \ {g} : age'[f] = age[f]
    BY <1>0, <1>2 DEF Edit
  <2>2. /\ \A f \in Files : ver[f] <= ver'[f]
        /\ ver'[g] # ver[g]
    BY <1>0, <2>1
  <2>3. \A f \in Files : age'[f] # age[f] => ver'[f] # ver[f]
    BY <2>1, <2>2
  <2>4. \A f \in Files : ver'[f] # ver[f] \/ loc'[f] # loc[f] => f = g
    BY <2>1
  <2>5. \A f \in Files : ver'[f] # ver[f] \/ loc'[f] # loc[f] =>
           \A d \in fed : d = loc[f] \/ d = loc'[f] => f \in changed'[d]
    BY <1>1, <2>1, <2>4
  <2> QED BY <1>1, <2>1, <2>2, <2>3, <2>5
<1>3. ASSUME NEW g \in Files, NEW e \in Drives \cup {None}, Move(g, e)
      PROVE  /\ \A d \in Drives : changed[d] \subseteq changed'[d]
             /\ \A f \in Files : ver[f] <= ver'[f]
             /\ \A f \in Files : ver'[f] # ver[f] \/ loc'[f] # loc[f] =>
                  \A d \in fed : d = loc[f] \/ d = loc'[f] => f \in changed'[d]
             /\ \A f \in Files : age'[f] # age[f] => ver'[f] # ver[f]
  <2>1. /\ \A f \in Files \ {g} : loc'[f] = loc[f]
        /\ loc'[g] = e /\ ver' = ver /\ age' = age /\ Reported(g, {loc[g], e} \ {None})
    BY <1>0, <1>3 DEF Move
  <2>2. \A f \in Files : ver[f] <= ver'[f]
    BY <1>0, <2>1
  <2>3. \A d \in fed \cap {loc[g], e} : g \in changed'[d]
    BY <1>0, <1>1, <2>1
  <2> QED BY <1>0, <1>1, <2>1, <2>2, <2>3
<1>4. CASE Access
  <2>1. UNCHANGED <<loc, ver, age, changed>>
    BY <1>4 DEF Access, ChangeAccess
  <2>2. \A f \in Files : ver[f] <= ver'[f]
    BY <1>0, <2>1
  <2> QED BY <1>0, <2>1, <2>2
<1> QED BY <1>0, <1>2, <1>3, <1>4 DEF Remote

\* Only the feeds, the discovery and the forgetting change what is ahead of a
\* cursor; only a listing and the work change the rows.
LEMMA FeedEffect ==
  ASSUME [Next]_vars
  PROVE  \/ Remote \/ Access \/ \E d \in Drives : Bootstrap(d)
         \/ \E d \in Drives : ForgetDrive(d)
         \/ \E d \in Drives : \E f \in Files : ListChange(d, f)
         \/ /\ UNCHANGED <<loc, ver, age, changed, fed>>
            /\ rows' = rows \/ (FinishRemove \/ FinishUpsert)
<1>1. CASE (\E f \in Files : PeerPublishes(f)) \/ UNCHANGED vars
  BY <1>1 DEF PeerPublishes, storeVars, vars, remoteVars
<1>2. CASE ListDrives \/ EndDiscovery \/ CountAbsences \/ PresenceFails \/ SaveKnown
  BY <1>2 DEF ListDrives, EndDiscovery, CountAbsences, PresenceFails, SaveKnown, storeVars, remoteVars
<1>3. CASE \E d \in Drives : PurgeDrive(d) \/ ForgetFails(d)
  BY <1>3 DEF PurgeDrive, ForgetFails, storeVars, remoteVars
<1>4. CASE RemoveChunks \/ FinishRemove \/ FinishUpsert \/ EndWork \/ JobFails \/ Crash
  BY <1>4 DEF RemoveChunks, FinishRemove, FinishUpsert, EndWork, JobFails, Crash, storeVars, remoteVars
<1>5. CASE Collect \/ SkipFile \/ EndBackfill \/ RecordMisses \/ EndCycle \/ Import \/ Extract
  BY <1>5 DEF Collect, SkipFile, EndBackfill, RecordMisses, EndCycle, Import, Extract, storeVars,
              remoteVars
<1>6. CASE \E p \in pending : PublishFile(p)
  BY <1>6 DEF PublishFile, remoteVars
<1>7. CASE (\E r \in rows : TakeRow(r)) \/ (\E d \in Drives : BeginBackfill(d))
           \/ (\E f \in Files : BackfillFile(f))
  BY <1>7 DEF TakeRow, BeginBackfill, BackfillFile, storeVars, remoteVars
<1> QED BY StepCases, <1>1, <1>2, <1>3, <1>4, <1>5, <1>6, <1>7

\* What is purged is gone before it is forgotten.
LEMMA PurgeStep ==
  ASSUME TypeInv, PurgeInv, [Next]_vars
  PROVE  PurgeInv'
<1>1. CASE UNCHANGED <<pc, purging, chunks>>
  BY <1>1 DEF PurgeInv, Stamped
<1>2. ASSUME purging' = {} PROVE PurgeInv'
  BY <1>2 DEF PurgeInv
<1>3. ASSUME pc \notin {"purge", "forget"}, purging' = purging PROVE PurgeInv'
  BY <1>2, <1>3 DEF PurgeInv
<1>4. CASE Remote \/ Access \/ (\E f \in Files : PeerPublishes(f)) \/ UNCHANGED vars
  BY <1>1, <1>4 DEF Remote, Access, PeerPublishes, storeVars, cycleVars, vars
<1>5. CASE ListDrives \/ EndDiscovery
  BY <1>3, <1>5 DEF ListDrives, EndDiscovery
<1>6. CASE \E d \in Drives : Bootstrap(d) \/ \E f \in Files : ListChange(d, f)
  BY <1>1, <1>6 DEF Bootstrap, ListChange, cycleVars
<1>7. CASE CountAbsences
  BY <1>3, <1>7 DEF CountAbsences, ToWork, PurgeInv
<1>8. CASE PresenceFails \/ Crash
  BY <1>2, <1>8 DEF PresenceFails, Crash
<1>9. CASE SaveKnown
  BY <1>2, <1>9 DEF SaveKnown, PurgeInv, Stamped
<1>10. CASE \E d \in Drives : PurgeDrive(d)
  BY <1>10 DEF PurgeDrive, PurgeInv, cycleVars
<1>11. CASE \E d \in Drives : ForgetDrive(d) \/ ForgetFails(d)
  BY <1>11 DEF ForgetDrive, ForgetFails, Forgotten, PurgeInv, Stamped, storeVars
<1>12. CASE RemoveChunks \/ FinishRemove \/ FinishUpsert \/ EndWork \/ JobFails
            \/ (\E r \in rows : TakeRow(r)) \/ Import \/ Extract
  BY <1>3, <1>12 DEF RemoveChunks, FinishRemove, FinishUpsert, EndWork, JobFails, TakeRow, Import, Extract
<1>13. CASE Collect \/ SkipFile \/ EndBackfill \/ RecordMisses \/ EndCycle
            \/ (\E d \in Drives : BeginBackfill(d)) \/ (\E f \in Files : BackfillFile(f))
  BY <1>3, <1>13 DEF Collect, SkipFile, EndBackfill, RecordMisses, EndCycle, BeginBackfill, BackfillFile
<1>14. CASE \E p \in pending : PublishFile(p)
  BY <1>3, <1>14 DEF PublishFile, cycleVars
<1> QED BY StepCases, <1>4, <1>5, <1>6, <1>7, <1>8, <1>9, <1>10, <1>11, <1>12, <1>13, <1>14

\* Rows are of drives with a cursor, and removals of files that are gone or due.
LEMMA RowsStep ==
  ASSUME TypeInv, RowsInv, [Next]_vars
  PROVE  RowsInv'
<1>0. \A r \in rows : r.drive \in Drives /\ r.file \in Files
  BY DEF TypeInv, TypeOK, Row
<1>1. ASSUME rows' \subseteq rows, fed' = fed, loc' = loc, changed' = changed
      PROVE  RowsInv'
  BY <1>1 DEF RowsInv
<1>2. CASE Remote \/ Access
  <2>1. UNCHANGED <<rows, fed>>
    BY <1>2, RemoteEffect DEF storeVars
  <2>2. ASSUME NEW r \in rows, r.event = "remove", loc'[r.file] = r.drive
        PROVE  r.file \in changed'[r.drive]
    BY <1>0, <1>2, <2>2, RemoteEffect DEF RowsInv
  <2> QED BY <2>1, <2>2 DEF RowsInv
<1>3. ASSUME NEW d \in Drives, Bootstrap(d)
      PROVE  RowsInv'
  <2>1. \A r \in rows : r.drive # d
    BY <1>3 DEF Bootstrap, RowsInv
  <2>2. \A e \in Drives \ {d} : changed'[e] = changed[e]
    BY <1>3 DEF Bootstrap, TypeInv, TypeOK
  <2> QED BY <1>0, <1>3, <2>1, <2>2 DEF Bootstrap, RowsInv
<1>4. ASSUME NEW d \in Drives, ForgetDrive(d)
      PROVE  RowsInv'
  <2>1. \A r \in rows' : r \in rows /\ r.drive # d
    BY <1>4 DEF ForgetDrive, RowsOf
  <2>2. \A e \in Drives \ {d} : changed'[e] = changed[e]
    BY <1>4 DEF ForgetDrive, TypeInv, TypeOK
  <2> QED BY <1>0, <1>4, <2>1, <2>2 DEF ForgetDrive, RowsInv
<1>5. ASSUME NEW d \in Drives, NEW f \in Files, ListChange(d, f)
      PROVE  RowsInv'
  <2> DEFINE new == [drive |-> d, file |-> f, event |-> Kind(f, d)]
  <2>1. /\ new.drive = d /\ new.file = f /\ (new.event = "remove" => loc[f] # d)
    BY DEF Kind
  <2> HIDE DEF new
  <2>2. /\ \A r \in rows' : r = new \/ (r \in rows /\ (r.drive # d \/ r.file # f))
        /\ d \in fed /\ UNCHANGED <<fed, loc>>
        /\ changed' = [changed EXCEPT ![d] = @ \ {f}]
    BY <1>5 DEF ListChange, WithRow, new
  <2>3. ASSUME NEW r \in rows, r.drive # d \/ r.file # f, r.file \in changed[r.drive]
        PROVE  r.file \in changed'[r.drive]
    BY <1>0, <2>2, <2>3 DEF TypeInv, TypeOK
  <2> QED BY <2>1, <2>2, <2>3 DEF RowsInv
<1>6. CASE FinishRemove \/ FinishUpsert
  BY <1>1, <1>6 DEF FinishRemove, FinishUpsert, Done, remoteVars
<1> QED BY FeedEffect, <1>1, <1>2, <1>3, <1>4, <1>5, <1>6

\* The row that is worked is queued, and what was read for it is as it is or due.
LEMMA WorkStep ==
  ASSUME TypeInv, RowsInv, WorkInv, [Next]_vars
  PROVE  WorkInv'
<1> DEFINE Working == {"handle", "removed", "extract", "record"}
<1>1. ASSUME pc' \notin Working PROVE WorkInv'
  BY <1>1 DEF WorkInv
<1>2. CASE pc \notin Working
  <2>1. ASSUME NEW r \in rows, TakeRow(r)
        PROVE  WorkInv'
    <3>1. r = [drive |-> r.drive, file |-> r.file, event |-> r.event]
          /\ r.event \in {"upsert", "remove"}
      BY DEF TypeInv, TypeOK, Row
    <3>2. UNCHANGED <<rows, loc, ver, changed, fed>>
      BY <2>1 DEF TakeRow, storeVars, remoteVars
    <3>3. job'.drive = r.drive /\ job'.file = r.file /\ job'.row
      BY <2>1 DEF TakeRow
    <3>4. r.event = "remove" => pc' = "handle"
      BY <2>1 DEF TakeRow
    <3>5. r.event # "remove" => pc' = "extract" /\ job'.hash = ver[r.file]
      BY <2>1 DEF TakeRow
    <3>6. HasRow(job.drive, job.file, r.event)'
      BY <3>1, <3>2, <3>3 DEF HasRow
    <3> QED BY <3>1, <3>2, <3>3, <3>4, <3>5, <3>6 DEF WorkInv
  <2>2. ASSUME NEW f \in Files, BackfillFile(f)
        PROVE  WorkInv'
    <3>1. job \in Job /\ ~job.row
      BY <2>2, JobInHand DEF BackfillFile
    <3>2. job'.file = f /\ job'.hash = ver[f] /\ ~job'.row /\ pc' = "extract"
      BY <2>2, <3>1 DEF BackfillFile, Job
    <3>3. UNCHANGED <<loc, ver, changed, fed>>
      BY <2>2 DEF BackfillFile, storeVars, remoteVars
    <3> QED BY <3>2, <3>3 DEF WorkInv
  <2>3. CASE Remote \/ Access \/ (\E f \in Files : PeerPublishes(f)) \/ UNCHANGED vars
    BY <1>1, <1>2, <2>3 DEF Remote, Access, PeerPublishes, cycleVars, vars
  <2>4. CASE ListDrives \/ EndDiscovery \/ CountAbsences \/ PresenceFails \/ SaveKnown
    BY <1>1, <2>4 DEF ListDrives, EndDiscovery, CountAbsences, PresenceFails, SaveKnown, ToWork
  <2>5. CASE \E d \in Drives : Bootstrap(d) \/ \E f \in Files : ListChange(d, f)
    BY <1>1, <1>2, <2>5 DEF Bootstrap, ListChange, cycleVars
  <2>6. CASE \E d \in Drives : PurgeDrive(d) \/ ForgetDrive(d) \/ ForgetFails(d)
    BY <1>1, <1>2, <2>6 DEF PurgeDrive, ForgetDrive, ForgetFails, Forgotten, cycleVars
  <2>7. CASE \/ RemoveChunks \/ FinishRemove \/ FinishUpsert \/ Import \/ Extract \/ JobFails
             \/ SkipFile
    BY <1>2, <2>7 DEF RemoveChunks, FinishRemove, FinishUpsert, Import, Extract, JobFails, SkipFile
  <2>8. CASE EndWork \/ Crash \/ Collect \/ EndBackfill \/ RecordMisses \/ EndCycle
             \/ (\E d \in Drives : BeginBackfill(d))
    BY <1>1, <2>8 DEF EndWork, Crash, Collect, EndBackfill, RecordMisses, EndCycle, BeginBackfill
  <2>9. CASE \E p \in pending : PublishFile(p)
    BY <1>1, <1>2, <2>9 DEF PublishFile, cycleVars
  <2> QED BY StepCases, <2>1, <2>2, <2>3, <2>4, <2>5, <2>6, <2>7, <2>8, <2>9
<1>3. CASE pc \in Working
  <2>0. job \in Job /\ job.drive \in Drives /\ job.file \in Files
    BY <1>3, JobInHand DEF RowPhases
  <2>1. CASE Remote \/ Access
    <3>1. UNCHANGED <<storeVars, cycleVars>>
      BY <2>1, RemoteEffect
    <3>2. pc = "extract" /\ loc'[job.file] = job.drive /\ job.drive \in fed =>
            ver'[job.file] = job.hash \/ job.file \in changed'[job.drive]
      BY <2>0, <2>1, RemoteEffect DEF WorkInv
    <3> QED BY <3>1, <3>2 DEF WorkInv, HasRow, Stamped, storeVars, cycleVars
  <2>2. CASE (\E f \in Files : PeerPublishes(f)) \/ UNCHANGED vars
    BY <2>2 DEF WorkInv, HasRow, Stamped, PeerPublishes, storeVars, cycleVars, remoteVars, vars
  <2>3. CASE RemoveChunks
    <3>1. pc = "handle" /\ pc' = "removed" /\ UNCHANGED <<rows, job>>
          /\ chunks' = [chunks EXCEPT ![job.file] = Dropped(job.file, job.drive)]
      BY <2>3 DEF RemoveChunks
    <3>2. job.file \notin Stamped(job.drive)'
      BY <2>0, <3>1 DEF Stamped, Dropped, TypeInv, TypeOK
    <3> QED BY <3>1, <3>2 DEF WorkInv, HasRow
  <2>4. CASE FinishRemove \/ FinishUpsert \/ JobFails \/ Crash
    BY <1>1, <2>4 DEF FinishRemove, FinishUpsert, JobFails, Crash
  <2>9. CASE SkipFile
    BY <1>1, <2>9 DEF SkipFile
  <2>5. CASE Import \/ Extract
    <3>1. pc = "extract" /\ AfterFile /\ rows' = rows
      BY <2>5 DEF Import, Extract
    <3> QED BY <1>1, <3>1 DEF AfterFile, WorkInv, HasRow
  <2>6. CASE \/ ListDrives \/ EndDiscovery \/ CountAbsences \/ PresenceFails \/ SaveKnown
             \/ \E d \in Drives : Bootstrap(d) \/ \E f \in Files : ListChange(d, f)
    BY <1>3, <2>6 DEF ListDrives, EndDiscovery, CountAbsences, PresenceFails, SaveKnown, Bootstrap,
                      ListChange
  <2>7. CASE \/ \E d \in Drives : PurgeDrive(d) \/ ForgetDrive(d) \/ ForgetFails(d) \/ BeginBackfill(d)
             \/ \E f \in Files : BackfillFile(f)
    BY <1>3, <2>7 DEF PurgeDrive, ForgetDrive, ForgetFails, BeginBackfill, BackfillFile
  <2>8. CASE \/ EndWork \/ Collect \/ EndBackfill \/ RecordMisses \/ EndCycle
             \/ \E r \in rows : TakeRow(r)
             \/ \E p \in pending : PublishFile(p)
    BY <1>3, <2>8 DEF EndWork, Collect, EndBackfill, RecordMisses, EndCycle, TakeRow, PublishFile
  <2> QED BY StepCases, <2>1, <2>2, <2>3, <2>4, <2>5, <2>6, <2>7, <2>8, <2>9
<1> QED BY <1>2, <1>3

-----------------------------------------------------------------------------
(* Hashes and versions.                                                     *)

\* Hashes and versions are numbers.
LEMMA HashesAreNats ==
  ASSUME TypeInv
  PROVE  /\ \A f \in Files : ver[f] \in Nat
         /\ \A f \in Files : chunks[f] # None => chunks[f].content.ver \in Nat
         /\ \A p \in pending \cup misses : p.hash \in Nat /\ p.file \in Files /\ p.drive \in Drives
         /\ \A d \in Drives : \A a \in artifacts[d] :
              a.hash \in Nat /\ a.content.ver \in Nat /\ a.file \in Files
         /\ pc = "extract" => job.hash \in Nat /\ job.file \in Files
<1>0. \A n \in Versions : n \in Nat
  BY DrivesAssumption DEF Versions
<1>1. \A f \in Files : ver[f] \in Nat
  BY VersionsAreNats DEF TypeInv
<1>2. \A c \in Content : c.ver \in Nat
  BY <1>0 DEF Content
<1>3. \A f \in Files : chunks[f] # None => chunks[f].content.ver \in Nat
  BY <1>2 DEF TypeInv, TypeOK, Chunks
<1>4. \A p \in Pending : p.hash \in Nat /\ p.file \in Files /\ p.drive \in Drives
  BY <1>0 DEF Pending
<1>5. \A a \in Artifact : a.hash \in Nat /\ a.content.ver \in Nat /\ a.file \in Files
  BY <1>0, <1>2 DEF Artifact
<1>6. pc = "extract" => job.hash \in Nat /\ job.file \in Files
  BY <1>0, JobInHand DEF RowPhases
<1>7. pending \subseteq Pending /\ misses \subseteq Pending
  BY DEF TypeInv, TypeOK
<1>8. \A d \in Drives : artifacts[d] \subseteq Artifact
  BY DEF TypeInv, TypeOK
<1> QED BY <1>1, <1>3, <1>4, <1>5, <1>6, <1>7, <1>8

\* No version goes back.
LEMMA VersionsGrow ==
  ASSUME TypeInv, [Next]_vars
  PROVE  \A f \in Files : ver[f] \in Nat /\ ver'[f] \in Nat /\ ver[f] <= ver'[f]
<1>1. \A f \in Files : ver[f] \in Nat /\ ver'[f] \in Nat
  <2>1. TypeInv'
    BY TypeInvStep
  <2>2. \A n \in Versions : n \in Nat
    BY DrivesAssumption DEF Versions
  <2> QED BY <2>1, <2>2 DEF TypeInv, TypeOK
<1>2. CASE Remote \/ Access
  BY <1>1, <1>2, RemoteEffect
<1>3. CASE ver' = ver
  BY <1>1, <1>3
<1> QED BY <1>2, <1>3, FeedEffect DEF Bootstrap, ForgetDrive, ListChange

\* The steps that change the store.
LEMMA StoreEffect ==
  ASSUME [Next]_vars
  PROVE  \/ chunks' = chunks
         \/ (\E d \in Drives : PurgeDrive(d)) \/ RemoveChunks \/ Import \/ Extract
<1>1. CASE Remote \/ Access \/ (\E f \in Files : PeerPublishes(f)) \/ UNCHANGED vars
  BY <1>1 DEF Remote, Access, PeerPublishes, storeVars, vars
<1>2. CASE ListDrives \/ EndDiscovery \/ CountAbsences \/ PresenceFails \/ SaveKnown
  BY <1>2 DEF ListDrives, EndDiscovery, CountAbsences, PresenceFails, SaveKnown, storeVars
<1>3. CASE \E d \in Drives : ForgetDrive(d) \/ ForgetFails(d) \/ Bootstrap(d) \/ BeginBackfill(d)
  BY <1>3 DEF ForgetDrive, ForgetFails, Bootstrap, BeginBackfill, storeVars
<1>4. CASE \E f \in Files : BackfillFile(f) \/ \E d \in Drives : ListChange(d, f)
  BY <1>4 DEF BackfillFile, ListChange, storeVars
<1>5. CASE FinishRemove \/ FinishUpsert \/ EndWork \/ JobFails \/ Crash
  BY <1>5 DEF FinishRemove, FinishUpsert, EndWork, JobFails, Crash, storeVars
<1>6. CASE Collect \/ SkipFile \/ EndBackfill \/ RecordMisses \/ EndCycle
  BY <1>6 DEF Collect, SkipFile, EndBackfill, RecordMisses, EndCycle, storeVars
<1>7. CASE (\E r \in rows : TakeRow(r)) \/ (\E p \in pending : PublishFile(p))
  BY <1>7 DEF TakeRow, PublishFile, storeVars
<1> QED BY StepCases, <1>1, <1>2, <1>3, <1>4, <1>5, <1>6, <1>7

\* The steps that change the artifact folders.
LEMMA ArtifactEffect ==
  ASSUME [Next]_vars
  PROVE  \/ artifacts' = artifacts
         \/ (\E f \in Files : PeerPublishes(f)) \/ (\E p \in pending : PublishFile(p))
         \/ FinishRemove \/ Collect
<1>1. CASE Remote \/ Access \/ UNCHANGED vars
  BY <1>1 DEF Remote, Access, vars
<1>2. CASE ListDrives \/ EndDiscovery \/ CountAbsences \/ PresenceFails \/ SaveKnown
  BY <1>2 DEF ListDrives, EndDiscovery, CountAbsences, PresenceFails, SaveKnown
<1>3. CASE \E d \in Drives : PurgeDrive(d) \/ ForgetDrive(d) \/ ForgetFails(d) \/ Bootstrap(d)
                             \/ BeginBackfill(d)
  BY <1>3 DEF PurgeDrive, ForgetDrive, ForgetFails, Bootstrap, BeginBackfill
<1>4. CASE \E f \in Files : BackfillFile(f) \/ \E d \in Drives : ListChange(d, f)
  BY <1>4 DEF BackfillFile, ListChange
<1>5. CASE RemoveChunks \/ FinishUpsert \/ EndWork \/ JobFails \/ Crash \/ Import \/ Extract
  BY <1>5 DEF RemoveChunks, FinishUpsert, EndWork, JobFails, Crash, Import, Extract
<1>6. CASE SkipFile \/ EndBackfill \/ RecordMisses \/ EndCycle \/ (\E r \in rows : TakeRow(r))
  BY <1>6 DEF SkipFile, EndBackfill, RecordMisses, EndCycle, TakeRow
<1> QED BY StepCases, <1>1, <1>2, <1>3, <1>4, <1>5, <1>6

\* Only an extraction adds to what is to be published.
LEMMA PendingEffect ==
  ASSUME [Next]_vars
  PROVE  pending' \cup misses' \subseteq pending \cup misses \/ Extract
<1>1. CASE Remote \/ Access \/ (\E f \in Files : PeerPublishes(f)) \/ UNCHANGED vars
  BY <1>1 DEF Remote, Access, PeerPublishes, storeVars, cycleVars, vars
<1>2. CASE ListDrives \/ EndDiscovery \/ CountAbsences \/ PresenceFails \/ SaveKnown
  BY <1>2 DEF ListDrives, EndDiscovery, CountAbsences, PresenceFails, SaveKnown, storeVars
<1>3. CASE \E d \in Drives : PurgeDrive(d) \/ ForgetDrive(d) \/ ForgetFails(d) \/ Bootstrap(d)
                             \/ BeginBackfill(d)
  BY <1>3 DEF PurgeDrive, ForgetDrive, ForgetFails, Bootstrap, BeginBackfill, storeVars, cycleVars
<1>4. CASE \E f \in Files : BackfillFile(f) \/ \E d \in Drives : ListChange(d, f)
  BY <1>4 DEF BackfillFile, ListChange, storeVars, cycleVars
<1>5. CASE RemoveChunks \/ FinishRemove \/ EndWork \/ JobFails \/ Crash \/ Import
  BY <1>5 DEF RemoveChunks, FinishRemove, Cleared, EndWork, JobFails, Crash, Import, storeVars
<1>6. CASE FinishUpsert \/ RecordMisses
  BY <1>6 DEF FinishUpsert, RecordMisses, WithPending
<1>7. CASE Collect \/ SkipFile \/ EndBackfill \/ EndCycle \/ (\E r \in rows : TakeRow(r))
  BY <1>7 DEF Collect, SkipFile, EndBackfill, EndCycle, TakeRow, storeVars
<1>8. CASE \E p \in pending : PublishFile(p)
  BY <1>8 DEF PublishFile, cycleVars
<1> QED BY StepCases, <1>1, <1>2, <1>3, <1>4, <1>5, <1>6, <1>7, <1>8

\* A file comes into hand under the version it has.
LEMMA JobEffect ==
  ASSUME TypeInv, [Next]_vars, pc' = "extract"
  PROVE  \/ UNCHANGED <<pc, job>>
         \/ job'.file \in Files /\ job'.hash = ver[job'.file] /\ UNCHANGED remoteVars
<1>1. CASE RemoveChunks \/ FinishRemove \/ FinishUpsert \/ Import \/ Extract \/ JobFails
           \/ SkipFile \/ EndBackfill \/ RecordMisses \/ Crash
           \/ (\E d \in Drives : BeginBackfill(d))
  BY <1>1 DEF RemoveChunks, FinishRemove, FinishUpsert, Import, Extract, AfterFile, JobFails,
              SkipFile, EndBackfill, RecordMisses, Crash, BeginBackfill
<1>2. ASSUME NEW r \in rows, TakeRow(r)
      PROVE  job'.file \in Files /\ job'.hash = ver[job'.file] /\ UNCHANGED remoteVars
  <2>1. r.file \in Files
    BY DEF TypeInv, TypeOK, Row
  <2> QED BY <1>2, <2>1 DEF TakeRow
<1>3. ASSUME NEW f \in Files, BackfillFile(f)
      PROVE  job'.file \in Files /\ job'.hash = ver[job'.file] /\ UNCHANGED remoteVars
  <2>1. job \in Job
    BY <1>3, JobInHand DEF BackfillFile
  <2> QED BY <1>3, <2>1 DEF BackfillFile, Job
<1>4. "extract" \in JobPhases
  BY DEF JobPhases, RowPhases
<1> QED BY QuietSteps, <1>1, <1>2, <1>3, <1>4

\* What is written for the file in hand is no older than its hash, and no newer
\* than the file.
LEMMA WriteEffect ==
  ASSUME TypeInv, ArtifactHash, JobHash, Import \/ Extract
  PROVE  /\ pc = "extract" /\ AfterFile
         /\ job \in Job /\ job.drive \in Drives /\ job.file \in Files /\ job.row \in BOOLEAN
         /\ chunks'[job.file] # None /\ chunks'[job.file].drive = job.drive
         /\ job.hash <= chunks'[job.file].content.ver
         /\ chunks'[job.file].content.ver <= ver[job.file]
         /\ \A f \in Files \ {job.file} : chunks'[f] = chunks[f]
         /\ excused' = IF loc[job.file] = job.drive THEN excused \ {job.file}
                       ELSE excused \cup {job.file}
         /\ UNCHANGED <<remoteVars, artifacts, fed, rows, pending, floor, purging, todo>>
<1>1. /\ pc = "extract" /\ AfterFile
      /\ UNCHANGED <<remoteVars, artifacts, fed, rows, pending, floor, purging, todo>>
  BY DEF Import, Extract
<1>2. /\ job \in Job /\ job.drive \in Drives /\ job.file \in Files /\ job.row \in BOOLEAN
      /\ ver[job.file] \in Versions /\ ver[job.file] \in Nat
  BY <1>1, JobInHand, VersionsAreNats DEF RowPhases, JobPhases, TypeInv
<1>3. \E content \in Content :
        /\ WriteChunks(content)
        /\ job.hash <= content.ver /\ content.ver <= ver[job.file]
  <2>1. CASE Import
    <3>1. PICK a \in artifacts[job.drive] : a.file = job.file /\ a.hash = job.hash /\ WriteChunks(a.content)
      BY <2>1 DEF Import
    <3>2. a.content \in Content
      BY <1>2 DEF TypeInv, TypeOK, Artifact
    <3> QED BY <1>2, <3>1, <3>2 DEF ArtifactHash
  <2>2. CASE Extract
    <3>1. PICK b \in BOOLEAN : WriteChunks([ver |-> ver[job.file], full |-> b])
      BY <2>2 DEF Extract
    <3>2. [ver |-> ver[job.file], full |-> b] \in Content
      BY <1>2 DEF Content
    <3>3. job.hash <= ver[job.file] /\ ver[job.file] <= ver[job.file]
      BY <1>1, <1>2 DEF JobHash
    <3> QED BY <3>1, <3>2, <3>3
  <2> QED BY <2>1, <2>2
<1>4. PICK content \in Content : /\ WriteChunks(content)
                                 /\ job.hash <= content.ver /\ content.ver <= ver[job.file]
  BY <1>3
<1>5. [drive |-> job.drive, content |-> content] \in Chunks
  BY <1>2 DEF Chunks
<1>6. [drive |-> job.drive, content |-> content] # None
  BY <1>5, NoneAssumption
<1>7. /\ chunks'[job.file] = [drive |-> job.drive, content |-> content]
      /\ \A f \in Files \ {job.file} : chunks'[f] = chunks[f]
  BY <1>2, <1>4 DEF WriteChunks, TypeInv, TypeOK
<1> QED BY <1>1, <1>2, <1>4, <1>6, <1>7 DEF WriteChunks

\* The hash in hand.
LEMMA JobHashStep ==
  ASSUME TypeInv, HashInv, [Next]_vars
  PROVE  JobHash'
<1> SUFFICES ASSUME pc' = "extract" PROVE job'.hash <= ver'[job'.file]
  BY DEF JobHash
<1>1. CASE UNCHANGED <<pc, job>>
  BY <1>1, VersionsGrow, HashesAreNats DEF HashInv, JobHash
<1>2. CASE job'.file \in Files /\ job'.hash = ver[job'.file] /\ UNCHANGED remoteVars
  BY <1>2, VersionsGrow DEF remoteVars
<1> QED BY <1>1, <1>2, JobEffect

\* The store.
LEMMA StoreHashStep ==
  ASSUME TypeInv, HashInv, [Next]_vars
  PROVE  StoreHash'
<1>1. ASSUME NEW f \in Files, chunks'[f] # None, chunks'[f] = chunks[f]
      PROVE  chunks'[f].content.ver <= ver'[f]
  BY <1>1, VersionsGrow, HashesAreNats DEF HashInv, StoreHash
<1>2. CASE Import \/ Extract
  <2>1. chunks'[job.file].content.ver <= ver'[job.file]
    BY <1>2, WriteEffect DEF HashInv, remoteVars
  <2> QED BY <1>1, <1>2, <2>1, WriteEffect DEF HashInv, StoreHash
<1>3. CASE \E d \in Drives : PurgeDrive(d)
  BY <1>1, <1>3 DEF PurgeDrive, StoreHash
<1>4. CASE RemoveChunks
  BY <1>1, <1>4 DEF RemoveChunks, Dropped, StoreHash, TypeInv, TypeOK
<1> QED BY <1>1, <1>2, <1>3, <1>4, StoreEffect DEF StoreHash

\* The folders.
LEMMA ArtifactHashStep ==
  ASSUME TypeInv, HashInv, [Next]_vars
  PROVE  ArtifactHash'
<1>1. ASSUME NEW d \in Drives, NEW a \in artifacts[d]
      PROVE  a.hash <= a.content.ver /\ a.content.ver <= ver'[a.file]
  BY VersionsGrow, HashesAreNats DEF HashInv, ArtifactHash
<1>2. CASE artifacts' = artifacts
  BY <1>1, <1>2 DEF ArtifactHash
<1>p. ASSUME NEW d \in Drives, NEW new, Put(d, new),
             new.hash <= new.content.ver, new.content.ver <= ver'[new.file]
      PROVE  ArtifactHash'
  <2>1. \A e \in Drives : artifacts'[e] \subseteq artifacts[e] \cup {new}
    BY <1>p DEF Put, TypeInv, TypeOK
  <2> QED BY <1>1, <1>p, <2>1 DEF ArtifactHash
<1>3. ASSUME NEW f \in Files, PeerPublishes(f)
      PROVE  ArtifactHash'
  <2> DEFINE new == [file |-> f, hash |-> ver[f], content |-> [ver |-> ver[f], full |-> TRUE]]
  <2>1. loc[f] \in Drives /\ Put(loc[f], new) /\ ver' = ver
    BY <1>3 DEF PeerPublishes, TypeInv, TypeOK
  <2>2. new.hash <= new.content.ver /\ new.content.ver <= ver'[new.file]
    BY <2>1, HashesAreNats
  <2> HIDE DEF new
  <2> QED BY <1>p, <2>1, <2>2
<1>4. ASSUME NEW p \in pending, PublishFile(p)
      PROVE  ArtifactHash'
  <2> DEFINE new == [file |-> p.file, hash |-> p.hash, content |-> chunks[p.file].content]
  <2>1. Put(p.drive, new) /\ ver' = ver /\ chunks[p.file] # None /\ p.drive \in Drives /\ p.file \in Files
    BY <1>4, HashesAreNats DEF PublishFile, remoteVars
  <2>2. new.hash <= new.content.ver /\ new.content.ver <= ver'[new.file]
    BY <2>1 DEF HashInv, PendingHash, StoreHash
  <2> HIDE DEF new
  <2> QED BY <1>p, <2>1, <2>2
<1>5. CASE FinishRemove
  <2>1. job.drive \in Drives
    BY <1>5, JobInHand DEF FinishRemove, RowPhases
  <2>2. \A e \in Drives : artifacts'[e] \subseteq artifacts[e]
    BY <1>5, <2>1 DEF FinishRemove, TypeInv, TypeOK
  <2> QED BY <1>1, <2>2 DEF ArtifactHash
<1>6. CASE Collect
  <2>1. \A e \in Drives : artifacts'[e] \subseteq artifacts[e]
    BY <1>6 DEF Collect
  <2> QED BY <1>1, <2>1 DEF ArtifactHash
<1> QED BY <1>2, <1>3, <1>4, <1>5, <1>6, ArtifactEffect

\* What is to be published.
LEMMA PendingHashStep ==
  ASSUME TypeInv, HashInv, [Next]_vars
  PROVE  PendingHash'
<1>1. ASSUME NEW p \in pending \cup misses
      PROVE  p.hash <= ver'[p.file]
  BY VersionsGrow, HashesAreNats DEF HashInv, PendingHash
<1>2. ASSUME NEW p \in pending \cup misses, chunks'[p.file] # None
      PROVE  p.hash <= chunks'[p.file].content.ver
  <2>0. p.file \in Files /\ p.hash \in Nat
    BY HashesAreNats
  <2>1. CASE chunks'[p.file] = chunks[p.file]
    BY <1>2, <2>1 DEF HashInv, PendingHash
  <2>2. CASE Import \/ Extract
    <3>1. CASE p.file = job.file
      <4>1. p.hash <= job.hash /\ job.hash \in Nat
        BY <2>2, <3>1, WriteEffect, HashesAreNats DEF HashInv, PendingHash
      <4>2. chunks'[job.file].content.ver \in Nat
        <5>1. TypeInv'
          BY TypeInvStep
        <5>2. \A n \in Content : n.ver \in Nat
          BY DrivesAssumption DEF Content, Versions
        <5> QED BY <2>2, <5>1, <5>2, WriteEffect DEF HashInv, TypeInv, TypeOK, Chunks
      <4> QED BY <2>0, <2>2, <3>1, <4>1, <4>2, WriteEffect DEF HashInv
    <3> QED BY <2>0, <2>1, <2>2, <3>1, WriteEffect DEF HashInv
  <2>3. CASE \E d \in Drives : PurgeDrive(d)
    BY <1>2, <2>0, <2>1, <2>3 DEF PurgeDrive
  <2>4. CASE RemoveChunks
    BY <1>2, <2>0, <2>1, <2>4 DEF RemoveChunks, Dropped, TypeInv, TypeOK
  <2> QED BY <2>1, <2>2, <2>3, <2>4, StoreEffect
<1>3. ASSUME NEW p \in pending \cup misses, pc' = "extract", p.file = job'.file
      PROVE  p.hash <= job'.hash
  <2>1. CASE UNCHANGED <<pc, job>>
    BY <1>3, <2>1 DEF HashInv, PendingHash
  <2>2. CASE job'.file \in Files /\ job'.hash = ver[job'.file] /\ UNCHANGED remoteVars
    BY <1>1, <1>3, <2>2 DEF remoteVars
  <2> QED BY <1>3, <2>1, <2>2, JobEffect
<1>4. CASE pending' \cup misses' \subseteq pending \cup misses
  BY <1>1, <1>2, <1>3, <1>4 DEF PendingHash
<1>5. CASE Extract
  <2> DEFINE new == [drive |-> job.drive, file |-> job.file, hash |-> job.hash]
  <2>1. pending' \cup misses' \subseteq pending \cup misses \cup {new} /\ pc' # "extract"
    BY <1>5 DEF Extract, AfterFile
  <2>2. new.file = job.file /\ new.hash = job.hash
    OBVIOUS
  <2>3. job.hash <= ver'[job.file] /\ job.hash <= chunks'[job.file].content.ver
    BY <1>5, WriteEffect DEF HashInv, JobHash, remoteVars
  <2> HIDE DEF new
  <2> QED BY <1>1, <1>2, <2>1, <2>2, <2>3 DEF PendingHash
<1> QED BY <1>4, <1>5, PendingEffect

\* Hashes and versions, together.
LEMMA HashStep ==
  ASSUME TypeInv, HashInv, [Next]_vars
  PROVE  HashInv'
BY JobHashStep, StoreHashStep, ArtifactHashStep, PendingHashStep DEF HashInv

-----------------------------------------------------------------------------
(* The backfill.                                                            *)

\* The steps that move a floor.
LEMMA BackfillEffect ==
  ASSUME [Next]_vars
  PROVE  floor' = floor \/ (\E d \in Drives : ForgetDrive(d)) \/ EndBackfill
<1>1. CASE Remote \/ Access \/ (\E f \in Files : PeerPublishes(f)) \/ UNCHANGED vars
  BY <1>1 DEF Remote, Access, PeerPublishes, storeVars, vars
<1>2. CASE ListDrives \/ EndDiscovery \/ CountAbsences \/ PresenceFails \/ SaveKnown
  BY <1>2 DEF ListDrives, EndDiscovery, CountAbsences, PresenceFails, SaveKnown, storeVars
<1>3. CASE \E d \in Drives : PurgeDrive(d) \/ ForgetFails(d) \/ Bootstrap(d) \/ BeginBackfill(d)
  BY <1>3 DEF PurgeDrive, ForgetFails, Bootstrap, BeginBackfill, storeVars
<1>4. CASE \E f \in Files : BackfillFile(f) \/ \E d \in Drives : ListChange(d, f)
  BY <1>4 DEF BackfillFile, ListChange, storeVars
<1>5. CASE RemoveChunks \/ FinishRemove \/ FinishUpsert \/ EndWork \/ JobFails \/ Crash
  BY <1>5 DEF RemoveChunks, FinishRemove, FinishUpsert, EndWork, JobFails, Crash, storeVars
<1>6. CASE Import \/ Extract \/ SkipFile \/ Collect \/ RecordMisses \/ EndCycle
  BY <1>6 DEF Import, Extract, SkipFile, Collect, RecordMisses, EndCycle, storeVars
<1>7. CASE (\E r \in rows : TakeRow(r)) \/ (\E p \in pending : PublishFile(p))
  BY <1>7 DEF TakeRow, PublishFile, storeVars
<1> QED BY StepCases, <1>1, <1>2, <1>3, <1>4, <1>5, <1>6, <1>7

\* Ages and floors are numbers.
LEMMA AgesAreNats ==
  ASSUME TypeInv
  PROVE  /\ \A f \in Files : age[f] \in Nat
         /\ \A d \in Drives : floor[d] \in Nat
BY DrivesAssumption DEF TypeInv, TypeOK

\* A file that the backfill of a drive has yet to meet stays so, unless it is the
\* file in hand, a window of the drive ends, or one begins without it.
LEMMA BackfillKept ==
  ASSUME TypeInv, [Next]_vars, age' = age, NEW d \in Drives, NEW f \in Files, InBackfill(d, f),
         ~(EndBackfill /\ job.drive = d),
         ~((Import \/ Extract \/ SkipFile) /\ job.file = f /\ job.drive = d),
         ~(BeginBackfill(d) /\ loc[f] # d)
  PROVE  InBackfill(d, f)'
<1>0. age[f] \in Nat /\ floor[d] \in Nat /\ age[f] >= floor[d]
  BY AgesAreNats DEF InBackfill
<1>1. CASE floor' = floor /\ (job' = None \/ UNCHANGED <<job, todo>>)
  BY <1>1 DEF InBackfill
<1>2. ASSUME NEW e \in Drives, ForgetDrive(e)
      PROVE  InBackfill(d, f)'
  <2>1. (floor'[d] = 0 \/ floor'[d] = floor[d]) /\ UNCHANGED <<job, todo>> /\ pc = "forget"
    BY <1>2 DEF ForgetDrive, TypeInv, TypeOK
  <2>2. job = None
    BY <2>1, JobInHand DEF JobPhases, RowPhases
  <2> QED BY <1>0, <2>1, <2>2 DEF InBackfill
<1>3. ASSUME NEW r \in rows, TakeRow(r)
      PROVE  InBackfill(d, f)'
  <2>1. job'.row /\ floor' = floor
    BY <1>3 DEF TakeRow, storeVars
  <2> QED BY <2>1 DEF InBackfill
<1>4. CASE Import \/ Extract \/ SkipFile
  <2>1. pc = "extract" /\ UNCHANGED <<todo, floor>>
    BY <1>4 DEF Import, Extract, SkipFile, storeVars
  <2>2. job \in Job /\ job.row \in BOOLEAN /\ job # None
    BY <2>1, JobInHand DEF RowPhases, JobPhases
  <2>3. CASE job' = job
    BY <1>1, <2>1, <2>3
  <2>4. CASE job' # job
    <3>1. ~job.row /\ job'.drive = job.drive
      BY <1>4, <2>2, <2>4 DEF Import, Extract, SkipFile, AfterFile, NoFile, Job
    <3>2. CASE job.drive = d
      <4>1. f # job.file
        BY <1>4, <3>2
      <4> QED BY <2>1, <2>2, <3>1, <3>2, <4>1 DEF InBackfill
    <3>3. CASE job.drive # d
      BY <2>1, <3>1, <3>3 DEF InBackfill
    <3> QED BY <3>2, <3>3
  <2> QED BY <2>3, <2>4
<1>5. ASSUME NEW e \in Drives, BeginBackfill(e)
      PROVE  InBackfill(d, f)'
  <2>1. job'.drive = e /\ floor' = floor /\ todo' = {g \in Files : loc[g] = e /\ age[g] = floor[e]}
    BY <1>5 DEF BeginBackfill, storeVars
  <2>2. CASE e = d
    <3>1. f \in todo' \/ age[f] > floor[d]
      BY <1>0, <1>5, <2>1, <2>2
    <3> QED BY <1>0, <2>1, <3>1 DEF InBackfill
  <2>3. CASE e # d
    BY <1>0, <2>1, <2>3 DEF InBackfill
  <2> QED BY <2>2, <2>3
<1>6. CASE EndBackfill
  <2>1. job.drive # d /\ job.drive \in Drives
    BY <1>6, JobInHand DEF EndBackfill
  <2>2. floor'[d] = floor[d] /\ job' = None
    BY <1>6, <2>1 DEF EndBackfill, TypeInv, TypeOK
  <2> QED BY <2>2 DEF InBackfill
<1>7. ASSUME NEW g \in Files, BackfillFile(g)
      PROVE  InBackfill(d, f)'
  <2>1. pc = "window" /\ job \in Job /\ job.file = None /\ ~job.row /\ job # None /\ None \notin Files
    BY <1>7, JobInHand DEF BackfillFile, JobPhases
  <2>2. job'.drive = job.drive /\ job'.file = g
    BY <1>7, <2>1 DEF BackfillFile, Job
  <2>3. todo \subseteq todo' \cup {g} /\ floor' = floor
    BY <1>7 DEF BackfillFile, storeVars
  <2> QED BY <2>1, <2>2, <2>3 DEF InBackfill
<1>8. CASE RemoveChunks \/ FinishRemove \/ FinishUpsert \/ JobFails \/ RecordMisses \/ Crash
  BY <1>1, <1>8 DEF RemoveChunks, FinishRemove, FinishUpsert, JobFails, RecordMisses, Crash, storeVars
<1>9. CASE UNCHANGED <<job, todo>> /\ floor' = floor
  BY <1>1, <1>9
<1> QED BY QuietSteps, BackfillEffect, <1>2, <1>3, <1>4, <1>5, <1>6, <1>7, <1>8, <1>9

-----------------------------------------------------------------------------
(* Covered.                                                                 *)

\* The steps that end a row.
LEMMA RowsEffect ==
  ASSUME [Next]_vars
  PROVE  \/ rows \subseteq rows'
         \/ (\E d \in Drives : ForgetDrive(d) \/ \E f \in Files : ListChange(d, f))
         \/ FinishRemove \/ FinishUpsert
BY FeedEffect DEF Bootstrap, Remote, Access, storeVars

\* The steps that take a drive off those that are purged, or a file off those
\* that are excused.
LEMMA ExcuseEffect ==
  ASSUME [Next]_vars, TypeInv, PurgeInv
  PROVE  \/ purging \subseteq purging' /\ excused \subseteq excused'
         \/ (\E d \in Drives : ForgetDrive(d) \/ ForgetFails(d)) \/ PresenceFails \/ Crash
         \/ Import \/ Extract
<1>1. CASE Remote \/ Access \/ (\E f \in Files : PeerPublishes(f)) \/ UNCHANGED vars
  BY <1>1 DEF Remote, Access, PeerPublishes, cycleVars, vars
<1>2. CASE ListDrives \/ EndDiscovery \/ SaveKnown
  BY <1>2 DEF ListDrives, EndDiscovery, SaveKnown
<1>3. CASE CountAbsences
  BY <1>3 DEF CountAbsences, PurgeInv
<1>4. CASE \E d \in Drives : PurgeDrive(d) \/ Bootstrap(d) \/ BeginBackfill(d)
  BY <1>4 DEF PurgeDrive, Bootstrap, BeginBackfill, cycleVars
<1>5. CASE \E f \in Files : BackfillFile(f) \/ \E d \in Drives : ListChange(d, f)
  BY <1>5 DEF BackfillFile, ListChange, cycleVars
<1>6. CASE RemoveChunks \/ FinishRemove \/ FinishUpsert \/ EndWork \/ JobFails
  BY <1>6 DEF RemoveChunks, FinishRemove, FinishUpsert, EndWork, JobFails
<1>7. CASE Collect \/ SkipFile \/ EndBackfill \/ RecordMisses \/ EndCycle
  BY <1>7 DEF Collect, SkipFile, EndBackfill, RecordMisses, EndCycle
<1>8. CASE (\E r \in rows : TakeRow(r)) \/ (\E p \in pending : PublishFile(p))
  BY <1>8 DEF TakeRow, PublishFile, cycleVars
<1> QED BY StepCases, <1>1, <1>2, <1>3, <1>4, <1>5, <1>6, <1>7, <1>8

\* A row is about to go only when its file was written or is due again.
LEMMA RecordStep ==
  ASSUME TypeInv, WorkInv, RowsInv, HashInv, CoverInv, [Next]_vars
  PROVE  RecordCovered'
<1> SUFFICES ASSUME pc' = "record" PROVE RecordCovered'
  BY DEF RecordCovered
<1>1. CASE Import \/ Extract
  <2>1. /\ pc = "extract" /\ AfterFile /\ job.drive \in Drives /\ job.file \in Files
        /\ UNCHANGED <<remoteVars, fed>>
    BY <1>1, WriteEffect DEF HashInv
  <2>2. job.row /\ job' = job
    BY <2>1 DEF AfterFile
  <2>3. ASSUME loc[job.file] \in fed
        PROVE  InStore(job.file)' \/ job.file \in changed[loc[job.file]] \/ job.file \in excused'
    <3>1. CASE loc[job.file] # job.drive
      BY <1>1, <3>1, WriteEffect DEF HashInv
    <3>2. CASE loc[job.file] = job.drive
      <4>1. ver[job.file] = job.hash \/ job.file \in changed[job.drive]
        BY <2>1, <2>3, <3>2 DEF WorkInv
      <4>2. ASSUME ver[job.file] = job.hash PROVE InStore(job.file)'
        <5> DEFINE v == chunks'[job.file].content.ver
        <5>1. ver[job.file] <= v /\ v <= ver[job.file]
          BY <1>1, <4>2, WriteEffect DEF HashInv
        <5>2. ver[job.file] \in Nat /\ v \in Nat
          <6>1. TypeInv'
            BY TypeInvStep
          <6>2. \A c \in Content : c.ver \in Nat
            BY DrivesAssumption DEF Content, Versions
          <6> QED BY <1>1, <2>1, <6>1, <6>2, WriteEffect, HashesAreNats
                  DEF HashInv, TypeInv, TypeOK, Chunks
        <5>3. v = ver[job.file]
          BY <5>1, <5>2
        <5> HIDE DEF v
        <5>4. chunks'[job.file] # None /\ chunks'[job.file].drive = job.drive
          BY <1>1, WriteEffect DEF HashInv
        <5> QED BY <2>1, <2>2, <3>2, <5>3, <5>4 DEF InStore, remoteVars, v
      <4> QED BY <3>2, <4>1, <4>2
    <3> QED BY <3>1, <3>2
  <2> QED BY <2>1, <2>2, <2>3 DEF RecordCovered, remoteVars
<1>2. CASE Remote \/ Access
  <2>1. UNCHANGED <<pc, job, chunks, fed, excused>>
    BY <1>2, RemoteEffect DEF storeVars, cycleVars
  <2>2. pc = "record" /\ job.file \in Files /\ fed \subseteq Drives
    BY <2>1, JobInHand DEF RowPhases, TypeInv, TypeOK
  <2>3. CASE ver'[job.file] # ver[job.file] \/ loc'[job.file] # loc[job.file]
    BY <1>2, <2>1, <2>2, <2>3, RemoteEffect DEF RecordCovered
  <2>4. CASE ver'[job.file] = ver[job.file] /\ loc'[job.file] = loc[job.file]
    BY <1>2, <2>1, <2>2, <2>4, RemoteEffect DEF RecordCovered, CoverInv, InStore
  <2> QED BY <2>3, <2>4
<1>3. CASE (\E f \in Files : PeerPublishes(f)) \/ UNCHANGED vars
  <2>1. UNCHANGED <<pc, job, loc, ver, fed, changed, chunks, excused>>
    BY <1>3 DEF PeerPublishes, storeVars, cycleVars, remoteVars, vars
  <2> QED BY <2>1 DEF CoverInv, RecordCovered, InStore
<1>4. CASE \/ ListDrives \/ EndDiscovery \/ CountAbsences \/ PresenceFails \/ SaveKnown \/ Crash
           \/ \E d \in Drives : Bootstrap(d) \/ \E f \in Files : ListChange(d, f)
  BY <1>4 DEF ListDrives, EndDiscovery, CountAbsences, PresenceFails, SaveKnown, ToWork, Bootstrap,
              ListChange, Crash, cycleVars
<1>5. CASE \/ \E d \in Drives : PurgeDrive(d) \/ ForgetDrive(d) \/ ForgetFails(d) \/ BeginBackfill(d)
           \/ \E f \in Files : BackfillFile(f)
  BY <1>5 DEF PurgeDrive, ForgetDrive, ForgetFails, Forgotten, BeginBackfill, BackfillFile, cycleVars
<1>6. CASE \/ RemoveChunks \/ FinishRemove \/ FinishUpsert \/ EndWork \/ JobFails
           \/ \E r \in rows : TakeRow(r)
  BY <1>6 DEF RemoveChunks, FinishRemove, FinishUpsert, EndWork, JobFails, TakeRow
<1>7. CASE \/ Collect \/ SkipFile \/ EndBackfill \/ RecordMisses \/ EndCycle
           \/ \E p \in pending : PublishFile(p)
  BY <1>7 DEF Collect, SkipFile, EndBackfill, RecordMisses, EndCycle, PublishFile, cycleVars
<1> QED BY StepCases, <1>1, <1>2, <1>3, <1>4, <1>5, <1>6, <1>7

\* A file stays covered.
LEMMA FileStep ==
  ASSUME TypeInv, PurgeInv, RowsInv, WorkInv, HashInv, CoverInv, [Next]_vars, NEW f \in Files
  PROVE  FileCovered(f)'
<1> SUFFICES ASSUME loc'[f] \in fed'
             PROVE  InStore(f)' \/ StillToCome(f)' \/ f \in excused'
  BY DEF FileCovered
<1>0. fed \subseteq Drives
  BY DEF TypeInv, TypeOK
<1>1. CASE Remote \/ Access
  <2>1. UNCHANGED <<storeVars, cycleVars, excused>> /\ loc'[f] \in fed
    BY <1>1, RemoteEffect DEF storeVars
  <2>2. CASE ver'[f] # ver[f] \/ loc'[f] # loc[f]
    <3>1. f \in changed'[loc'[f]]
      BY <1>1, <2>1, <2>2, RemoteEffect
    <3> QED BY <3>1 DEF StillToCome
  <2>3. CASE ver'[f] = ver[f] /\ loc'[f] = loc[f]
    <3>1. changed[loc[f]] \subseteq changed'[loc[f]]
      BY <1>0, <1>1, <2>1, <2>3, RemoteEffect
    <3>2. UNCHANGED <<chunks, fed, rows, floor, job, todo, purging, excused>>
      BY <2>1 DEF storeVars, cycleVars
    <3>3. age'[f] = age[f]
      BY <1>1, <2>3, RemoteEffect
    <3> QED BY <2>1, <2>3, <3>1, <3>2, <3>3
            DEF CoverInv, FileCovered, InStore, StillToCome, HasRow, InBackfill
  <2> QED BY <2>2, <2>3
<1>2. ASSUME NEW d \in Drives, Bootstrap(d)
      PROVE  InStore(f)' \/ StillToCome(f)' \/ f \in excused'
  <2>1. /\ UNCHANGED <<loc, ver, age, chunks, rows, floor, job, todo, purging>> /\ pc = "discover"
        /\ fed' = fed \cup {d} /\ excused' = excused \cup BetweenTheTwo(d)
        /\ \A e \in Drives \ {d} : changed'[e] = changed[e]
    BY <1>2 DEF Bootstrap, cycleVars, TypeInv, TypeOK
  <2>2. CASE loc[f] = d
    <3>1. job = None
      BY <2>1, JobInHand DEF JobPhases, RowPhases
    <3>2. age[f] \in Nat /\ floor[d] \in Nat
      BY AgesAreNats
    <3> QED BY <2>1, <2>2, <3>1, <3>2 DEF BetweenTheTwo, StillToCome, InBackfill, InStore
  <2>3. CASE loc[f] # d
    BY <1>0, <2>1, <2>3 DEF CoverInv, FileCovered, InStore, StillToCome, HasRow, InBackfill
  <2> QED BY <2>2, <2>3
<1>3. ASSUME NEW d \in Drives, NEW g \in Files, ListChange(d, g)
      PROVE  InStore(f)' \/ StillToCome(f)' \/ f \in excused'
  <2>1. /\ UNCHANGED <<loc, ver, age, chunks, fed, floor, job, todo, purging, excused>>
        /\ rows' = WithRow(d, g)
        /\ \A e \in Drives : changed'[e] = IF e = d THEN changed[d] \ {g} ELSE changed[e]
    BY <1>3 DEF ListChange, cycleVars, TypeInv, TypeOK
  <2>2. CASE loc[f] = d /\ f = g
    BY <2>1, <2>2 DEF StillToCome, HasRow, WithRow, Kind
  <2>3. CASE ~(loc[f] = d /\ f = g)
    <3>1. HasRow(loc[f], f, "upsert") => HasRow(loc[f], f, "upsert")'
      BY <2>1, <2>3 DEF HasRow, WithRow
    <3>2. f \in changed[loc[f]] => f \in changed'[loc[f]]
      BY <1>0, <2>1, <2>3
    <3> QED BY <2>1, <3>1, <3>2 DEF CoverInv, FileCovered, InStore, StillToCome, InBackfill
  <2> QED BY <2>2, <2>3
<1>4. ASSUME NEW d \in Drives, ForgetDrive(d)
      PROVE  InStore(f)' \/ StillToCome(f)' \/ f \in excused'
  <2>1. /\ UNCHANGED <<loc, ver, age, chunks, job, todo, excused>>
        /\ fed' = fed \ {d} /\ rows' = rows \ RowsOf(d) /\ purging' = purging \ {d}
        /\ \A e \in Drives \ {d} : changed'[e] = changed[e] /\ floor'[e] = floor[e]
    BY <1>4 DEF ForgetDrive, Forgotten, TypeInv, TypeOK
  <2>2. loc[f] \in fed /\ loc[f] # d
    BY <2>1
  <2>3. HasRow(loc[f], f, "upsert") => HasRow(loc[f], f, "upsert")'
    BY <2>1, <2>2 DEF HasRow, RowsOf
  <2> QED BY <1>0, <2>1, <2>2, <2>3 DEF CoverInv, FileCovered, InStore, StillToCome, InBackfill
<1>5. CASE UNCHANGED <<loc, ver, age, changed, fed>>
  <2>0. loc[f] \in fed /\ loc[f] \in Drives /\ FileCovered(f)
    BY <1>0, <1>5 DEF CoverInv
  <2>d. PICK d \in Drives : d = loc[f]
    BY <2>0
  <2>b. ASSUME InBackfill(d, f) => InBackfill(d, f)'
        PROVE  InBackfill(loc[f], f) => InBackfill(loc[f], f)'
    BY <1>5, <2>b, <2>d DEF InBackfill
  <2>1. CASE Import \/ Extract
    <3>1. /\ pc = "extract" /\ AfterFile /\ job.drive \in Drives /\ job.file \in Files
          /\ UNCHANGED <<rows, floor, purging>>
          /\ \A g \in Files \ {job.file} : chunks'[g] = chunks[g]
      BY <2>1, WriteEffect DEF HashInv
    <3>2. CASE f = job.file /\ loc[f] # job.drive
      BY <2>1, <3>2, WriteEffect DEF HashInv
    <3>3. CASE f = job.file /\ loc[f] = job.drive
      <4>1. ver[f] = job.hash \/ f \in changed[loc[f]]
        BY <2>0, <3>1, <3>3 DEF WorkInv
      <4>2. ASSUME ver[f] = job.hash PROVE InStore(f)'
        <5> DEFINE v == chunks'[f].content.ver
        <5>1. ver[f] <= v /\ v <= ver[f]
          BY <2>1, <3>3, <4>2, WriteEffect DEF HashInv
        <5>2. ver[f] \in Nat /\ v \in Nat
          <6>1. TypeInv'
            BY TypeInvStep
          <6>2. \A c \in Content : c.ver \in Nat
            BY DrivesAssumption DEF Content, Versions
          <6> QED BY <2>1, <3>3, <6>1, <6>2, WriteEffect, HashesAreNats
                  DEF HashInv, TypeInv, TypeOK, Chunks
        <5>3. v = ver[f]
          BY <5>1, <5>2
        <5> HIDE DEF v
        <5>4. chunks'[f] # None /\ chunks'[f].drive = loc[f]
          BY <2>1, <3>3, WriteEffect DEF HashInv
        <5> QED BY <1>5, <5>3, <5>4 DEF InStore, v
      <4> QED BY <1>5, <4>1, <4>2 DEF StillToCome
    <3>4. CASE f # job.file
      <4>1. InBackfill(loc[f], f) => InBackfill(loc[f], f)'
        <5>1. ~EndBackfill /\ ~BeginBackfill(d)
          BY <3>1 DEF EndBackfill, BeginBackfill
        <5> QED BY <1>5, <2>b, <2>d, <3>4, <5>1, BackfillKept
      <4>2. f \in excused => f \in excused'
        BY <2>1, <3>4, WriteEffect DEF HashInv
      <4> QED BY <1>5, <2>0, <3>1, <3>4, <4>1, <4>2
              DEF FileCovered, InStore, StillToCome, HasRow
    <3> QED BY <3>2, <3>3, <3>4
  <2>2. CASE RemoveChunks
    <3>1. /\ pc = "handle" /\ UNCHANGED <<rows, floor, job, todo, purging, excused>>
          /\ chunks' = [chunks EXCEPT ![job.file] = Dropped(job.file, job.drive)]
      BY <2>2 DEF RemoveChunks
    <3>2. job.file \in Files /\ HasRow(job.drive, job.file, "remove")
      BY <3>1, JobInHand DEF RowPhases, WorkInv
    <3>3. CASE f = job.file /\ loc[f] = job.drive
      <4>1. f \in changed[loc[f]]
        BY <3>2, <3>3 DEF HasRow, RowsInv
      <4> QED BY <1>5, <4>1 DEF StillToCome
    <3>4. CASE ~(f = job.file /\ loc[f] = job.drive)
      <4>1. InStore(f) => InStore(f)'
        BY <1>5, <3>1, <3>2, <3>4 DEF InStore, Dropped, Stamped, TypeInv, TypeOK
      <4>2. chunks[f] = None => chunks'[f] = None
        BY <3>1, <3>2 DEF Dropped, TypeInv, TypeOK
      <4> QED BY <1>5, <2>0, <3>1, <4>1, <4>2 DEF FileCovered, StillToCome, HasRow, InBackfill
    <3> QED BY <3>3, <3>4
  <2>3. ASSUME NEW e \in Drives, PurgeDrive(e)
        PROVE  InStore(f)' \/ StillToCome(f)' \/ f \in excused'
    <3>1. /\ e \in purging /\ UNCHANGED <<rows, floor, job, todo, purging, excused>>
          /\ chunks'[f] = IF f \in Stamped(e) THEN None ELSE chunks[f]
      BY <2>3 DEF PurgeDrive, cycleVars
    <3>2. CASE f \in Stamped(e) /\ loc[f] = e
      BY <1>5, <3>1, <3>2 DEF StillToCome
    <3>3. CASE ~(f \in Stamped(e) /\ loc[f] = e)
      BY <1>5, <2>0, <3>1, <3>3 DEF FileCovered, InStore, StillToCome, HasRow, InBackfill, Stamped
    <3> QED BY <3>2, <3>3
  <2>4. ASSUME chunks' = chunks,
               HasRow(loc[f], f, "upsert") =>
                 HasRow(loc[f], f, "upsert")' \/ InStore(f) \/ f \in changed[loc[f]] \/ f \in excused',
               f \in excused => f \in excused',
               loc[f] \in purging /\ chunks[f] = None => loc[f] \in purging' \/ f \in excused',
               InBackfill(loc[f], f) => InBackfill(loc[f], f)' \/ InStore(f) \/ f \in changed[loc[f]]
                                          \/ HasRow(loc[f], f, "upsert")' \/ f \in excused'
        PROVE  InStore(f)' \/ StillToCome(f)' \/ f \in excused'
    BY <1>5, <2>0, <2>4 DEF FileCovered, InStore, StillToCome
  <2>m. ASSUME NEW fs, f \in fs, excused' = excused \cup Unmet(fs, loc[f]), rows' = rows
        PROVE  InStore(f) \/ f \in changed[loc[f]] \/ HasRow(loc[f], f, "upsert")' \/ f \in excused'
    BY <1>5, <2>m DEF Unmet, HasRow
  <2>5. CASE EndBackfill
    <3>1. /\ pc = "window" /\ UNCHANGED <<rows, chunks, purging>> /\ excused \subseteq excused'
          /\ job' = None
      BY <2>5 DEF EndBackfill
    <3>2. ~job.row /\ job.file = None /\ job # None /\ None \notin Files
      BY <3>1, JobInHand DEF JobPhases
    <3>3. CASE loc[f] = job.drive
      <4>0. age[f] \in Nat /\ floor[loc[f]] \in Nat
        BY <2>d, AgesAreNats
      <4>1. ASSUME InBackfill(loc[f], f)
            PROVE  \/ InBackfill(loc[f], f)' \/ InStore(f) \/ f \in changed[loc[f]]
                   \/ HasRow(loc[f], f, "upsert")' \/ f \in excused'
        <5>1. f \in todo \/ age[f] > floor[loc[f]]
          BY <3>2, <3>3, <4>1 DEF InBackfill
        <5>2. CASE /\ floor' = [floor EXCEPT ![job.drive] = @ + 1]
                   /\ excused' = excused \cup Unmet(todo, job.drive)
          <6>1. CASE f \in todo
            BY <2>m, <3>1, <3>3, <5>2, <6>1
          <6>2. CASE age[f] > floor[loc[f]]
            <7>1. floor'[loc[f]] = floor[loc[f]] + 1
              BY <2>d, <3>3, <5>2 DEF TypeInv, TypeOK
            <7>2. age'[f] >= floor'[loc'[f]]
              BY <1>5, <4>0, <6>2, <7>1
            <7> QED BY <1>5, <3>1, <7>2 DEF InBackfill
          <6> QED BY <5>1, <6>1, <6>2
        <5>3. CASE /\ todo = {}
                   /\ excused' = excused \cup
                        Unmet({g \in Files : age[g] > floor[job.drive]}, job.drive)
          <6>1. f \in {g \in Files : age[g] > floor[job.drive]}
            BY <3>3, <5>1, <5>3
          <6> QED BY <2>m, <3>1, <3>3, <5>3, <6>1
        <5> QED BY <2>5, <5>2, <5>3 DEF EndBackfill
      <4> QED BY <1>5, <2>4, <3>1, <4>1 DEF HasRow
    <3>4. CASE loc[f] # job.drive
      <4>1. ~Import /\ ~Extract /\ ~SkipFile /\ ~BeginBackfill(d)
        BY <3>1 DEF Import, Extract, SkipFile, BeginBackfill
      <4>2. InBackfill(loc[f], f) => InBackfill(loc[f], f)'
        BY <1>5, <2>b, <2>d, <3>4, <4>1, BackfillKept
      <4> QED BY <1>5, <2>4, <3>1, <4>2 DEF HasRow
    <3> QED BY <3>3, <3>4
  <2>7. CASE SkipFile
    <3>1. /\ pc = "extract" /\ UNCHANGED <<rows, chunks, purging>>
          /\ excused' = excused \cup Unmet({job.file}, job.drive)
      BY <2>7 DEF SkipFile, storeVars
    <3>2. CASE f = job.file /\ loc[f] = job.drive
      <4>1. InStore(f) \/ f \in changed[loc[f]] \/ HasRow(loc[f], f, "upsert")' \/ f \in excused'
        BY <2>m, <3>1, <3>2
      <4> QED BY <1>5, <2>4, <3>1, <4>1 DEF HasRow
    <3>3. CASE ~(f = job.file /\ loc[f] = job.drive)
      <4>1. ~EndBackfill /\ ~BeginBackfill(d)
        BY <3>1 DEF EndBackfill, BeginBackfill
      <4>2. InBackfill(loc[f], f) => InBackfill(loc[f], f)'
        BY <1>5, <2>b, <2>d, <3>3, <4>1, BackfillKept
      <4> QED BY <1>5, <2>4, <3>1, <4>2 DEF HasRow
    <3> QED BY <3>2, <3>3
  <2>6. CASE chunks' = chunks /\ ~EndBackfill /\ ~Import /\ ~Extract /\ ~SkipFile
    <3>1. InBackfill(loc[f], f) => InBackfill(loc[f], f)'
      BY <1>5, <2>b, <2>d, <2>6, BackfillKept
    <3>2. CASE FinishRemove
      <4>1. /\ pc = "removed" /\ rows' = Done(job.drive, job.file) /\ UNCHANGED <<purging, excused>>
        BY <3>2 DEF FinishRemove
      <4>2. HasRow(job.drive, job.file, "remove")
        BY <4>1 DEF WorkInv
      <4>3. ~HasRow(job.drive, job.file, "upsert")
        BY <4>2 DEF HasRow, TypeInv, TypeOK
      <4>4. HasRow(loc[f], f, "upsert") => HasRow(loc[f], f, "upsert")'
        BY <1>5, <4>1, <4>3 DEF HasRow, Done
      <4> QED BY <2>4, <2>6, <3>1, <4>1, <4>4
    <3>3. CASE FinishUpsert
      <4>1. /\ pc = "record" /\ rows' = Done(job.drive, job.file) /\ UNCHANGED <<purging, excused>>
        BY <3>3 DEF FinishUpsert
      <4>2. f = job.file => InStore(f) \/ f \in changed[loc[f]] \/ f \in excused
        BY <2>0, <4>1 DEF CoverInv, RecordCovered
      <4>3. f # job.file => (HasRow(loc[f], f, "upsert") => HasRow(loc[f], f, "upsert")')
        BY <1>5, <4>1 DEF HasRow, Done
      <4> QED BY <2>4, <2>6, <3>1, <4>1, <4>2, <4>3
    <3>4. CASE PresenceFails \/ Crash
      <4>1. rows' = rows /\ excused' = excused \cup LostBy(purging)
        BY <3>4 DEF PresenceFails, Crash, storeVars
      <4> QED BY <1>5, <2>4, <2>6, <3>1, <4>1 DEF HasRow, LostBy
    <3>5. ASSUME NEW e \in Drives, ForgetFails(e)
          PROVE  InStore(f)' \/ StillToCome(f)' \/ f \in excused'
      <4>1. rows' = rows /\ excused' = excused \cup LostBy({e}) /\ purging' = purging \ {e}
        BY <3>5 DEF ForgetFails, Forgotten, storeVars
      <4> QED BY <1>5, <2>4, <2>6, <3>1, <4>1 DEF HasRow, LostBy
    <3>6. CASE rows \subseteq rows' /\ purging \subseteq purging' /\ excused \subseteq excused'
      BY <1>5, <2>4, <2>6, <3>1, <3>6 DEF HasRow
    <3> QED BY <1>3, <1>4, <2>6, <3>2, <3>3, <3>4, <3>5, <3>6, RowsEffect, ExcuseEffect
  <2> QED BY <2>1, <2>2, <2>3, <2>5, <2>6, <2>7, StoreEffect DEF EndBackfill, SkipFile, storeVars
<1> QED BY <1>1, <1>2, <1>3, <1>4, <1>5, FeedEffect

-----------------------------------------------------------------------------
(* NothingLingers.                                                          *)

\* Chunks of a file that has left its drive stay on their way out.
LEMMA LingerStep ==
  ASSUME TypeInv, RowsInv, WorkInv, HashInv, LingerInv, PurgeInv, [Next]_vars
  PROVE  LingerInv'
<1> SUFFICES ASSUME NEW f \in Files, NEW d \in fed', f \in Stamped(d)', loc'[f] # d
             PROVE  f \in changed'[d] \/ HasRow(d, f, "remove")' \/ f \in excused'
  BY DEF LingerInv
<1>0. fed \subseteq Drives
  BY DEF TypeInv, TypeOK
<1>1. CASE Remote \/ Access
  <2>1. UNCHANGED <<chunks, fed, rows, excused>> /\ d \in fed /\ d \in Drives
    BY <1>0, <1>1, RemoteEffect DEF storeVars
  <2>2. CASE loc[f] = d
    BY <1>1, <2>1, <2>2, RemoteEffect
  <2>3. CASE loc[f] # d
    <3>1. f \in changed[d] \/ HasRow(d, f, "remove") \/ f \in excused
      BY <2>1, <2>3 DEF LingerInv, Stamped
    <3> QED BY <1>1, <2>1, <3>1, RemoteEffect DEF HasRow
  <2> QED BY <2>2, <2>3
<1>2. ASSUME NEW e \in Drives, Bootstrap(e)
      PROVE  f \in changed'[d] \/ HasRow(d, f, "remove")' \/ f \in excused'
  <2>1. /\ UNCHANGED <<loc, chunks, rows>> /\ e \notin fed
        /\ fed' = fed \cup {e} /\ excused' = excused \cup BetweenTheTwo(e)
        /\ \A x \in Drives \ {e} : changed'[x] = changed[x]
    BY <1>2 DEF Bootstrap, TypeInv, TypeOK
  <2>2. CASE d = e
    <3>1. f \in Stamped(e)
      BY <2>1, <2>2 DEF Stamped
    <3> QED BY <2>1, <2>2, <3>1 DEF BetweenTheTwo
  <2>3. CASE d # e
    BY <1>0, <2>1, <2>3 DEF LingerInv, Stamped, HasRow
  <2> QED BY <2>2, <2>3
<1>3. ASSUME NEW e \in Drives, NEW g \in Files, ListChange(e, g)
      PROVE  f \in changed'[d] \/ HasRow(d, f, "remove")' \/ f \in excused'
  <2>1. /\ UNCHANGED <<loc, chunks, fed, excused>> /\ rows' = WithRow(e, g)
        /\ \A x \in Drives : changed'[x] = IF x = e THEN changed[e] \ {g} ELSE changed[x]
    BY <1>3 DEF ListChange, TypeInv, TypeOK
  <2>2. f \in changed[d] \/ HasRow(d, f, "remove") \/ f \in excused
    BY <2>1 DEF LingerInv, Stamped
  <2>3. CASE d = e /\ f = g
    BY <2>1, <2>3 DEF HasRow, WithRow, Kind
  <2>4. CASE ~(d = e /\ f = g)
    <3>1. HasRow(d, f, "remove") => HasRow(d, f, "remove")'
      BY <2>1, <2>4 DEF HasRow, WithRow
    <3> QED BY <1>0, <2>1, <2>2, <2>4, <3>1
  <2> QED BY <2>3, <2>4
<1>4. ASSUME NEW e \in Drives, ForgetDrive(e)
      PROVE  f \in changed'[d] \/ HasRow(d, f, "remove")' \/ f \in excused'
  <2>1. /\ UNCHANGED <<loc, chunks, excused>>
        /\ fed' = fed \ {e} /\ rows' = rows \ RowsOf(e)
        /\ \A x \in Drives \ {e} : changed'[x] = changed[x]
    BY <1>4 DEF ForgetDrive, TypeInv, TypeOK
  <2>2. d \in fed /\ d # e /\ (f \in changed[d] \/ HasRow(d, f, "remove") \/ f \in excused)
    BY <2>1 DEF LingerInv, Stamped
  <2> QED BY <1>0, <2>1, <2>2 DEF HasRow, RowsOf
<1>5. CASE UNCHANGED <<loc, changed, fed>>
  <2>1. CASE Import \/ Extract
    <3>1. UNCHANGED rows /\ job.file \in Files /\ chunks'[job.file].drive = job.drive
      BY <2>1, WriteEffect DEF HashInv
    <3>2. CASE f = job.file
      BY <1>5, <2>1, <3>1, <3>2, WriteEffect DEF HashInv, Stamped
    <3>3. CASE f # job.file
      <4>1. chunks'[f] = chunks[f] /\ (f \in excused => f \in excused')
        BY <2>1, <3>3, WriteEffect DEF HashInv
      <4> QED BY <1>5, <3>1, <4>1 DEF LingerInv, Stamped, HasRow
    <3> QED BY <3>2, <3>3
  <2>2. ASSUME Stamped(d)' \subseteq Stamped(d),
               HasRow(d, f, "remove") => HasRow(d, f, "remove")', excused \subseteq excused'
        PROVE  f \in changed'[d] \/ HasRow(d, f, "remove")' \/ f \in excused'
    BY <1>5, <2>2 DEF LingerInv
  <2>3. CASE RemoveChunks
    <3>1. Stamped(d)' \subseteq Stamped(d)
      BY <2>3 DEF RemoveChunks, Dropped, Stamped, TypeInv, TypeOK
    <3> QED BY <2>2, <2>3, <3>1 DEF RemoveChunks, HasRow
  <2>4. CASE \E e \in Drives : PurgeDrive(e)
    <3>1. Stamped(d)' \subseteq Stamped(d)
      BY <2>4 DEF PurgeDrive, Stamped
    <3> QED BY <2>2, <2>4, <3>1 DEF PurgeDrive, HasRow
  <2>5. CASE chunks' = chunks /\ ~Import /\ ~Extract
    <3>1. Stamped(d)' = Stamped(d)
      BY <2>5 DEF Stamped
    <3>2. CASE FinishRemove
      <4>1. pc = "removed" /\ rows' = Done(job.drive, job.file) /\ excused' = excused
        BY <3>2 DEF FinishRemove
      <4>2. job.file \notin Stamped(job.drive)
        BY <4>1 DEF WorkInv
      <4>3. HasRow(d, f, "remove") => HasRow(d, f, "remove")'
        BY <3>1, <4>1, <4>2 DEF HasRow, Done
      <4> QED BY <2>2, <3>1, <4>1, <4>3
    <3>3. CASE FinishUpsert
      <4>1. pc = "record" /\ rows' = Done(job.drive, job.file) /\ excused' = excused
        BY <3>3 DEF FinishUpsert
      <4>2. HasRow(job.drive, job.file, "upsert")
        BY <4>1 DEF WorkInv
      <4>3. ~HasRow(job.drive, job.file, "remove")
        BY <4>2 DEF HasRow, TypeInv, TypeOK
      <4>4. HasRow(d, f, "remove") => HasRow(d, f, "remove")'
        BY <4>1, <4>3 DEF HasRow, Done
      <4> QED BY <2>2, <3>1, <4>1, <4>4
    <3>4. CASE PresenceFails \/ Crash \/ \E e \in Drives : ForgetFails(e)
      <4>1. rows' = rows /\ excused \subseteq excused'
        BY <3>4 DEF PresenceFails, Crash, ForgetFails, storeVars
      <4> QED BY <2>2, <3>1, <4>1 DEF HasRow
    <3>5. CASE rows \subseteq rows' /\ excused \subseteq excused'
      BY <2>2, <3>1, <3>5 DEF HasRow
    <3> QED BY <1>3, <1>4, <2>5, <3>2, <3>3, <3>4, <3>5, RowsEffect, ExcuseEffect
  <2> QED BY <2>1, <2>3, <2>4, <2>5, StoreEffect
<1> QED BY <1>1, <1>2, <1>3, <1>4, <1>5, FeedEffect

-----------------------------------------------------------------------------
(* The theorems.                                                            *)

\* The inductive invariant.
DrivesInv == /\ TypeInv /\ PurgeInv /\ RowsInv /\ WorkInv /\ HashInv
             /\ CoverInv /\ LingerInv

\* It holds at the start.
LEMMA DrivesInit == Init => DrivesInv
<1> SUFFICES ASSUME Init PROVE DrivesInv
  OBVIOUS
<1>0. /\ MaxEvents \in Nat /\ 1 \in Versions /\ 0 \in 0..MaxEvents /\ 0 \in 0..MaxAccess
      /\ 0 \in 0..MaxFaults /\ 0 \in 0..Threshold /\ 0 \in 0..(Oldest + 1)
  BY DrivesAssumption DEF Versions
<1>1. TypeOK
  <2>1. loc \in [Files -> Drives \cup {None}] /\ ver \in [Files -> Versions]
    BY <1>0 DEF Init
  <2> QED BY <1>0, <2>1 DEF Init, TypeOK, Phases
<1>2. VersionBound /\ JobInv /\ WalkInv /\ MissInv
  BY <1>0 DEF Init, VersionBound, JobInv, JobPhases, RowPhases, WalkInv, MissInv
<1>3. PurgeInv /\ RowsInv /\ WorkInv /\ LingerInv
  BY DEF Init, PurgeInv, RowsInv, WorkInv, Stamped, LingerInv
<1>4. HashInv
  BY DEF Init, HashInv, ArtifactHash, PendingHash, StoreHash, JobHash
<1>5. CoverInv
  BY DEF Init, CoverInv, RecordCovered, FileCovered
<1> QED BY <1>1, <1>2, <1>3, <1>4, <1>5 DEF DrivesInv, TypeInv

\* Every step keeps it.
LEMMA DrivesStep ==
  ASSUME DrivesInv, [Next]_vars
  PROVE  DrivesInv'
<1>1. TypeInv' /\ PurgeInv' /\ RowsInv' /\ WorkInv' /\ HashInv' /\ LingerInv'
  BY TypeInvStep, PurgeStep, RowsStep, WorkStep, HashStep, LingerStep DEF DrivesInv
<1>2. RecordCovered'
  BY RecordStep DEF DrivesInv
<1>3. \A f \in Files : FileCovered(f)'
  BY FileStep DEF DrivesInv
<1> QED BY <1>1, <1>2, <1>3 DEF DrivesInv, CoverInv

\* It is an invariant.
LEMMA DrivesInvariant == Spec => []DrivesInv
BY DrivesInit, DrivesStep, PTL DEF Spec

\* The variables keep their types.
THEOREM DrivesTypes == Spec => []TypeOK
<1>1. DrivesInv => TypeOK
  BY DEF DrivesInv, TypeInv
<1> QED BY DrivesInvariant, <1>1, PTL

\* A file of a drive that is synced is in the store as it is, or its change is
\* still ahead of the cursor, queued or to be met by the backfill, unless it was
\* passed at a window's cap, skipped, older than the last empty window, changed
\* before the first listing, of a drive purged with its cursor kept, or extracted
\* for a drive it had left: discover_shared_drive, handle_shared_drive_item,
\* purge_drive_sync_state, _shared_drive_backfill_step.
THEOREM FilesStayCovered == Spec => []Covered
<1>1. DrivesInv => Covered
  BY DEF DrivesInv, CoverInv, FileCovered, Covered, StillToCome, ToCome
<1> QED BY DrivesInvariant, <1>1, PTL

\* Chunks under a drive that their file has left are on their way out:
\* discover_shared_drive, _drop_file_chunks.
THEOREM LeftFilesGo == Spec => []NothingLingers
<1>1. DrivesInv => NothingLingers
  BY DEF DrivesInv, LingerInv, NothingLingers
<1> QED BY DrivesInvariant, <1>1, PTL
=============================================================================
