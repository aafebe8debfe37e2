------------------------ MODULE DriveResumableProofs ------------------------
(***************************************************************************)
(* Theorems about DriveResumable, for a file of any size and any number of *)
(* faults, sessions and mismatches: what the run drive_resumable checks of *)
(* a file of three quanta.                                                 *)
(***************************************************************************)
EXTENDS DriveResumable, SequenceTheorems, TLAPS

(* What a running step knows is what the journal has; a session that is to *)
(* be replaced is one Drive has forgotten; and a step that runs has        *)
(* checked the file.                                                       *)
Running == pc \in {"loop", "confirm"}

StepInv ==
  /\ Running /\ session # None => journal = session
  /\ pc = "confirm" => session # None
  /\ pc = "loop" /\ session = None /\ journal # None => journal.uri \in forgotten
  /\ Running => local = Captured \/ freshRot
  /\ pc = "sent" => /\ journal # None
                    /\ sessions[journal.uri] = local
                    /\ local = Captured \/ freshRot

Inv == TypeOK /\ StepInv /\ OffsetIsDrives /\ NoStrayFile

---------------------------------------------------------------------------
(* What is sent, and what Drive has of it.                                 *)

\* A part of the local file is a sequence of its bytes.
LEMMA DataType ==
  ASSUME TypeOK, NEW o \in Nat, NEW k \in Nat, o + k <= Size
  PROVE  DataAt(o, k) \in Seq(Content)
<1>1. \A i \in o + 1 .. o + k : local[i] \in Content
  BY ResumableAssumption DEF TypeOK, Content
<1> QED BY <1>1, SubSeqProperties DEF DataAt

\* Storing what a chunk carries changes one session at most, and opens none.
LEMMA StoresType ==
  ASSUME TypeOK, session # None, NEW data \in Seq(Content), Stores(data)
  PROVE  /\ sessions' \in Seq(Seq(Content))
         /\ Len(sessions') = Len(sessions)
         /\ \A u \in Uris : u # session.uri => sessions'[u] = sessions[u]
<1>1. CASE session.uri \in forgotten
  BY <1>1 DEF Stores, TypeOK
<1>2. CASE session.uri \notin forgotten
  <2> DEFINE t == Taken(session.uri, session.offset, data)
  <2>1. session.uri \in 1..Len(sessions) /\ session.offset \in Nat
    BY DEF TypeOK, Session
  <2>2. sessions[session.uri] \in Seq(Content)
    BY <2>1 DEF TypeOK
  <2>3. \A i \in 1..session.offset + Len(data) :
          (IF i > session.offset THEN data[i - session.offset]
           ELSE IF i <= Len(sessions[session.uri]) THEN sessions[session.uri][i]
           ELSE "hole") \in Content
    BY <2>1, <2>2 DEF Content
  <2>4. t \in [1..session.offset + Len(data) -> Content]
    BY <2>3 DEF Taken
  <2>5. session.offset + Len(data) \in Nat
    BY <2>1
  <2>6. t \in Seq(Content)
    BY <2>4, <2>5
  <2> HIDE DEF t
  <2>7. sessions' = [sessions EXCEPT ![session.uri] = t]
    BY <1>2 DEF Stores, t
  <2> QED BY <2>1, <2>6, <2>7 DEF TypeOK
<1> QED BY <1>1, <1>2

---------------------------------------------------------------------------
(* The steps.                                                              *)

\* A state of no step: only the journal, the file and Drive matter.
LEMMA EndedInv ==
  ASSUME Inv, Running, Ended, TypeOK', NoStrayFile'
  PROVE  Inv'
BY DEF Inv, StepInv, Running, Ended, OffsetIsDrives, Sending

\* A request that failed is followed by a question or by nothing.
LEMMA RetriedInv ==
  ASSUME Inv, pc = "loop", Retried, TypeOK', NoStrayFile',
         UNCHANGED <<local, forgotten, journal, freshRot>>
  PROVE  Inv'
<1>1. StepInv'
  BY DEF Inv, StepInv, Running, Retried
<1>2. ~Sending'
  BY DEF Retried, Sending
<1> QED BY <1>1, <1>2 DEF Inv, OffsetIsDrives

\* Drive's sessions but for the one in use are as they were, so a new file
\* can only be the one the journal names.
LEMMA NoStrayStep ==
  ASSUME Inv, Running, session # None,
         sessions' \in Seq(Seq(Content)), Len(sessions') = Len(sessions),
         \A u \in Uris : u # session.uri => sessions'[u] = sessions[u],
         journal' # None, journal'.uri = session.uri,
         UNCHANGED <<forgotten, trashed>>
  PROVE  NoStrayFile'
<1>1. Uris' = Uris
  BY DEF Inv, TypeOK, Uris
<1>2. \A u \in Uris : u # session.uri /\ IsFile(u)' => u \in trashed \cup forgotten
  BY DEF Inv, StepInv, NoStrayFile, IsFile, Running
<1> QED BY <1>1, <1>2 DEF NoStrayFile

\* After an answer the offset is Drive's, and journal and step agree on it.
LEMMA AnsweredInv ==
  ASSUME Inv, pc = "loop", session # None, Answered(session.uri),
         sessions' \in Seq(Seq(Content)), Len(sessions') = Len(sessions),
         \A u \in Uris : u # session.uri => sessions'[u] = sessions[u],
         UNCHANGED <<local, forgotten, trashed, mismatches, freshRot>>,
         faults' \in 0..MaxFaults
  PROVE  Inv'
<1>1. session \in Session /\ session.uri \in 1..Len(sessions) /\ journal = session
  BY DEF Inv, TypeOK, StepInv, Running, Session
<1>2. Session' = Session /\ DOMAIN sessions' = DOMAIN sessions
  BY DEF Inv, TypeOK, Session
<1>3. CASE session.uri \in forgotten
  <2>1. session' = None /\ ask' = FALSE /\ journal' = journal /\ pc' = pc
    BY <1>3 DEF Answered, StartOver
  <2>2. TypeOK'
    BY <2>1, <1>2 DEF Inv, TypeOK
  <2>3. StepInv' /\ OffsetIsDrives'
    BY <2>1, <1>1, <1>3 DEF Inv, StepInv, Running, OffsetIsDrives, Sending
  <2>4. NoStrayFile'
    BY <2>1, <1>1, NoStrayStep DEF Running
  <2> QED BY <2>2, <2>3, <2>4 DEF Inv
<1>4. CASE session.uri \notin forgotten /\ Len(sessions'[session.uri]) = Size
  <2>1. pc' = "confirm" /\ journal' = journal /\ session' = session /\ ask' = ask
    BY <1>4 DEF Answered
  <2>2. TypeOK'
    BY <2>1, <1>2 DEF Inv, TypeOK
  <2>3. StepInv' /\ OffsetIsDrives'
    BY <2>1, <1>1 DEF Inv, StepInv, Running, OffsetIsDrives, Sending
  <2>4. NoStrayFile'
    BY <2>1, <1>1, NoStrayStep DEF Running
  <2> QED BY <2>2, <2>3, <2>4 DEF Inv
<1>5. CASE session.uri \notin forgotten /\ Len(sessions'[session.uri]) # Size
  <2> DEFINE s == At(session.uri, Len(sessions'[session.uri]))
  <2>1. session' = s /\ journal' = s /\ ask' = FALSE /\ pc' = pc
    BY <1>5 DEF Answered
  <2>2. Len(sessions'[session.uri]) \in Nat
    BY <1>1
  <2>3. s \in Session /\ s.uri = session.uri /\ s.offset = Len(sessions'[session.uri])
    BY <2>2, <1>1 DEF At, Session
  <2>4. s # None
    BY <2>3, <1>1, <2>2, ResumableAssumption DEF At
  <2> HIDE DEF s
  <2>5. TypeOK'
    BY <2>1, <2>3, <1>2 DEF Inv, TypeOK
  <2>6. StepInv' /\ OffsetIsDrives'
    BY <2>1, <2>3, <2>4, <1>1 DEF Inv, StepInv, Running, OffsetIsDrives, Sending
  <2>7. NoStrayFile'
    BY <2>1, <2>3, <2>4, <1>1, NoStrayStep DEF Running
  <2> QED BY <2>5, <2>6, <2>7 DEF Inv
<1> QED BY <1>3, <1>4, <1>5

---------------------------------------------------------------------------
(* The invariant.                                                          *)

LEMMA InitInv == Init => Inv
<1> SUFFICES ASSUME Init PROVE Inv
  OBVIOUS
<1>1. TypeOK
  <2>1. <<>> \in Seq(Seq(Content)) /\ DOMAIN sessions = {}
    BY DEF Init
  <2>2. local \in [1..Size -> {"good", "rot"}]
    BY DEF Init, Captured
  <2>3. 0 \in 0..MaxMismatches /\ 0 \in 0..MaxFaults
    BY ResumableAssumption
  <2> QED BY <2>1, <2>2, <2>3 DEF Init, TypeOK
<1>2. StepInv /\ OffsetIsDrives /\ NoStrayFile
  BY DEF Init, StepInv, OffsetIsDrives, NoStrayFile, Running, Sending, Uris
<1> QED BY <1>1, <1>2 DEF Inv

\* A fault is one more of at most MaxFaults.
LEMMA FaultType ==
  ASSUME TypeOK, Fault
  PROVE  faults' \in 0..MaxFaults
BY ResumableAssumption DEF TypeOK, Fault

\* The count of mismatches stays below its limit.
LEMMA CountedType ==
  ASSUME TypeOK, Counted
  PROVE  mismatches' \in 0..MaxMismatches /\ pc' \in {"idle", "discarded"}
BY ResumableAssumption DEF TypeOK, Counted

LEMMA NextInv == Inv /\ [Next]_vars => Inv'
<1> SUFFICES ASSUME Inv, [Next]_vars PROVE Inv'
  OBVIOUS
<1> USE DEF Inv
<1>1. CASE Start
  <2>1. TypeOK'
    BY <1>1 DEF Start, TypeOK, Session, driveVars, diskVars
  <2>2. StepInv' /\ OffsetIsDrives'
    BY <1>1 DEF Start, StepInv, Running, OffsetIsDrives, Sending, driveVars, diskVars
  <2>3. NoStrayFile'
    BY <1>1 DEF Start, NoStrayFile, IsFile, Uris, driveVars, diskVars
  <2> QED BY <2>1, <2>2, <2>3
<1>2. CASE DiscardRotten
  <2>1. TypeOK'
    BY <1>2, ResumableAssumption DEF DiscardRotten, TypeOK, Session, driveVars
  <2>2. StepInv' /\ OffsetIsDrives' /\ NoStrayFile'
    BY <1>2 DEF DiscardRotten, StepInv, Running, OffsetIsDrives, Sending, NoStrayFile
  <2> QED BY <2>1, <2>2
<1>3. CASE Deadline
  <2>1. TypeOK'
    BY <1>3 DEF Deadline, TypeOK, Session, driveVars, diskVars
  <2>2. NoStrayFile'
    BY <1>3 DEF Deadline, NoStrayFile, IsFile, Uris, driveVars, diskVars
  <2> QED BY <1>3, <2>1, <2>2, EndedInv DEF Deadline, Ended, Running
<1>4. CASE RequestFails
  <2>1. faults' \in 0..MaxFaults
    BY <1>4, FaultType DEF RequestFails
  <2>2. TypeOK'
    BY <1>4, <2>1 DEF RequestFails, Retried, Ended, TypeOK, Session, driveVars, diskVars
  <2>3. NoStrayFile'
    BY <1>4 DEF RequestFails, Retried, Ended, NoStrayFile, IsFile, Uris, driveVars, diskVars
  <2>4. CASE Retried
    BY <1>4, <2>2, <2>3, <2>4, RetriedInv DEF RequestFails, driveVars, diskVars
  <2>5. CASE Ended
    BY <1>4, <2>2, <2>3, <2>5, EndedInv DEF RequestFails, Running
  <2> QED BY <1>4, <2>4, <2>5 DEF RequestFails
<1>5. CASE Initiate
  <2> DEFINE n == Len(sessions) + 1
  <2>1. n \in Nat \ {0} /\ n \notin DOMAIN sessions
    BY DEF TypeOK
  <2>2. /\ sessions' \in Seq(Seq(Content)) /\ DOMAIN sessions' = DOMAIN sessions \cup {n}
        /\ Len(sessions') = n /\ sessions'[n] = <<>>
        /\ \A u \in DOMAIN sessions : sessions'[u] = sessions[u]
    BY <1>5 DEF Initiate, TypeOK
  <2>3. /\ session' = At(n, 0) /\ journal' = At(n, 0) /\ At(n, 0).uri = n
        /\ At(n, 0).offset = 0 /\ At(n, 0) \in Session'
    BY <1>5, <2>1, <2>2 DEF Initiate, At, Session
  <2>4. At(n, 0) # None
    BY <2>1, ResumableAssumption DEF At
  <2> HIDE DEF n
  <2>5. TypeOK'
    BY <1>5, <2>2, <2>3 DEF Initiate, TypeOK
  <2>6. StepInv' /\ OffsetIsDrives'
    BY <1>5, <2>2, <2>3, <2>4 DEF Initiate, StepInv, Running, OffsetIsDrives, Sending
  <2>7. \A u \in Uris' : IsFile(u)' => u \in trashed' \cup forgotten'
    <3>1. Len(sessions'[n]) # Size
      BY <2>2, ResumableAssumption
    <3>2. \A u \in DOMAIN sessions : Len(sessions[u]) = Size => u \in trashed \cup forgotten
      BY <1>5 DEF Initiate, NoStrayFile, IsFile, Uris, StepInv
    <3> QED BY <1>5, <2>2, <3>1, <3>2 DEF Initiate, IsFile, Uris
  <2>8. NoStrayFile'
    BY <2>7 DEF NoStrayFile
  <2> QED BY <2>5, <2>6, <2>8
<1>6. CASE Query
  BY <1>6, AnsweredInv DEF Query, TypeOK
<1>7. CASE SendChunk
  <2>1. PICK k \in Chunk : Stores(DataAt(session.offset, k))
    BY <1>7 DEF SendChunk
  <2>2. pc = "loop" /\ session # None
    BY <1>7 DEF SendChunk, Sending
  <2>3. DataAt(session.offset, k) \in Seq(Content)
    BY <2>2, DataType, ResumableAssumption DEF TypeOK, Session, Chunk
  <2> QED BY <1>7, <2>1, <2>2, <2>3, StoresType, AnsweredInv DEF SendChunk, TypeOK
<1>8. CASE SendChunkBadly
  <2>1. faults' \in 0..MaxFaults
    BY <1>8, FaultType DEF SendChunkBadly
  <2>2. pc = "loop" /\ session # None
    BY <1>8 DEF SendChunkBadly, Sending
  <2>3. \E data \in Seq(Content) : Stores(data)
    <3>1. PICK n \in Chunk : \/ \E k \in 0..n - 1 : Stores(DataAt(session.offset, k))
                             \/ Stores([i \in 1..n |-> "garbled"])
      BY <1>8 DEF SendChunkBadly
    <3>2. session.offset \in Nat /\ Size \in Nat /\ n \in Nat /\ session.offset + n <= Size
      BY <2>2, ResumableAssumption DEF TypeOK, Session, Chunk
    <3>3. \A k \in 0..n - 1 : DataAt(session.offset, k) \in Seq(Content)
      BY <3>2, DataType
    <3>4. [i \in 1..n |-> "garbled"] \in Seq(Content)
      BY <3>2 DEF Content
    <3> QED BY <3>1, <3>3, <3>4
  <2> QED BY <1>8, <2>1, <2>2, <2>3, StoresType, AnsweredInv DEF SendChunkBadly, TypeOK
<1>9. CASE LoseAnswer
  <2>1. faults' \in 0..MaxFaults
    BY <1>9, FaultType DEF LoseAnswer
  <2>2. PICK k \in Chunk : Stores(DataAt(session.offset, k))
    BY <1>9 DEF LoseAnswer
  <2>3. pc = "loop" /\ session # None
    BY <1>9 DEF LoseAnswer, Sending
  <2>4. DataAt(session.offset, k) \in Seq(Content)
    BY <2>3, DataType, ResumableAssumption DEF TypeOK, Session, Chunk
  <2>5. /\ sessions' \in Seq(Seq(Content)) /\ Len(sessions') = Len(sessions)
        /\ \A u \in Uris : u # session.uri => sessions'[u] = sessions[u]
    BY <2>2, <2>3, <2>4, StoresType
  <2>6. DOMAIN sessions' = DOMAIN sessions /\ Session' = Session
    BY <2>5 DEF TypeOK, Session
  <2>7. TypeOK'
    BY <1>9, <2>1, <2>5, <2>6 DEF LoseAnswer, Retried, Ended, TypeOK, diskVars
  <2>8. NoStrayFile'
    BY <1>9, <2>3, <2>5, NoStrayStep DEF LoseAnswer, StepInv, Running, diskVars
  <2>9. CASE Retried
    BY <1>9, <2>3, <2>7, <2>8, <2>9, RetriedInv DEF LoseAnswer, diskVars
  <2>10. CASE Ended
    BY <2>3, <2>7, <2>8, <2>10, EndedInv DEF Running
  <2> QED BY <1>9, <2>9, <2>10 DEF LoseAnswer
<1>10. CASE Shrank
  <2>1. mismatches' \in 0..MaxMismatches /\ pc' \in {"idle", "discarded"}
    BY <1>10, CountedType DEF Shrank
  <2>2. TypeOK'
    BY <1>10, <2>1 DEF Shrank, TypeOK, Session, driveVars
  <2>3. StepInv' /\ OffsetIsDrives'
    BY <2>1 DEF StepInv, Running, OffsetIsDrives, Sending
  <2>4. NoStrayFile'
    BY <1>10, <2>1 DEF Shrank, Sending, NoStrayFile, IsFile, Uris, driveVars
  <2> QED BY <2>2, <2>3, <2>4
<1>11. CASE Confirm
  <2>1. session # None /\ session \in Session /\ journal = session
    BY <1>11 DEF Confirm, StepInv, Running, TypeOK
  <2>2. At(session.uri, Size) \in Session /\ At(session.uri, Size).uri = session.uri
    BY <2>1, ResumableAssumption DEF At, Session
  <2>3. At(session.uri, Size) # None
    BY <2>1, ResumableAssumption DEF At, Session, TypeOK
  <2>4. TypeOK'
    BY <1>11, <2>2, ResumableAssumption DEF Confirm, TypeOK, Session, driveVars
  <2>5. StepInv' /\ OffsetIsDrives'
    BY <1>11, <2>2, <2>3 DEF Confirm, StepInv, Running, OffsetIsDrives, Sending, Captured,
                          driveVars
  <2>6. NoStrayFile'
    BY <1>11, <2>1, <2>2, <2>3 DEF Confirm, NoStrayFile, IsFile, Uris, driveVars
  <2> QED BY <2>4, <2>5, <2>6
<1>12. CASE ConfirmRefuses
  <2>1. session # None /\ session \in Session /\ journal = session
    BY <1>12 DEF ConfirmRefuses, StepInv, Running, TypeOK
  <2>2. /\ mismatches' \in 0..MaxMismatches /\ pc' \in {"idle", "discarded"}
        /\ faults' \in 0..MaxFaults /\ journal' \in {None, journal}
    BY <1>12, CountedType, FaultType DEF ConfirmRefuses, diskVars, TypeOK
  <2>3. TypeOK'
    <3>1. session.uri \in DOMAIN sessions
      BY <2>1 DEF TypeOK, Session
    <3>2. trashed' \subseteq DOMAIN sessions
      BY <1>12, <3>1 DEF ConfirmRefuses, TypeOK
    <3>3. UNCHANGED <<local, sessions, forgotten, freshRot>> /\ session' = None /\ ask' = FALSE
      BY <1>12 DEF ConfirmRefuses, driveVars
    <3> QED BY <2>1, <2>2, <3>2, <3>3 DEF TypeOK, Session
  <2>4. StepInv' /\ OffsetIsDrives'
    BY <2>2 DEF StepInv, Running, OffsetIsDrives, Sending
  <2>5. NoStrayFile'
    BY <1>12, <2>1 DEF ConfirmRefuses, NoStrayFile, IsFile, Uris, driveVars
  <2> QED BY <2>3, <2>4, <2>5
<1>13. CASE ConfirmFails
  <2>1. faults' \in 0..MaxFaults
    BY <1>13, FaultType DEF ConfirmFails
  <2>2. TypeOK'
    BY <1>13, <2>1 DEF ConfirmFails, Ended, TypeOK, Session, driveVars, diskVars
  <2>3. NoStrayFile'
    BY <1>13 DEF ConfirmFails, Ended, NoStrayFile, IsFile, Uris, driveVars, diskVars
  <2> QED BY <1>13, <2>2, <2>3, EndedInv DEF ConfirmFails, Running
<1>14. ASSUME NEW u \in Uris, Forget(u) PROVE Inv'
  <2>1. faults' \in 0..MaxFaults
    BY <1>14, FaultType DEF Forget
  <2>2. TypeOK'
    BY <1>14, <2>1 DEF Forget, TypeOK, Session, Uris, diskVars, stepVars
  <2>3. StepInv' /\ OffsetIsDrives'
    BY <1>14 DEF Forget, StepInv, Running, OffsetIsDrives, Sending, Captured, diskVars, stepVars
  <2>4. NoStrayFile'
    BY <1>14 DEF Forget, NoStrayFile, IsFile, Uris, diskVars, stepVars
  <2> QED BY <2>2, <2>3, <2>4
<1>15. ASSUME NEW i \in 1..Size, Rot(i) PROVE Inv'
  <2>1. faults' \in 0..MaxFaults
    BY <1>15, FaultType DEF Rot
  <2>2. TypeOK'
    BY <1>15, <2>1 DEF Rot, TypeOK, Session, driveVars, diskVars, stepVars
  <2>3. StepInv' /\ OffsetIsDrives'
    BY <1>15 DEF Rot, StepInv, Running, OffsetIsDrives, Sending, driveVars, diskVars, stepVars
  <2>4. NoStrayFile'
    BY <1>15 DEF Rot, NoStrayFile, IsFile, Uris, driveVars, diskVars, stepVars
  <2> QED BY <2>2, <2>3, <2>4
<1>16. CASE UNCHANGED vars
  BY <1>16 DEF vars, driveVars, diskVars, stepVars, TypeOK, Session, StepInv, Running,
               OffsetIsDrives, Sending, NoStrayFile, IsFile, Uris, Captured
<1> QED BY <1>1, <1>2, <1>3, <1>4, <1>5, <1>6, <1>7, <1>8, <1>9, <1>10, <1>11, <1>12,
           <1>13, <1>14, <1>15, <1>16 DEF Next

(* The inductive invariant of the upload.                                  *)
THEOREM InvHolds == Spec => []Inv
BY InitInv, NextInv, PTL DEF Spec

(* The variables keep their types: the file its length, the journal and    *)
(* the step a session Drive has opened, the counts their limits.           *)
THEOREM TypeCorrect == Spec => []TypeOK
BY InvHolds, PTL DEF Inv

(* upload_file sends no chunk from an offset that is not Drive's, for any  *)
(* file and any number of lost answers, partial chunks and crashes.        *)
THEOREM OffsetNeverGuessed == Spec => []OffsetIsDrives
BY InvHolds, PTL DEF Inv

(* What the journal takes for uploaded is the captured file, unless it     *)
(* rotted in the step that finished it.                                    *)
THEOREM SentIsTheCapture == Spec => []SentIsCaptured
<1>1. Inv => SentIsCaptured
  BY DEF Inv, StepInv, SentIsCaptured
<1> QED BY <1>1, InvHolds, PTL

(* However many sessions an upload takes, Drive keeps no finished file the *)
(* journal does not name, other than in its trash or in a session Drive    *)
(* forgot.                                                                 *)
THEOREM NoCopyLeftBehind == Spec => []NoStrayFile
BY InvHolds, PTL DEF Inv

=============================================================================
