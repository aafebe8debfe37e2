--------------------------- MODULE DriveResumable ---------------------------
(***************************************************************************)
(* The upload of one file of a backup item: drive_resumable.upload_file,   *)
(* called by the file loop of backup_uploader._upload_item, step after     *)
(* step, until Drive's copy is confirmed or the item is discarded.         *)
(*                                                                         *)
(* A session is Drive's (its bytes) and the journal's (its uri and the     *)
(* confirmed offset).  Drive may keep part of a chunk, finish the file and *)
(* see its answer lost, or forget the session; the process may die or the  *)
(* step's budget end between any two requests; the local file may rot.     *)
(* BackupUploader has the whole of this as SendFile, Mismatch and          *)
(* DiscardRefused.                                                         *)
(*                                                                         *)
(* Bytes are counted in quanta.  The adaptive chunk size is any size; the  *)
(* limits on failures and restarts in a row, and the wait that would pass  *)
(* the deadline, are the choice to end the step after a failure.           *)
(***************************************************************************)
EXTENDS Naturals, Sequences

CONSTANTS None,
          Size,           \* of the file, in quanta
          MaxMismatches,  \* _MAX_MISMATCHES
          MaxSessions,    \* BOUND: sessions Drive opens
          MaxFaults       \* BOUND: partial or garbled chunks, failed or lost
                          \*   answers, forgotten sessions, rot, crashes

ASSUME ResumableAssumption ==
  /\ Size \in Nat \ {0} /\ MaxMismatches \in Nat \ {0}
  /\ MaxSessions \in Nat /\ MaxFaults \in Nat
  /\ None \notin [uri : Nat, offset : Nat]

VARIABLES local,       \* the local file: a sequence of "good" and "rot"
          sessions,    \* Drive: per session, in the order of their uris, the
                       \*   bytes it has; a file when there are Size of them
          forgotten,   \* uris Drive answers with 404
          trashed,     \* files in Drive's trash, or queued for it
          journal,     \* inflight entry: None, a session, or a file id
          mismatches,  \* the journal's count for this file
          pc,          \* idle, loop, confirm, sent or discarded
          session,     \* upload_file's session
          ask,         \* need_query
          faults,
          freshRot     \* history: the file rotted in the running step

driveVars == <<sessions, forgotten>>
diskVars  == <<journal, mismatches>>
stepVars  == <<pc, session, ask>>
vars == <<local, driveVars, trashed, diskVars, stepVars, faults, freshRot>>

Content == {"good", "rot", "garbled", "hole"}
Session == [uri : 1..Len(sessions), offset : Nat]

TypeOK ==
  /\ local \in [1..Size -> {"good", "rot"}]
  /\ sessions \in Seq(Seq(Content))
  /\ forgotten \subseteq DOMAIN sessions /\ trashed \subseteq DOMAIN sessions
  /\ journal \in Session \cup {None} /\ session \in Session \cup {None}
  /\ mismatches \in 0..MaxMismatches
  /\ pc \in {"idle", "loop", "confirm", "sent", "discarded"}
  /\ ask \in BOOLEAN /\ faults \in 0..MaxFaults /\ freshRot \in BOOLEAN

Captured == [i \in 1..Size |-> "good"]
Uris     == DOMAIN sessions
IsFile(u) == Len(sessions[u]) = Size

Fault == faults < MaxFaults /\ faults' = faults + 1

At(u, offset) == [uri |-> u, offset |-> offset]

---------------------------------------------------------------------------
(* A step begins: the file against the sidecar's digest, and the session   *)
(* as the journal has it, whose offset is only what was last saved.        *)

\* Mutant: no digest before the upload.
StartUnchecked ==
  /\ pc = "idle" /\ pc' = "loop"
  /\ session' = journal /\ ask' = (journal # None)
  /\ freshRot' = FALSE
  /\ UNCHANGED <<local, driveVars, trashed, diskVars, faults>>

\* Mutant: the journal's offset is taken at its word.
StartTrusting ==
  /\ pc = "idle" /\ local = Captured
  /\ pc' = "loop" /\ session' = journal /\ ask' = FALSE
  /\ freshRot' = FALSE
  /\ UNCHANGED <<local, driveVars, trashed, diskVars, faults>>

Start ==
  /\ pc = "idle" /\ local = Captured
  /\ pc' = "loop" /\ session' = journal /\ ask' = (journal # None)
  /\ freshRot' = FALSE
  /\ UNCHANGED <<local, driveVars, trashed, diskVars, faults>>

DiscardRotten ==
  /\ pc = "idle" /\ local # Captured
  /\ pc' = "discarded" /\ journal' = None /\ mismatches' = 0
  /\ UNCHANGED <<local, driveVars, trashed, session, ask, faults, freshRot>>

\* The budget is spent; a session that was started has been saved.
Deadline ==
  /\ pc = "loop"
  /\ pc' = "idle" /\ session' = None /\ ask' = FALSE
  /\ UNCHANGED <<local, driveVars, trashed, diskVars, faults, freshRot>>

\* A request that failed: Drive is asked next, or the step ends.
Retried == pc' = "loop" /\ ask' = (session # None) /\ UNCHANGED session
Ended   == pc' = "idle" /\ session' = None /\ ask' = FALSE

RequestFails ==
  /\ pc = "loop" /\ Fault
  /\ Retried \/ Ended
  /\ UNCHANGED <<local, driveVars, trashed, diskVars, freshRot>>

---------------------------------------------------------------------------
(* The requests.                                                           *)

\* Mutant: the session is journalled with its first confirmed chunk only.
InitiateUnsaved ==
  /\ pc = "loop" /\ session = None /\ Len(sessions) < MaxSessions
  /\ sessions' = Append(sessions, <<>>)
  /\ session' = At(Len(sessions) + 1, 0)
  /\ UNCHANGED <<local, forgotten, trashed, diskVars, pc, ask, faults, freshRot>>

\* One whose answer is lost, or that is not saved before a crash, leaves an
\* empty session that nobody names.
Initiate ==
  /\ pc = "loop" /\ session = None /\ Len(sessions) < MaxSessions
  /\ sessions' = Append(sessions, <<>>)
  /\ session' = At(Len(sessions) + 1, 0) /\ journal' = session'
  /\ UNCHANGED <<local, forgotten, trashed, mismatches, pc, ask, faults, freshRot>>

\* Mutant: a session Drive does not know is asked for again.
StayForgotten == UNCHANGED <<journal, stepVars>>

\* 404 or 410: from zero, in a new session.
StartOver == session' = None /\ ask' = FALSE /\ UNCHANGED <<journal, pc>>

\* What is done with an answer: the file, the confirmed offset, or 404.
Answered(u) ==
  IF u \in forgotten THEN StartOver
  ELSE IF Len(sessions'[u]) = Size
  THEN pc' = "confirm" /\ UNCHANGED <<journal, session, ask>>
  ELSE /\ session' = At(u, Len(sessions'[u])) /\ journal' = session'
       /\ ask' = FALSE /\ UNCHANGED pc

Query ==
  /\ pc = "loop" /\ session # None /\ ask
  /\ UNCHANGED sessions
  /\ Answered(session.uri)
  /\ UNCHANGED <<local, forgotten, trashed, mismatches, faults, freshRot>>

(* Drive takes k of the n quanta it is sent from an offset on: what it had *)
(* from there on is replaced, and what is missing before is a hole.        *)
Taken(u, offset, data) ==
  [i \in 1..offset + Len(data) |->
     IF i > offset THEN data[i - offset]
     ELSE IF i <= Len(sessions[u]) THEN sessions[u][i] ELSE "hole"]

Chunk == 1..Size - session.offset
DataAt(offset, k) == SubSeq(local, offset + 1, offset + k)

Stores(data) ==
  sessions' = IF session.uri \in forgotten THEN sessions
              ELSE [sessions EXCEPT ![session.uri] =
                      Taken(session.uri, session.offset, data)]

Sending == pc = "loop" /\ session # None /\ ~ask

SendChunk ==
  /\ Sending
  /\ \E n \in Chunk : Stores(DataAt(session.offset, n))
  /\ Answered(session.uri)
  /\ UNCHANGED <<local, forgotten, trashed, mismatches, faults, freshRot>>

\* Drive keeps a part of it, or what arrives is not what was sent.
SendChunkBadly ==
  /\ Sending /\ Fault
  /\ \E n \in Chunk :
       \/ \E k \in 0..n - 1 : Stores(DataAt(session.offset, k))
       \/ Stores([i \in 1..n |-> "garbled"])
  /\ Answered(session.uri)
  /\ UNCHANGED <<local, forgotten, trashed, mismatches, freshRot>>

\* Some of it, or all of it, is stored; the answer is lost, or not saved.
LoseAnswer ==
  /\ Sending /\ Fault
  /\ \E k \in Chunk : Stores(DataAt(session.offset, k))
  /\ Retried \/ Ended
  /\ UNCHANGED <<local, forgotten, trashed, diskVars, freshRot>>

---------------------------------------------------------------------------
(* A disagreement about the bytes is counted; at the limit the item goes.  *)

Counted == IF mismatches + 1 >= MaxMismatches
           THEN pc' = "discarded" /\ mismatches' = 0
           ELSE pc' = "idle" /\ mismatches' = mismatches + 1

\* The local file became shorter; its session stays in the journal.
Shrank ==
  /\ Sending /\ local # Captured
  /\ Counted /\ session' = None
  /\ journal' = IF pc' = "discarded" THEN None ELSE journal
  /\ UNCHANGED <<local, driveVars, trashed, ask, faults, freshRot>>

\* Drive's size and md5 against the local file's, as it is now.
Confirm ==
  /\ pc = "confirm" /\ sessions[session.uri] = local
  /\ pc' = "sent" /\ journal' = At(session.uri, Size)
  /\ mismatches' = 0
  /\ UNCHANGED <<local, driveVars, trashed, session, ask, faults, freshRot>>

\* The file is trashed, then the journal saved without it.
ConfirmRefuses ==
  /\ pc = "confirm" /\ sessions[session.uri] # local
  /\ trashed' = trashed \cup {session.uri}
  /\ session' = None /\ ask' = FALSE
  /\ \/ Counted /\ journal' = None /\ UNCHANGED faults
     \/ Fault /\ pc' = "idle" /\ UNCHANGED diskVars
  /\ UNCHANGED <<local, driveVars, freshRot>>

\* Drive does not say, or the process dies before the id is saved.
ConfirmFails ==
  /\ pc = "confirm" /\ Fault
  /\ Ended
  /\ UNCHANGED <<local, driveVars, trashed, diskVars, freshRot>>

---------------------------------------------------------------------------
(* The environment.                                                        *)

Forget(u) ==
  /\ Fault /\ u \notin forgotten /\ pc \notin {"sent", "discarded"}
  /\ forgotten' = forgotten \cup {u}
  /\ UNCHANGED <<local, sessions, trashed, diskVars, stepVars, freshRot>>

Rot(i) ==
  /\ Fault /\ local[i] = "good" /\ pc \notin {"sent", "discarded"}
  /\ local' = [local EXCEPT ![i] = "rot"]
  /\ freshRot' = (freshRot \/ pc # "idle")
  /\ UNCHANGED <<driveVars, trashed, diskVars, stepVars>>

Init ==
  /\ local = Captured /\ sessions = <<>> /\ forgotten = {} /\ trashed = {}
  /\ journal = None /\ mismatches = 0
  /\ pc = "idle" /\ session = None /\ ask = FALSE
  /\ faults = 0 /\ freshRot = FALSE

Next ==
  \/ Start \/ DiscardRotten \/ Deadline \/ RequestFails
  \/ Initiate \/ Query \/ SendChunk \/ SendChunkBadly \/ LoseAnswer
  \/ Shrank \/ Confirm \/ ConfirmRefuses \/ ConfirmFails
  \/ \E u \in Uris : Forget(u)
  \/ \E i \in 1..Size : Rot(i)

Spec == Init /\ [][Next]_vars

(* Steps follow each other while the item is pending, and a budget lets    *)
(* through, again and again, each request the upload is at.                *)
Fairness == /\ WF_vars(Start) /\ WF_vars(DiscardRotten)
            /\ SF_vars(Initiate) /\ SF_vars(Query) /\ SF_vars(SendChunk)
            /\ WF_vars(Confirm) /\ WF_vars(ConfirmRefuses)

FairSpec == Spec /\ Fairness

---------------------------------------------------------------------------
(* Properties.                                                             *)

(* A chunk is never a guess: when one is about to be sent, the offset is   *)
(* the number of bytes Drive has, whatever was lost, stored in part, or    *)
(* not saved before the process died.                                      *)
OffsetIsDrives ==
  Sending /\ session.uri \notin forgotten =>
    session.offset = Len(sessions[session.uri])

(* What the journal takes for uploaded is the file as it was captured,     *)
(* over any number of sessions and steps, unless it rotted while the step  *)
(* that finished it was running.                                           *)
SentIsCaptured ==
  pc = "sent" => sessions[journal.uri] = Captured \/ freshRot

(* Retries leave no second copy behind: a finished file on Drive is named  *)
(* by the journal or trashed, unless Drive forgot its session before it    *)
(* answered, or the item was discarded.                                    *)
NoStrayFile ==
  \A u \in Uris : IsFile(u) =>
    \/ journal # None /\ journal.uri = u
    \/ u \in trashed \cup forgotten
    \/ pc = "discarded"

(* The upload ends, with the file on Drive or the item given up.           *)
UploadEnds == <>(pc \in {"sent", "discarded"})

(* "Never ship bytes the sidecar does not vouch for."                      *)
ShippedIsVouched == pc = "sent" => sessions[journal.uri] = Captured
=============================================================================
