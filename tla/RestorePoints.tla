---------------------------- MODULE RestorePoints ----------------------------
(***************************************************************************)
(* What the backup promises, without chains, pages, journals or files:     *)
(* snapshots of the store are taken into an outbox and published, each     *)
(* exactly as it was taken.  An older snapshot may be dropped for a newer  *)
(* one; a snapshot that cannot be shipped is given up only after a fault.  *)
(***************************************************************************)
EXTENDS Naturals

CONSTANT Snapshot  \* [at, db] records

VARIABLES waiting,   \* snapshots taken and not yet disposed of
          points,    \* restore points that a restore would rebuild
          faulty     \* a local file was lost or damaged at some time

\* Only snapshots wait and are published.
TypeOK == waiting \subseteq Snapshot /\ points \subseteq Snapshot /\ faulty \in BOOLEAN

Init == waiting = {} /\ points = {} /\ faulty = FALSE

\* A new snapshot is taken; it may stand in for older ones.
Take(s, old) ==
  /\ s \notin waiting /\ s \notin points
  /\ waiting' = (waiting \ old) \cup {s}
  /\ UNCHANGED <<points, faulty>>

\* A waiting snapshot becomes a restore point, unchanged.
Publish(s) ==
  /\ s \in waiting
  /\ points' = points \cup {s}
  /\ UNCHANGED <<waiting, faulty>>

\* Snapshots leave the outbox: published, or superseded by one that waits or
\* is published, or given up after a fault.
Drop(gone) ==
  /\ gone \subseteq waiting
  /\ \A s \in gone : \/ \E t \in points \cup (waiting \ gone) : t.at >= s.at
                     \/ faulty
  /\ waiting' = waiting \ gone
  /\ UNCHANGED <<points, faulty>>

Fault == faulty' = TRUE /\ UNCHANGED <<waiting, points>>

Next == \/ \E s \in Snapshot, old \in SUBSET waiting : Take(s, old)
        \/ \E s \in waiting : Publish(s)
        \/ \E gone \in SUBSET waiting : Drop(gone)
        \/ Fault

Spec == Init /\ [][Next]_<<waiting, points, faulty>>
=============================================================================
