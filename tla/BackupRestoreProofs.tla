-------------------------- MODULE BackupRestoreProofs --------------------------
(***************************************************************************)
(* Theorems about BackupRestore, for any chains, depths, capture times and *)
(* damage on Drive and any number of aborted attempts and crashes: what is *)
(* swapped in is the newest usable restore point, "none" means none, and   *)
(* only a broken candidate is passed over.                                 *)
(*                                                                         *)
(* The walk reads every chain from its newest manifest down.  WalkInv says *)
(* that a point is waiting among the heads, was given up, is being tried,  *)
(* or lies below what was read of its chain; what is below is older.       *)
(***************************************************************************)
EXTENDS BackupRestore, Integers, TLAPS

\* Points of a chain that are still to be read come before those that were.
HeadsAbove ==
  /\ \A h \in heap : pos[h[1]] < h[2]
  /\ \A pt \in Points : \/ pt \in heap \cup skipped \cup {cand}
                        \/ pt[2] <= pos[pt[1]]

\* The candidate is the newest of what has not been given up.
CandNewest == cand # None => \A pt \in Points : pt \in skipped \/ at[pt] <= at[cand]

\* What is known while the walk is on.
WalkInv == phase = "running" => HeadsAbove /\ CandNewest

\* A store that was swapped in is the candidate's.
SwapInv == phase = "swapped" => cand # None /\ dest = cand

\* The inductive invariant.
RestoreInv == /\ TypeOK /\ IsTiming(at) /\ WalkInv /\ SwapInv
              /\ SkipsOnlyBroken /\ RestoresNewest /\ NoneMeansNone

-----------------------------------------------------------------------------
(* Restore points, their times and their files.                             *)

\* A restore point is a chain and a seq of it; its time is a number.
LEMMA PointShape ==
  ASSUME NEW pt \in Points
  PROVE  /\ pt = <<pt[1], pt[2]>> /\ pt[1] \in Chains
         /\ pt[2] \in Nat /\ 1 <= pt[2] /\ pt[2] <= Deep(pt[1])
         /\ Deep(pt[1]) \in Nat
<1>1. PICK ch \in Chains : pt \in {ch} \X (1..Deep(ch))
  BY DEF Points
<1>2. Deep(ch) \in Nat
  BY RestoreAssumption DEF Deep, Chains
<1> QED BY <1>1, <1>2

\* Times are ordered as numbers.
LEMMA TimesAreInts ==
  ASSUME TypeOK
  PROVE  \A pt \in Points : at[pt] \in Int
BY DEF TypeOK, Times

\* An unreadable manifest, or a file that cannot be fetched, breaks a point.
LEMMA BrokenNotSound ==
  ASSUME NEW pt
  PROVE  /\ ~Readable(pt) => ~Sound(pt)
         /\ (\E f \in FilesOf(pt) : ~fileOk[f]) => ~Sound(pt)
BY DEF Readable, Sound

-----------------------------------------------------------------------------
(* RestoreInv is inductive.                                                 *)

\* It holds at the start.
LEMMA RestoreInit == Init => RestoreInv
<1> SUFFICES ASSUME Init PROVE RestoreInv
  OBVIOUS
<1>1. IsTiming(at) /\ at \in [Points -> Times]
  BY DEF Init
<1>2. \A ch \in Chains : Deep(ch) \in Nat
  BY RestoreAssumption DEF Deep, Chains
<1>3. TypeOK
  <2>1. DOMAIN pos = Chains /\ \A ch \in Chains : pos[ch] \in 0..Deep(ch)
    BY <1>2 DEF Init
  <2>2. 0 \in 0..MaxFailures
    BY RestoreAssumption
  <2> QED BY <1>1, <2>1, <2>2 DEF Init, TypeOK
<1> QED BY <1>1, <1>3 DEF Init, RestoreInv, WalkInv, SwapInv, SkipsOnlyBroken, RestoresNewest,
                          NoneMeansNone

\* No step touches Drive, and a point stays usable.
LEMMA DriveStays ==
  ASSUME [Next]_vars
  PROVE  /\ UNCHANGED drive
         /\ \A pt : Sound(pt)' = Sound(pt)
         /\ Usable' = Usable
<1>1. UNCHANGED drive
  BY DEF Next, Step, Begin, ReadHead, Pop, Fetch, Fallback, Swap, PlaceRecords, NothingLeft,
         PlaceFails, Abort, Crash, vars
<1>2. \A pt : Sound(pt)' = Sound(pt)
  BY <1>1 DEF drive, Sound
<1> QED BY <1>1, <1>2 DEF Usable

\* Types.
LEMMA RestoreTypeStep ==
  ASSUME TypeOK, SwapInv, [Next]_vars
  PROVE  TypeOK'
<1> USE DEF TypeOK
<1>0. \A ch \in Chains : Deep(ch) \in Nat
  BY RestoreAssumption DEF Deep, Chains
<1>1. CASE Begin
  BY <1>0, <1>1 DEF Begin, drive
<1>2. ASSUME NEW ch \in Chains, ReadHead(ch)
      PROVE  TypeOK'
  <2>1. pos[ch] \in 0..Deep(ch) /\ pos[ch] > 0
    BY <1>2 DEF ReadHead, NeedsHead
  <2>2. <<ch, pos[ch]>> \in Points
    BY <1>0, <2>1 DEF Points
  <2>3. DOMAIN pos' = Chains /\ \A c \in Chains : pos'[c] \in 0..Deep(c)
    BY <1>0, <1>2, <2>1 DEF ReadHead
  <2>4. heap' \subseteq Points /\ skipped' \subseteq Points
    BY <1>2, <2>2 DEF ReadHead
  <2> QED BY <1>2, <2>3, <2>4 DEF ReadHead, drive
<1>3. ASSUME NEW pt \in Points, Pop(pt) \/ Fetch(pt)
      PROVE  TypeOK'
  BY <1>3 DEF Pop, Fetch, drive
<1>4. CASE Fallback \/ Swap \/ NothingLeft
  BY <1>4 DEF Fallback, Swap, NothingLeft, drive
<1>5. CASE PlaceRecords
  BY <1>5 DEF PlaceRecords, drive, SwapInv
<1>6. CASE PlaceFails \/ Abort \/ Crash
  BY <1>6, RestoreAssumption DEF PlaceFails, Abort, Crash, drive
<1>7. CASE UNCHANGED vars
  BY <1>7 DEF vars, drive
<1> QED BY <1>1, <1>2, <1>3, <1>4, <1>5, <1>6, <1>7 DEF Next, Step

\* A broken candidate, and it only, is given up.
LEMMA SkipsOnlyBrokenStep ==
  ASSUME SkipsOnlyBroken, [Next]_vars
  PROVE  SkipsOnlyBroken'
<1>0. \A pt : Sound(pt)' = Sound(pt)
  BY DriveStays
<1>1. ASSUME skipped' \subseteq skipped
      PROVE  SkipsOnlyBroken'
  BY <1>0, <1>1 DEF SkipsOnlyBroken
<1>2. ASSUME NEW ch \in Chains, ReadHead(ch)
      PROVE  SkipsOnlyBroken'
  <2>1. skipped' = skipped \/ (skipped' = skipped \cup {<<ch, pos[ch]>>} /\ ~Readable(<<ch, pos[ch]>>))
    BY <1>2 DEF ReadHead
  <2> QED BY <1>0, <2>1, BrokenNotSound DEF SkipsOnlyBroken
<1>3. CASE Fallback
  <2>1. skipped' = skipped \cup {cand}
    BY <1>3 DEF Fallback
  <2>2. ~Sound(cand)
    BY <1>3, BrokenNotSound DEF Fallback
  <2> QED BY <1>0, <2>1, <2>2 DEF SkipsOnlyBroken
<1> QED BY <1>1, <1>2, <1>3 DEF Next, Step, Begin, Pop, Fetch, Swap, PlaceRecords, NothingLeft,
                                PlaceFails, Abort, Crash, vars

\* The head that is popped is newer than all that is left of every chain.
LEMMA PopNewest ==
  ASSUME TypeOK, IsTiming(at), HeadsAbove, NEW pt \in Points, Pop(pt),
         NEW q \in Points, q \notin skipped
  PROVE  at[q] <= at[pt]
<1>1. cand = None /\ pt \in heap /\ (\A o \in heap : at[o] <= at[pt])
      /\ \A ch \in Chains : ~NeedsHead(ch)
  BY DEF Pop
<1>2. q \in heap \/ q[2] <= pos[q[1]]
  BY <1>1, NoneAssumption DEF HeadsAbove
<1>3. CASE q[2] <= pos[q[1]]
  <2>1. q[1] \in Chains /\ q[2] \in Nat /\ 1 <= q[2]
    BY PointShape
  <2>2. pos[q[1]] > 0 /\ pos[q[1]] \in Int
    BY <1>3, <2>1 DEF TypeOK
  <2>3. PICK h \in heap : h[1] = q[1]
    BY <1>1, <2>1, <2>2 DEF NeedsHead
  <2>4. h \in Points /\ h[2] \in Nat
    BY PointShape DEF TypeOK
  <2>5. q[2] < h[2]
    BY <1>3, <2>1, <2>2, <2>3, <2>4 DEF HeadsAbove
  <2>6. at[q] < at[h]
    BY <2>3, <2>4, <2>5 DEF IsTiming
  <2>7. at[h] <= at[pt]
    BY <1>1
  <2> QED BY <2>4, <2>6, <2>7, TimesAreInts
<1> QED BY <1>1, <1>2, <1>3

\* The walk keeps track of every point.
LEMMA WalkStep ==
  ASSUME TypeOK, IsTiming(at), WalkInv, [Next]_vars
  PROVE  WalkInv'
<1>0. at' = at
  BY DriveStays DEF drive
<1>t. /\ \A ch \in Chains : pos[ch] \in Int
      /\ \A pt \in Points : pt[2] \in Nat /\ pt[1] \in Chains /\ 1 <= pt[2]
      /\ DOMAIN pos = Chains
  BY PointShape DEF TypeOK
<1>1. CASE Begin
  <2>1. heap' = {} /\ cand' = None /\ pos' = [ch \in Chains |-> Deep(ch)]
    BY <1>1 DEF Begin
  <2>2. \A pt \in Points : pt[2] <= pos'[pt[1]]
    BY <2>1, PointShape
  <2> QED BY <2>1, <2>2 DEF WalkInv, HeadsAbove, CandNewest
<1>2. ASSUME NEW ch \in Chains, ReadHead(ch)
      PROVE  WalkInv'
  <2> DEFINE pt == <<ch, pos[ch]>>
  <2>1. /\ phase = "running" /\ cand = None /\ cand' = None /\ pos[ch] > 0
        /\ ~\E h \in heap : h[1] = ch
        /\ pos' = [pos EXCEPT ![ch] = @ - 1]
        /\ \/ heap' = heap \cup {pt} /\ skipped' = skipped
           \/ skipped' = skipped \cup {pt} /\ heap' = heap
    BY <1>2 DEF ReadHead, NeedsHead
  <2>2. pos'[ch] = pos[ch] - 1 /\ \A c \in Chains : c # ch => pos'[c] = pos[c]
    BY <1>t, <2>1
  <2>3. \A h \in heap' : pos'[h[1]] < h[2]
    <3>1. \A h \in heap : h[1] # ch /\ h[1] \in Chains
      BY <1>t, <2>1 DEF TypeOK
    <3>2. \A h \in heap : pos'[h[1]] < h[2]
      BY <2>1, <2>2, <3>1 DEF WalkInv, HeadsAbove
    <3>3. pt[1] = ch /\ pt[2] = pos[ch]
      OBVIOUS
    <3>4. pos'[pt[1]] < pt[2]
      BY <1>t, <2>2, <3>3
    <3> HIDE DEF pt
    <3> QED BY <2>1, <3>2, <3>4
  <2>4. ASSUME NEW q \in Points
        PROVE  q \in heap' \cup skipped' \cup {cand'} \/ q[2] <= pos'[q[1]]
    <3>1. q \in heap \cup skipped \cup {cand} \/ q[2] <= pos[q[1]]
      BY <2>1 DEF WalkInv, HeadsAbove
    <3>2. CASE q[1] = ch /\ q[2] = pos[ch]
      <4>1. q = pt
        BY <3>2, PointShape
      <4> QED BY <2>1, <4>1
    <3>3. CASE q[1] = ch /\ q[2] # pos[ch] /\ q[2] <= pos[ch]
      BY <1>t, <2>2, <3>3
    <3> QED BY <1>t, <2>1, <2>2, <3>1, <3>2, <3>3
  <2> QED BY <2>1, <2>3, <2>4 DEF WalkInv, HeadsAbove, CandNewest
<1>3. ASSUME NEW pt \in Points, Pop(pt)
      PROVE  WalkInv'
  <2>1. phase = "running" /\ heap' = heap \ {pt} /\ cand' = pt /\ UNCHANGED <<pos, skipped>>
        /\ cand = None /\ pt \in heap
    BY <1>3 DEF Pop
  <2>2. HeadsAbove'
    <3>1. \A q \in Points : q \in heap' \cup skipped' \cup {cand'} \/ q[2] <= pos'[q[1]]
      BY <2>1, NoneAssumption DEF WalkInv, HeadsAbove
    <3>2. \A h \in heap' : pos'[h[1]] < h[2]
      BY <2>1 DEF WalkInv, HeadsAbove
    <3> QED BY <3>1, <3>2 DEF HeadsAbove
  <2>3. CandNewest'
    BY <1>0, <1>3, <2>1, PopNewest DEF WalkInv, CandNewest
  <2> QED BY <2>2, <2>3 DEF WalkInv
<1>4. CASE Fallback
  <2>1. phase = "running" /\ skipped' = skipped \cup {cand} /\ cand' = None /\ UNCHANGED <<heap, pos>>
    BY <1>4 DEF Fallback
  <2> QED BY <2>1 DEF WalkInv, HeadsAbove, CandNewest
<1>5. ASSUME NEW pt \in Points, Fetch(pt)
      PROVE  WalkInv'
  BY <1>0, <1>5 DEF Fetch, WalkInv, HeadsAbove, CandNewest
<1>6. CASE Swap \/ PlaceRecords \/ NothingLeft \/ PlaceFails \/ Abort \/ Crash
  BY <1>6 DEF Swap, PlaceRecords, NothingLeft, PlaceFails, Abort, Crash, WalkInv
<1>7. CASE UNCHANGED vars
  BY <1>0, <1>7 DEF vars, WalkInv, HeadsAbove, CandNewest
<1> QED BY <1>1, <1>2, <1>3, <1>4, <1>5, <1>6, <1>7 DEF Next, Step

\* Nothing is left of a walk that ends with none.
LEMMA NothingLeftUnusable ==
  ASSUME RestoreInv, NothingLeft
  PROVE  Usable = {}
<1>1. phase = "running" /\ cand = None /\ heap = {} /\ \A ch \in Chains : pos[ch] = 0
  BY DEF NothingLeft
<1>2. ASSUME NEW pt \in Points
      PROVE  pt \in skipped
  <2>1. ~(pt[2] <= pos[pt[1]])
    BY <1>1, PointShape
  <2> QED BY <1>1, <2>1, NoneAssumption DEF RestoreInv, WalkInv, HeadsAbove
<1> QED BY <1>2 DEF RestoreInv, SkipsOnlyBroken, Usable

\* What is swapped in is the newest usable point.
LEMMA SwapNewest ==
  ASSUME RestoreInv, Swap
  PROVE  cand \in Usable /\ \A pt \in Usable : at[pt] <= at[cand]
<1>1. phase = "running" /\ cand # None /\ Sound(cand)
  BY DEF Swap
<1>2. cand \in Points
  BY <1>1 DEF RestoreInv, TypeOK
<1> QED BY <1>1, <1>2 DEF RestoreInv, WalkInv, CandNewest, SkipsOnlyBroken, Usable

\* Every step keeps it.
LEMMA RestoreStep == RestoreInv /\ [Next]_vars => RestoreInv'
<1> SUFFICES ASSUME RestoreInv, [Next]_vars PROVE RestoreInv'
  OBVIOUS
<1>0. at' = at /\ Usable' = Usable
  BY DriveStays DEF drive
<1>1. TypeOK' /\ WalkInv' /\ SkipsOnlyBroken'
  BY RestoreTypeStep, WalkStep, SkipsOnlyBrokenStep DEF RestoreInv
<1>2. IsTiming(at)'
  BY <1>0 DEF RestoreInv, IsTiming
<1>3. SwapInv'
  BY DEF RestoreInv, SwapInv, Next, Step, Begin, ReadHead, Pop, Fetch, Fallback, Swap,
         PlaceRecords, NothingLeft, PlaceFails, Abort, Crash, vars
<1>4. RestoresNewest'
  <2>1. CASE Swap
    BY <1>0, <2>1, SwapNewest DEF Swap, RestoresNewest
  <2>2. CASE dest' = dest
    BY <1>0, <2>2 DEF RestoreInv, RestoresNewest
  <2> QED BY <2>1, <2>2 DEF Next, Step, Begin, ReadHead, Pop, Fetch, Fallback, PlaceRecords,
                            NothingLeft, PlaceFails, Abort, Crash, vars
<1>5. NoneMeansNone'
  <2>1. CASE NothingLeft
    BY <1>0, <2>1, NothingLeftUnusable DEF NoneMeansNone
  <2>2. CASE phase' = phase \/ phase' # "none"
    BY <1>0, <2>2 DEF RestoreInv, NoneMeansNone
  <2> QED BY <2>1, <2>2 DEF Next, Step, Begin, ReadHead, Pop, Fetch, Fallback, Swap, PlaceRecords,
                            PlaceFails, Abort, Crash, vars
<1> QED BY <1>1, <1>2, <1>3, <1>4, <1>5 DEF RestoreInv

\* It holds in every state of every behaviour.
LEMMA RestoreAlways == Spec => []RestoreInv
BY RestoreInit, RestoreStep, PTL DEF Spec

\* The store that is swapped in is the newest of all usable restore points, over
\* every chain and legacy file, however many broken ones come before it and
\* however often the attempt was aborted: restore_latest's merge of the chains.
THEOREM NewestIsRestored == Spec => []RestoresNewest
BY RestoreAlways, PTL DEF RestoreInv

\* "No restore point" is said only when Drive holds none that can be used.
THEOREM NoneIsNone == Spec => []NoneMeansNone
BY RestoreAlways, PTL DEF RestoreInv

\* Only a candidate proved broken is passed over: an attempt that is aborted on
\* the way never demotes the restore to an older point.
THEOREM OnlyBrokenSkipped == Spec => []SkipsOnlyBroken
BY RestoreAlways, PTL DEF RestoreInv
=============================================================================
