--------------------------- MODULE EnrichQueueProofs ---------------------------
(***************************************************************************)
(* Theorems about EnrichQueue, for any chunks, texts, threads, messages,   *)
(* budgets and workers and any number of edits, copies, faults and late    *)
(* answers: a chunk is marked enriched only when it, or the chunk it is a  *)
(* copy of, was read, given up or excused, and one a gate has set aside    *)
(* only when given up.                                                     *)
(*                                                                         *)
(* What has to be known besides the two: that copies say what their        *)
(* originals say (CopyInv), that the drain holds no job while the store    *)
(* changes and what it is about to mark (DrainInv), and that an answer has *)
(* only parts the worker was given (AnswersInv).                           *)
(***************************************************************************)
EXTENDS EnrichQueue, TLAPS

(* The fields of the file being drained.                                   *)
JobFields == {"id", "todo", "marks", "ok", "gone", "unit"}

(* A file is drained in the drain phase only, so sync and prepare find     *)
(* none half done.                                                         *)
JobShape == job # None => pc = "drain" /\ DOMAIN job = JobFields

(* An answer has extractions of parts that the worker was given.           *)
AnswersInv == \A a \in inbox : a.exts \subseteq a.given

(* So have the extractions of the file that is being drained.              *)
ExtsGiven == job # None => \A e \in job.todo : e.exts \subseteq e.given

(* What is about to be marked was accounted for when it was resolved, and  *)
(* no gate has set it aside since.                                         *)
MarksInv == (job # None /\ job.marks # None) =>
  /\ job.marks \subseteq Accounted
  /\ job.marks \cap cold = {}

(* What is known of a drain between two of its steps.                      *)
DrainInv == JobShape /\ AnswersInv /\ ExtsGiven /\ MarksInv

(* A copy says what its original says, which is marked and no copy itself. *)
CopyInv ==
  /\ stored \subseteq Chunks /\ DOMAIN text = Chunks /\ DOMAIN copyOf = Chunks
  /\ \A c \in Chunks : copyOf[c] # None =>
       /\ c \in stored
       /\ copyOf[c] \in stored \cap enriched /\ copyOf[copyOf[c]] = None
       /\ Same(text, c, copyOf[c])

(* What is marked is accounted for, or a copy.                             *)
MarkedInv == \A c \in enriched \ Accounted : c \in Chunks /\ copyOf[c] # None

(* All of it, with the second property.                                    *)
EnrichInv == DrainInv /\ CopyInv /\ MarkedInv /\ ColdNotConsumed

---------------------------------------------------------------------------
(* Extractions and marks.                                                  *)

(* The original of a copy is no copy, so it is itself accounted for.       *)
LEMMA CopiesAccounted ==
  ASSUME CopyInv, MarkedInv
  PROVE  MarkedWasRead
<1> SUFFICES ASSUME NEW c \in enriched \ Accounted
             PROVE  copyOf[c] \in Accounted /\ Same(text, c, copyOf[c])
  BY DEF MarkedWasRead
<1>1. c \in Chunks /\ copyOf[c] # None
  BY DEF MarkedInv
<1>2. copyOf[c] \in stored \cap enriched /\ copyOf[copyOf[c]] = None /\ Same(text, c, copyOf[c])
  BY <1>1 DEF CopyInv
<1> QED BY <1>2 DEF MarkedInv

(* The extractions of an answer are of parts the worker was given.         *)
LEMMA ExtractionsOfGiven ==
  ASSUME NEW a, a.exts \subseteq a.given
  PROVE  \A e \in Extractions(a) : e.exts \subseteq e.given
<1> SUFFICES ASSUME NEW e \in Extractions(a)
             PROVE  e.exts \subseteq e.given
  OBVIOUS
<1>1. \E t : e.exts = Of(a.exts, t) /\ e.given = Of(a.given, t)
  BY DEF Extractions
<1> QED BY <1>1 DEF Of

(* Extractions that all come before a part fit into the parts before it.   *)
LEMMA FitBefore ==
  ASSUME NEW exts, NEW parts, exts \subseteq parts, NEW p, \A q \in exts : q.part < p.part
  PROVE  ExistsInjection(exts, Before(parts, p))
<1> DEFINE id == [q \in exts |-> q]
<1>1. id \in [exts -> Before(parts, p)]
  BY DEF Before
<1>2. \A q, r \in DOMAIN id : id[q] = id[r] => q = r
  OBVIOUS
<1> QED BY <1>1, <1>2 DEF ExistsInjection, Injection, IsInjective

(* What is stamped of a unit file that is as the worker read it was made   *)
(* from it, or belongs to a part left out before another.                  *)
LEMMA StampedAccounted ==
  ASSUME NEW e, e.exts \subseteq e.given, e.now = e.given, NEW c \in PartIds(e)
  PROVE  c \in MadeIds(e) \cup LeftOut(e)
<1>1. PICK p \in e.now : c \in IdsOf(p) /\ ~ExistsInjection(e.exts, Before(e.now, p))
  BY DEF PartIds, Stamped
<1>2. CASE p \in e.exts
  <2>1. PICK cv \in p.chunks : c = cv[1]
    BY <1>1 DEF IdsOf
  <2>2. cv \in MadeFrom(e)
    BY <1>2, <2>1 DEF MadeFrom
  <2> QED BY <2>1, <2>2 DEF MadeIds
<1>3. CASE p \notin e.exts
  <2>1. ~\A q \in e.exts : q.part < p.part
    BY <1>1, FitBefore
  <2>2. p \in {q \in e.given \ e.exts : PartIds(e) = {} \/ ~\A r \in e.exts : r.part < q.part}
    BY <1>3, <2>1
  <2> QED BY <1>1, <2>2 DEF LeftOut
<1> QED BY <1>2, <1>3

(* Whatever an extraction resolves to was made from its own text, or is    *)
(* one of the chunks Unread names; and no gate has set it aside.           *)
LEMMA ResolvedAccounted ==
  ASSUME NEW e, e.exts \subseteq e.given
  PROVE  /\ Resolved(e) \subseteq Made(e) \cup Unread(e)
         /\ Resolved(e) \cap cold = {}
<1>1. Resolved(e) \cap cold = {}
  BY DEF Resolved, DropCold
<1>2. ASSUME NEW c \in Resolved(e), c \notin Made(e)
      PROVE  c \in Changed(e) \cup Rewritten(e) \cup LeftOut(e) \cup Joined(e)
  <2>1. CASE c \in MadeIds(e)
    BY <1>2, <2>1 DEF Changed
  <2>2. CASE c \notin MadeIds(e) /\ PartIds(e) # {}
    <3>1. c \in PartIds(e)
      BY <2>2 DEF Resolved, DropCold
    <3>2. CASE e.now = e.given
      BY <2>2, <3>1, <3>2, StampedAccounted
    <3>3. CASE e.now # e.given
      <4>1. PICK p \in {q \in e.now : q.part > 0} : c \in IdsOf(p)
        BY <3>1 DEF PartIds, Stamped
      <4> QED BY <3>3, <4>1 DEF Rewritten
    <3> QED BY <3>2, <3>3
  <2>3. CASE c \notin MadeIds(e) /\ PartIds(e) = {}
    <3>1. c \in ByMessage(MadeIds(e))
      BY <2>3 DEF Resolved, DropCold
    <3>2. CASE \E p \in e.given : c \in IdsOf(p)
      <4>1. PICK p \in e.given : c \in IdsOf(p)
        BY <3>2
      <4>2. CASE p \in e.exts
        <5>1. PICK cv \in p.chunks : c = cv[1]
          BY <4>1 DEF IdsOf
        <5>2. cv \in MadeFrom(e)
          BY <4>2, <5>1 DEF MadeFrom
        <5> QED BY <2>3, <5>1, <5>2 DEF MadeIds
      <4>3. CASE p \notin e.exts
        BY <2>3, <4>1, <4>3 DEF LeftOut
      <4> QED BY <4>2, <4>3
    <3>3. CASE ~\E p \in e.given : c \in IdsOf(p)
      BY <2>3, <3>1, <3>3 DEF Joined
    <3> QED BY <3>2, <3>3
  <2> QED BY <2>1, <2>2, <2>3
<1> QED BY <1>1, <1>2 DEF Unread
---------------------------------------------------------------------------
(* EnrichInv is inductive.                                                 *)

(* It holds at the start.                                                  *)
LEMMA EnrichInit == Init => EnrichInv
BY DEF Init, EnrichInv, DrainInv, JobShape, AnswersInv, ExtsGiven, MarksInv, CopyInv,
       MarkedInv, ColdNotConsumed

(* A step that leaves what is marked and the job keeps it.                 *)
LEMMA EnrichStays ==
  ASSUME EnrichInv, UNCHANGED <<stored, enriched, cold, text, copyOf, ghostVars, job>>,
         job # None => pc' = pc, AnswersInv'
  PROVE  EnrichInv'
BY DEF EnrichInv, DrainInv, JobShape, ExtsGiven, MarksInv, CopyInv, Same, MarkedInv, Accounted,
       ColdNotConsumed, ghostVars

(* Copies stay copies while no text moves and nothing is un-marked.        *)
LEMMA CopiesStay ==
  ASSUME CopyInv, UNCHANGED <<stored, text, copyOf>>, enriched \subseteq enriched'
  PROVE  CopyInv'
BY DEF CopyInv, Same

(* A chunk that arrives, or whose text moves, is a copy of a marked chunk  *)
(* of equal text or of none, and the copies it had are released.           *)
LEMMA UpsertCopies ==
  ASSUME CopyInv, NEW c \in Chunks, Upsert(c, text'), stored' = stored \cup {c},
         DOMAIN text' = Chunks, \A d \in Chunks \ {c} : text'[d] = text[d],
         c \notin stored \/ ~(Content(c, text'[c]) = Content(c, text[c]))
  PROVE  CopyInv'
<1> DEFINE stale == StaleCopies(c, text')
<1>0. None \notin Chunks
  BY EnrichAssumption
<1>1. PICK k \in IF Canonicals(c, text') = {} THEN {None} ELSE Canonicals(c, text') :
        /\ copyOf' = [d \in Chunks |-> IF d = c THEN k
                                       ELSE IF d \in stale THEN None ELSE copyOf[d]]
        /\ enriched' = (enriched \ (stale \cup {c})) \cup {d \in {c} : k # None}
  BY DEF Upsert
<1>2. stale = {d \in stored : copyOf[d] = c /\ ~Same(text', d, c)}
  BY DEF StaleCopies
<1> HIDE DEF stale
<1>3. \A d \in stored : copyOf[d] = None => d \notin stale
  BY <1>0, <1>2
<1> SUFFICES ASSUME NEW d \in Chunks, copyOf'[d] # None
             PROVE  /\ d \in stored'
                    /\ copyOf'[d] \in stored' \cap enriched' /\ copyOf'[copyOf'[d]] = None
                    /\ Same(text', d, copyOf'[d])
  BY <1>1 DEF CopyInv
<1>4. CASE d = c
  <2>1. k # None /\ copyOf'[c] = k
    BY <1>1, <1>4
  <2>2. /\ k \in stored \cap enriched /\ k # c /\ copyOf[k] = None
        /\ Same(text', k, c)
    BY <2>1 DEF Canonicals
  <2>3. k \in Chunks /\ k \notin stale
    BY <1>3, <2>2 DEF CopyInv
  <2> QED BY <1>1, <1>4, <2>1, <2>2, <2>3 DEF Same
<1>5. CASE d # c
  <2>1. d \notin stale /\ copyOf'[d] = copyOf[d]
    BY <1>1, <1>5
  <2>2. /\ d \in stored
        /\ copyOf[d] \in stored \cap enriched /\ copyOf[copyOf[d]] = None
        /\ Same(text, d, copyOf[d])
    BY <2>1 DEF CopyInv
  <2>3. copyOf[d] \in Chunks /\ copyOf[d] \notin stale
    BY <1>3, <2>2 DEF CopyInv
  <2>4. copyOf[d] # c
    <3> SUFFICES ASSUME copyOf[d] = c PROVE FALSE
      OBVIOUS
    <3>1. c \in stored /\ ~(Content(c, text'[c]) = Content(c, text[c]))
      BY <2>2
    <3>2. ~Same(text', d, c)
      BY <1>5, <2>2, <3>1 DEF Same
    <3> QED BY <1>2, <2>1, <2>2, <3>2
  <2>5. Same(text', d, copyOf[d])
    BY <1>5, <2>2, <2>3, <2>4 DEF Same
  <2> QED BY <1>1, <2>1, <2>2, <2>3, <2>4, <2>5
<1> QED BY <1>4, <1>5

(* Storing a text keeps what is marked accounted for, and what is cold.    *)
LEMMA UpsertMarks ==
  ASSUME MarkedInv, ColdNotConsumed, NEW c \in Chunks, NEW tx, Upsert(c, tx),
         read \ {c} \subseteq read', givenUp \ {c} \subseteq givenUp',
         excused \ {c} \subseteq excused'
  PROVE  MarkedInv' /\ ColdNotConsumed'
<1> DEFINE stale == StaleCopies(c, tx)
<1>1. PICK k :
        /\ copyOf' = [d \in Chunks |-> IF d = c THEN k
                                       ELSE IF d \in stale THEN None ELSE copyOf[d]]
        /\ enriched' = (enriched \ (stale \cup {c})) \cup {d \in {c} : k # None}
        /\ cold' = IF k = None THEN cold ELSE cold \ {c}
  BY DEF Upsert
<1> HIDE DEF stale
<1>2. MarkedInv'
  <2> SUFFICES ASSUME NEW d \in enriched', d \notin Accounted'
               PROVE  d \in Chunks /\ copyOf'[d] # None
    BY DEF MarkedInv
  <2>1. CASE d = c
    BY <1>1, <2>1
  <2>2. CASE d # c
    <3>1. d \in enriched \ Accounted /\ d \notin stale
      BY <1>1, <2>2 DEF Accounted
    <3>2. d \in Chunks /\ copyOf[d] # None
      BY <3>1 DEF MarkedInv
    <3> QED BY <1>1, <2>2, <3>1, <3>2
  <2> QED BY <2>1, <2>2
<1>3. ColdNotConsumed'
  <2> SUFFICES ASSUME NEW d \in cold', d \in enriched'
               PROVE  d \in givenUp'
    BY DEF ColdNotConsumed
  <2>1. d # c /\ d \in cold /\ d \in enriched
    BY <1>1
  <2> QED BY <2>1 DEF ColdNotConsumed
<1> QED BY <1>2, <1>3

(* An attempt that is counted, or a chunk given up at the cap.             *)
LEMMA BumpMarks ==
  ASSUME NEW cs, Bump(cs)
  PROVE  \E over : enriched' = enriched \cup over /\ givenUp' = givenUp \cup (over \ enriched)
BY DEF Bump

(* Giving up accounts for every chunk it marks.                            *)
LEMMA SkipKeeps ==
  ASSUME EnrichInv, NEW e, Skip(e)
  PROVE  EnrichInv'
<1>1. /\ job # None /\ job.marks = None /\ job' = [job EXCEPT !.todo = @ \ {e}]
      /\ UNCHANGED <<stored, cold, text, copyOf, inbox, pc, read, excused>>
  BY DEF Skip, queueVars
<1>2. PICK over : enriched' = enriched \cup over /\ givenUp' = givenUp \cup (over \ enriched)
  <2>1. PICK cs : Bump(cs)
    BY DEF Skip
  <2> QED BY <2>1, BumpMarks
<1>3. DOMAIN job = JobFields /\ pc = "drain"
  BY <1>1 DEF EnrichInv, DrainInv, JobShape
<1>4. DOMAIN job' = JobFields /\ job'.todo = job.todo \ {e} /\ job'.marks = None
  BY <1>1, <1>3 DEF JobFields
<1>5. DrainInv'
  BY <1>1, <1>3, <1>4 DEF EnrichInv, DrainInv, JobShape, AnswersInv, ExtsGiven, MarksInv
<1>6. MarkedInv' /\ ColdNotConsumed'
  BY <1>1, <1>2 DEF EnrichInv, MarkedInv, Accounted, ColdNotConsumed
<1>7. CopyInv'
  BY <1>1, <1>2, CopiesStay DEF EnrichInv
<1> QED BY <1>5, <1>6, <1>7 DEF EnrichInv

(* What an applied extraction will mark is accounted for at once.          *)
LEMMA ApplyKeeps ==
  ASSUME EnrichInv, NEW e, Apply(e)
  PROVE  EnrichInv'
<1>1. /\ job # None /\ job.marks = None /\ e \in job.todo
      /\ UNCHANGED <<stored, enriched, cold, text, copyOf, inbox, pc, givenUp>>
  BY DEF Apply, storeVars, queueVars
<1>2. DOMAIN job = JobFields /\ pc = "drain"
  BY <1>1 DEF EnrichInv, DrainInv, JobShape
<1>3. Resolved(e) \subseteq Made(e) \cup Unread(e) /\ Resolved(e) \cap cold = {}
  BY <1>1, ResolvedAccounted DEF EnrichInv, DrainInv, ExtsGiven
<1>c. CopyInv'
  BY <1>1, CopiesStay DEF EnrichInv
<1>4. CASE /\ job' = [job EXCEPT !.todo = @ \ {e}, !.marks = Resolved(e)]
           /\ read' = read \cup Made(e)
           /\ excused' = excused \cup Unread(e)
  <2>1. DOMAIN job' = JobFields /\ job'.todo = job.todo \ {e} /\ job'.marks = Resolved(e)
    BY <1>2, <1>4 DEF JobFields
  <2>2. DrainInv'
    BY <1>1, <1>2, <1>3, <1>4, <2>1
    DEF EnrichInv, DrainInv, JobShape, AnswersInv, ExtsGiven, MarksInv, Accounted
  <2> QED BY <1>1, <1>c, <1>4, <2>2 DEF EnrichInv, MarkedInv, Accounted, ColdNotConsumed
<1>5. CASE /\ job' = [job EXCEPT !.todo = @ \ {e}, !.ok = FALSE]
           /\ UNCHANGED <<read, excused>>
  <2>1. DOMAIN job' = JobFields /\ job'.todo = job.todo \ {e} /\ job'.marks = None
    BY <1>1, <1>2, <1>5 DEF JobFields
  <2>2. DrainInv'
    BY <1>1, <1>2, <1>5, <2>1 DEF EnrichInv, DrainInv, JobShape, AnswersInv, ExtsGiven, MarksInv
  <2> QED BY <1>1, <1>c, <1>5, <2>2 DEF EnrichInv, MarkedInv, Accounted, ColdNotConsumed
<1> QED BY <1>4, <1>5 DEF Apply

(* Marking marks what is accounted for, and nothing set aside since.       *)
LEMMA MarkKeeps ==
  ASSUME EnrichInv, Mark
  PROVE  EnrichInv'
<1>1. /\ job # None /\ job.marks # None /\ enriched' = enriched \cup job.marks
      /\ job' = [job EXCEPT !.marks = None]
      /\ UNCHANGED <<stored, text, copyOf, cold, inbox, pc, read, givenUp, excused>>
  BY DEF Mark, ghostVars, queueVars
<1>2. DOMAIN job = JobFields /\ pc = "drain"
  BY <1>1 DEF EnrichInv, DrainInv, JobShape
<1>3. DOMAIN job' = JobFields /\ job'.todo = job.todo /\ job'.marks = None
  BY <1>1, <1>2 DEF JobFields
<1>4. DrainInv'
  BY <1>1, <1>2, <1>3 DEF EnrichInv, DrainInv, JobShape, AnswersInv, ExtsGiven, MarksInv
<1>5. MarkedInv' /\ ColdNotConsumed'
  BY <1>1 DEF EnrichInv, DrainInv, MarksInv, MarkedInv, Accounted, ColdNotConsumed
<1>6. CopyInv'
  BY <1>1, CopiesStay DEF EnrichInv
<1> QED BY <1>4, <1>5, <1>6 DEF EnrichInv

(* The file is read: nothing is to be marked yet.                          *)
LEMMA ReadFileKeeps ==
  ASSUME EnrichInv, NEW a \in inbox, ReadFile(a)
  PROVE  EnrichInv'
<1>1. /\ pc = "drain" /\ job' = [id |-> a.id, todo |-> Extractions(a), marks |-> None, ok |-> TRUE,
                                 gone |-> FALSE, unit |-> UnitMessages(a.id)]
      /\ UNCHANGED <<stored, enriched, cold, text, copyOf, inbox, pc, read, givenUp, excused>>
  BY DEF ReadFile, storeVars, queueVars, ghostVars
<1>2. DOMAIN job' = JobFields /\ job'.todo = Extractions(a) /\ job'.marks = None
  BY <1>1 DEF JobFields
<1>3. \A e \in Extractions(a) : e.exts \subseteq e.given
  BY ExtractionsOfGiven DEF EnrichInv, DrainInv, AnswersInv
<1>4. DrainInv'
  BY <1>1, <1>2, <1>3 DEF EnrichInv, DrainInv, JobShape, AnswersInv, ExtsGiven, MarksInv
<1>5. CopyInv'
  BY <1>1, CopiesStay DEF EnrichInv
<1> QED BY <1>1, <1>4, <1>5 DEF EnrichInv, MarkedInv, Accounted, ColdNotConsumed

(* A text is stored: the drain has no file in hand.                        *)
LEMMA StoreKeeps ==
  ASSUME EnrichInv, NEW c \in Chunks, Arrive(c) \/ Edit(c)
  PROVE  EnrichInv'
<1>1. /\ pc = "sync" /\ Upsert(c, text') /\ stored' = stored \cup {c}
      /\ UNCHANGED <<inbox, pc, job>>
  BY DEF Arrive, Edit, queueVars, cycleVars
<1>2. /\ DOMAIN text' = Chunks /\ \A d \in Chunks \ {c} : text'[d] = text[d]
      /\ c \notin stored \/ ~(Content(c, text'[c]) = Content(c, text[c]))
  <2>1. DOMAIN text = Chunks
    BY DEF EnrichInv, CopyInv
  <2>2. CASE Arrive(c)
    BY <2>1, <2>2 DEF Arrive
  <2>3. CASE Edit(c)
    <3>1. text' = [text EXCEPT ![c] = 1] /\ text[c] = 0 /\ Content(c, 1) # Content(c, 0)
      BY <2>3 DEF Edit
    <3>2. text'[c] = 1 /\ DOMAIN text' = Chunks /\ \A d \in Chunks \ {c} : text'[d] = text[d]
      BY <2>1, <3>1
    <3> QED BY <3>1, <3>2
  <2> QED BY <2>2, <2>3
<1>3. CopyInv'
  BY <1>1, <1>2, UpsertCopies DEF EnrichInv
<1>4. /\ read \ {c} \subseteq read' /\ givenUp \ {c} \subseteq givenUp'
      /\ excused \ {c} \subseteq excused'
  BY DEF Arrive, Edit, ghostVars
<1>5. MarkedInv' /\ ColdNotConsumed'
  BY <1>1, <1>4, UpsertMarks DEF EnrichInv
<1>6. DrainInv'
  BY <1>1 DEF EnrichInv, DrainInv, JobShape, AnswersInv, ExtsGiven, MarksInv
<1> QED BY <1>3, <1>5, <1>6 DEF EnrichInv

(* Every step keeps it.                                                    *)
LEMMA EnrichStep == EnrichInv /\ [Next]_vars => EnrichInv'
<1> SUFFICES ASSUME EnrichInv, [Next]_vars PROVE EnrichInv'
  OBVIOUS
<1>j. ASSUME job' = None, UNCHANGED <<stored, enriched, cold, text, copyOf, ghostVars, inbox>>
      PROVE  EnrichInv'
  BY <1>j DEF EnrichInv, DrainInv, JobShape, AnswersInv, ExtsGiven, MarksInv, CopyInv, Same,
              MarkedInv, Accounted, ColdNotConsumed, ghostVars
<1>a. ASSUME UNCHANGED inbox PROVE AnswersInv'
  BY <1>a DEF EnrichInv, DrainInv, AnswersInv
<1>s. pc = "sync" => job = None
  BY DEF EnrichInv, DrainInv, JobShape
<1>1. ASSUME NEW c \in Chunks, Arrive(c) \/ Edit(c)
      PROVE  EnrichInv'
  BY <1>1, StoreKeeps
<1>2. CASE EndDrain
  BY <1>2, <1>a, EnrichStays DEF EndDrain, storeVars, queueVars
<1>3. CASE DrainStep
  <2>1. CASE Unlink
    <3>1. /\ job # None /\ job' = [job EXCEPT !.gone = TRUE]
          /\ inbox' = {a \in inbox : a.id # job.id}
          /\ UNCHANGED <<stored, enriched, cold, text, copyOf, pc, read, givenUp, excused>>
      BY <2>1 DEF Unlink, storeVars, ghostVars
    <3>2. DOMAIN job = JobFields
      BY <3>1 DEF EnrichInv, DrainInv, JobShape
    <3>3. DOMAIN job' = JobFields /\ job'.todo = job.todo /\ job'.marks = job.marks
      BY <3>1, <3>2 DEF JobFields
    <3>4. DrainInv'
      BY <3>1, <3>3 DEF EnrichInv, DrainInv, JobShape, AnswersInv, ExtsGiven, MarksInv, Accounted
    <3>5. CopyInv'
      BY <3>1, CopiesStay DEF EnrichInv
    <3> QED BY <3>1, <3>4, <3>5 DEF EnrichInv, MarkedInv, Accounted, ColdNotConsumed
  <2>2. CASE Consume \/ Keep
    BY <1>j, <2>2 DEF Consume, Keep, storeVars, queueVars
  <2> QED BY <1>3, <2>1, <2>2, MarkKeeps, SkipKeeps, ApplyKeeps DEF DrainStep
<1>4. CASE Crash
  <2>1. /\ job' = None /\ excused' = excused \cap enriched
        /\ UNCHANGED <<stored, enriched, cold, text, copyOf, read, givenUp, inbox>>
    BY <1>4 DEF Crash, storeVars, queueVars
  <2>2. CopyInv'
    BY <2>1, CopiesStay DEF EnrichInv
  <2> QED BY <2>1, <2>2 DEF EnrichInv, DrainInv, JobShape, AnswersInv, ExtsGiven, MarksInv,
                            MarkedInv, Accounted, ColdNotConsumed
<1>5. ASSUME NEW n \in 0..Admitted, Prepare(n)
      PROVE  EnrichInv'
  <2>1. PICK gated \in SUBSET {c \in Unenriched \cap Gated :
                                 ThreadOf(c) \in ToSet(SubSeq(Batches, 1, n))} :
          cold' = cold \cup gated
    BY <1>5 DEF Prepare
  <2>2. gated \cap enriched = {}
    BY DEF Unenriched
  <2>3. /\ job' = None
        /\ UNCHANGED <<stored, enriched, text, copyOf, read, givenUp, excused, inbox>>
    BY <1>s, <1>5 DEF Prepare, ghostVars
  <2>4. CopyInv'
    BY <2>3, CopiesStay DEF EnrichInv
  <2> QED BY <2>1, <2>2, <2>3, <2>4 DEF EnrichInv, DrainInv, JobShape, AnswersInv, ExtsGiven,
                                        MarksInv, MarkedInv, Accounted, ColdNotConsumed
<1>6. ASSUME NEW a \in inbox, ReadFile(a)
      PROVE  EnrichInv'
  BY <1>6, ReadFileKeeps
<1>7. ASSUME NEW w \in Workers, Push(w) \/ PushFlawed(w) \/ Die(w)
      PROVE  EnrichInv'
  <2>1. CASE Die(w)
    BY <2>1, <1>a, EnrichStays DEF Die, storeVars, cycleVars
  <2>2. ASSUME NEW a, a \in Flawed(held[w]) \cup {Good(held[w])}, Deliver(w, a)
        PROVE  EnrichInv'
    <3>1. a.exts \subseteq a.given
      BY <2>2 DEF Flawed, Good
    <3>2. AnswersInv'
      BY <2>2, <3>1 DEF Deliver, InboxWith, EnrichInv, DrainInv, AnswersInv
    <3> QED BY <2>2, <3>2, EnrichStays DEF Deliver, storeVars, cycleVars
  <2>3. CASE Push(w)
    BY <2>2, <2>3 DEF Push
  <2>4. CASE PushFlawed(w)
    BY <2>2, <2>4 DEF PushFlawed
  <2> QED BY <1>7, <2>1, <2>3, <2>4
<1>8. ASSUME NEW w \in Workers, NEW id \in Ids, Claim(w, id)
      PROVE  EnrichInv'
  BY <1>8, <1>a, EnrichStays DEF Claim, storeVars, cycleVars
<1>9. ASSUME NEW id \in Ids, Expire(id) \/ ExpireHeld(id)
      PROVE  EnrichInv'
  BY <1>9, <1>a, EnrichStays DEF Expire, ExpireHeld, storeVars, cycleVars
<1>10. CASE UNCHANGED vars
  BY <1>10, <1>a, EnrichStays DEF vars, storeVars, queueVars, cycleVars
<1> QED BY <1>1, <1>2, <1>3, <1>4, <1>5, <1>6, <1>7, <1>8, <1>9, <1>10 DEF Next

(* It holds in every state of every behaviour.                             *)
LEMMA EnrichAlways == Spec => []EnrichInv
BY EnrichInit, EnrichStep, PTL DEF Spec

(* A chunk is marked enriched only if its text, as it is now, was in an    *)
(* extraction that was applied, its own or that of the chunk it is a copy  *)
(* of, or one of the two was given up at the cap, or is one of those that  *)
(* Changed, Rewritten, LeftOut and Joined name: drain.drain, upsert_chunk, *)
(* whatever prepare, the workers and the sync do in between.               *)
THEOREM MarkedChunksWereRead == Spec => []MarkedWasRead
<1>1. EnrichInv => MarkedWasRead
  BY CopiesAccounted DEF EnrichInv
<1> QED BY EnrichAlways, <1>1, PTL

(* A chunk that a gate has set aside is marked only by giving it up        *)
(* (drop_cold), also when the gate closes while an answer is on its way.   *)
THEOREM ColdStaysCold == Spec => []ColdNotConsumed
BY EnrichAlways, PTL DEF EnrichInv
===========================================================================
