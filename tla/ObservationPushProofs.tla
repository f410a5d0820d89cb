----------------------- MODULE ObservationPushProofs -----------------------
(***************************************************************************)
(* Proofs about ObservationPush for every set of cycles, batches, chunk    *)
(* size and number of attempts: type correctness, and that the push cycles *)
(* implement Delivery.                                                     *)
(***************************************************************************)
EXTENDS ObservationPush, SequenceTheorems, TLAPS

(* chunk is a function on the cycles; TypeOK only types its values.        *)
ChunkIsFunction == chunk = [c \in Cycles |-> chunk[c]]

(* A reading that was not settled can still be posted.                     *)
AttemptsLeft == \A r \in Readings : fate[r] = "fresh" => tries[r] < MaxAttempts

TypeInv == TypeOK /\ ChunkIsFunction /\ AttemptsLeft

(* Before the lookups nothing is settled.                                  *)
Untouched(c) ==
  stage[c] \in {"idle", "resolving", "resolving_open"} =>
    \A r \in BatchOf[c] : fate[r] = "fresh"

(* What has no datastream is settled by the lookups, the tasks are not.    *)
TasksWait(c) ==
  stage[c] = "skipping" =>
    \A r \in BatchOf[c] : fate[r] = "fresh" <=> r \in tasks[c]

(* Of the tasks those wait whose chunk has neither come back nor raised.   *)
Back == {"done", "raised"}

ChunksWait(c) ==
  stage[c] = "batching" =>
    /\ DOMAIN chunk[c] = ChunkIds(tasks[c])
    /\ todo[c] = tasks[c]
    /\ \A r \in BatchOf[c] :
         fate[r] = "fresh" <=>
           r \in tasks[c] /\ chunk[c][ChunkOf(tasks[c], r)] \notin Back

(* Of the tasks those wait that are still to be posted on their own.       *)
TodoWaits(c) ==
  stage[c] = "single" =>
    \A r \in BatchOf[c] : fate[r] = "fresh" <=> r \in todo[c]

(* A cycle that gives its verdict, or has returned, has settled them all.  *)
AllSettled(c) ==
  stage[c] \in {"recording", "done"} =>
    \A r \in BatchOf[c] : fate[r] # "fresh"

(* An exception has been at work: the cycle is over by it, or a chunk or a *)
(* single POST is back with it.                                            *)
Excepted(c) ==
  \A r \in BatchOf[c] : fate[r] = "abandoned" =>
    \/ stage[c] = "raised"
    \/ /\ stage[c] = "batching" /\ r \in tasks[c]
       /\ chunk[c][ChunkOf(tasks[c], r)] = "raised"
    \/ stage[c] = "single" /\ r \in tasks[c]

CycleInv(c) == /\ Untouched(c) /\ TasksWait(c) /\ ChunksWait(c)
               /\ TodoWaits(c) /\ AllSettled(c) /\ Excepted(c)

Inv == TypeInv /\ \A c \in Cycles : CycleInv(c)

-----------------------------------------------------------------------------
(* What a step of cycle c may do: it touches only the cycle's own state,   *)
(* settles only readings of its own batch that wait, and none once the     *)
(* cycle is over.                                                          *)
OnlyOf(c) ==
  /\ stage[c] \notin {"done", "raised"}
  /\ \A d \in Cycles \ {c} :
       /\ stage'[d] = stage[d] /\ tasks'[d] = tasks[d]
       /\ chunk'[d] = chunk[d] /\ todo'[d] = todo[d]
  /\ \A r \in Readings :
       \/ fate'[r] = fate[r]
       \/ r \in BatchOf[c] /\ fate[r] = "fresh" /\ fate'[r] # "fresh"

(* A step of c that keeps to OnlyOf and leaves c itself in order.          *)
GoodStep(c) == TypeInv' /\ OnlyOf(c) /\ CycleInv(c)'

LEMMA BatchesInReadings ==
  \A c \in Cycles : BatchOf[c] \subseteq Readings
  BY DEF Readings

LEMMA StoredType ==
  ASSUME TypeOK, NEW S
  PROVE  Stored(S) \in [Readings -> 0 .. RowsMax]
  BY DEF TypeOK, Stored, RowsMax

LEMMA SettleType ==
  ASSUME TypeOK, NEW S, NEW f \in Fates
  PROVE  Settle(S, f) \in [Readings -> Fates]
  BY DEF TypeOK, Settle

LEMMA BeginGood ==
  ASSUME Inv, NEW c \in Cycles, NEW breakerOpen \in BOOLEAN, Begin(c, breakerOpen)
  PROVE  GoodStep(c)
<1>1. TypeInv'
  BY DEF Inv, TypeInv, TypeOK, ChunkIsFunction, AttemptsLeft, Begin, Goto, Stages
<1>2. OnlyOf(c)
  BY DEF Inv, TypeInv, TypeOK, OnlyOf, Begin, Goto
<1>3. CycleInv(c)'
  BY DEF Inv, TypeInv, TypeOK, CycleInv, Untouched, TasksWait, ChunksWait,
         TodoWaits, AllSettled, Excepted, Begin, Goto
<1>4. QED BY <1>1, <1>2, <1>3 DEF GoodStep

LEMMA ResolveGood ==
  ASSUME Inv, NEW c \in Cycles, Resolve(c)
  PROVE  GoodStep(c)
<1> DEFINE ts(found) == (BatchOf[c] \ Unmapped) \union found
<1>1. PICK found \in SUBSET (BatchOf[c] \intersect Unmapped) :
        /\ tasks' = [tasks EXCEPT ![c] = ts(found)]
        /\ fate' = Settle(BatchOf[c] \ ts(found), "unresolved")
        /\ Goto(c, IF ts(found) = {} THEN "done"
                   ELSE IF BatchEnabled /\ ~noBatch THEN "batching" ELSE "single")
        /\ chunk' = [chunk EXCEPT ![c] = [i \in ChunkIds(ts(found)) |-> "waiting"]]
        /\ todo' = [todo EXCEPT ![c] = ts(found)]
  BY DEF Resolve
<1>2. ts(found) \subseteq BatchOf[c] /\ ts(found) \subseteq Readings
  BY BatchesInReadings
<1> HIDE DEF ts
<1>3. \A r \in BatchOf[c] : r \in Readings /\ fate[r] = "fresh"
  BY BatchesInReadings DEF Inv, CycleInv, Untouched, Resolve
<1>4. fate' \in [Readings -> Fates]
  BY <1>1, SettleType DEF Inv, TypeInv, Fates
<1>5. TypeInv'
  <2>1. TypeOK'
    BY <1>1, <1>2, <1>4
    DEF Inv, TypeInv, TypeOK, ChunkIsFunction, ChunkStates, Resolve, Goto, Stages
  <2>2. ChunkIsFunction' /\ AttemptsLeft'
    BY <1>1, <1>2, <1>3
    DEF Inv, TypeInv, TypeOK, ChunkIsFunction, AttemptsLeft, Resolve, Settle
  <2>3. QED BY <2>1, <2>2 DEF TypeInv
<1>6. OnlyOf(c)
  BY <1>1, <1>2, <1>3
  DEF Inv, TypeInv, TypeOK, ChunkIsFunction, OnlyOf, Resolve, Goto, Settle
<1>7. \A r \in BatchOf[c] : fate'[r] = "fresh" <=> r \in ts(found)
  BY <1>1, <1>2, <1>3 DEF Settle
<1>8. chunk'[c] = [i \in ChunkIds(ts(found)) |-> "waiting"]
  BY <1>1 DEF Inv, TypeInv, ChunkIsFunction
<1>9. \A r \in ts(found) : chunk'[c][ChunkOf(ts(found), r)] = "waiting"
  BY <1>8 DEF ChunkIds
<1>10. /\ stage'[c] \in {"done", "batching", "single"}
       /\ stage'[c] = "done" => ts(found) = {}
       /\ tasks'[c] = ts(found) /\ todo'[c] = ts(found)
  BY <1>1 DEF Inv, TypeInv, TypeOK, Goto
<1>11. /\ DOMAIN chunk'[c] = ChunkIds(tasks'[c])
       /\ \A r \in BatchOf[c] : fate'[r] = "fresh" <=>
            r \in tasks'[c] /\ chunk'[c][ChunkOf(tasks'[c], r)] \notin Back
  BY <1>7, <1>8, <1>9, <1>10 DEF Back
<1>12. CycleInv(c)'
  <2>1. \A r \in BatchOf[c] : fate'[r] # "abandoned"
    BY <1>1, <1>3 DEF Settle
  <2>2. QED BY <2>1, <1>7, <1>10, <1>11
  DEF CycleInv, Untouched, TasksWait, ChunksWait, TodoWaits, AllSettled, Excepted
<1>13. QED BY <1>5, <1>6, <1>12 DEF GoodStep

LEMMA ResolveRaisesGood ==
  ASSUME Inv, NEW c \in Cycles, ResolveRaises(c)
  PROVE  GoodStep(c)
<1>1. \A r \in BatchOf[c] : r \in Readings /\ fate[r] = "fresh"
  BY BatchesInReadings DEF Inv, CycleInv, Untouched, ResolveRaises
<1>2. fate' \in [Readings -> Fates]
  BY SettleType DEF Inv, TypeInv, Fates, ResolveRaises
<1>3. TypeInv'
  BY <1>1, <1>2
  DEF Inv, TypeInv, TypeOK, ChunkIsFunction, AttemptsLeft, ResolveRaises, Goto, Stages,
      Settle
<1>4. OnlyOf(c)
  BY <1>1 DEF Inv, TypeInv, TypeOK, OnlyOf, ResolveRaises, Goto, Settle
<1>5. CycleInv(c)'
  BY <1>1
  DEF Inv, TypeInv, TypeOK, CycleInv, Untouched, TasksWait, ChunksWait, TodoWaits,
      AllSettled, Excepted, ResolveRaises, Goto, Settle
<1>6. QED BY <1>3, <1>4, <1>5 DEF GoodStep

LEMMA ResolveOpenGood ==
  ASSUME Inv, NEW c \in Cycles, ResolveOpen(c)
  PROVE  GoodStep(c)
<1>1. \A r \in BatchOf[c] : r \in Readings /\ fate[r] = "fresh"
  BY BatchesInReadings DEF Inv, CycleInv, Untouched, ResolveOpen
<1>2. fate' \in [Readings -> Fates]
  BY SettleType DEF Inv, TypeInv, Fates, ResolveOpen
<1>3. TypeInv'
  BY <1>1, <1>2
  DEF Inv, TypeInv, TypeOK, ChunkIsFunction, AttemptsLeft, ResolveOpen, Goto, Stages,
      Settle
<1>4. OnlyOf(c)
  BY <1>1 DEF Inv, TypeInv, TypeOK, OnlyOf, ResolveOpen, Goto, Settle
<1>5. CycleInv(c)'
  BY <1>1
  DEF Inv, TypeInv, TypeOK, CycleInv, Untouched, TasksWait, ChunksWait, TodoWaits,
      AllSettled, Excepted, ResolveOpen, Goto, Settle
<1>6. QED BY <1>3, <1>4, <1>5 DEF GoodStep

LEMMA DeadLetterType ==
  ASSUME TypeOK, NEW S, NEW kept, DeadLetter(S, kept)
  PROVE  fate' \in [Readings -> Fates]
  BY DEF TypeOK, DeadLetter, Fates

LEMMA SkipGood ==
  ASSUME Inv, NEW c \in Cycles, Skip(c)
  PROVE  GoodStep(c)
<1>1. \A r \in BatchOf[c] : /\ r \in Readings /\ fate[r] # "abandoned"
                            /\ fate[r] = "fresh" <=> r \in tasks[c]
  BY BatchesInReadings DEF Inv, CycleInv, TasksWait, Excepted, Skip
<1>2. tasks[c] \subseteq BatchOf[c]
  BY DEF Inv, TypeInv, TypeOK
<1> DEFINE ends(s) ==
      /\ Goto(c, s)
      /\ fate' \in [Readings -> Fates]
      /\ \A r \in Readings : /\ r \notin tasks[c] => fate'[r] = fate[r]
                             /\ r \in tasks[c] => fate'[r] # "fresh"
                             /\ r \in tasks[c] /\ s = "done" => fate'[r] # "abandoned"
<1>3. PICK s \in {"done", "raised"} : ends(s)
  <2>1. CASE fate' = Settle(tasks[c], "dropped") /\ Goto(c, "done")
    <3>1. fate' \in [Readings -> Fates]
      BY <2>1, SettleType DEF Inv, TypeInv, Fates
    <3>2. ends("done")
      BY <2>1, <3>1 DEF Settle
    <3>3. QED BY <3>2
  <2>2. ASSUME NEW kept \in SUBSET tasks[c], DeadLetter(tasks[c], kept),
               Goto(c, IF kept = tasks[c] THEN "done" ELSE "raised")
        PROVE  \E s \in {"done", "raised"} : ends(s)
    <3>1. fate' \in [Readings -> Fates]
      BY <2>2, DeadLetterType DEF Inv, TypeInv
    <3>2. CASE kept = tasks[c]
      <4>1. ends("done")
        BY <2>2, <3>1, <3>2 DEF DeadLetter
      <4>2. QED BY <4>1
    <3>3. CASE kept # tasks[c]
      <4>1. ends("raised")
        BY <2>2, <3>1, <3>3 DEF DeadLetter
      <4>2. QED BY <4>1
    <3>4. QED BY <3>2, <3>3
  <2>3. QED BY <2>1, <2>2 DEF Skip
<1>4. TypeInv'
  BY <1>1, <1>2, <1>3
  DEF Inv, TypeInv, TypeOK, ChunkIsFunction, AttemptsLeft, Skip, Goto, Stages
<1>5. OnlyOf(c)
  BY <1>1, <1>2, <1>3 DEF Inv, TypeInv, TypeOK, OnlyOf, Skip, Goto
<1>6. CycleInv(c)'
  BY <1>1, <1>3
  DEF Inv, TypeInv, TypeOK, CycleInv, Untouched, TasksWait, ChunksWait, TodoWaits,
      AllSettled, Excepted, Skip, Goto
<1>7. QED BY <1>4, <1>5, <1>6 DEF GoodStep

LEMMA JoinSinglesGood ==
  ASSUME Inv, NEW c \in Cycles, JoinSingles(c)
  PROVE  GoodStep(c)
<1>1. TypeInv'
  BY DEF Inv, TypeInv, TypeOK, ChunkIsFunction, AttemptsLeft, JoinSingles, Goto, Stages
<1>2. OnlyOf(c)
  BY DEF Inv, TypeInv, TypeOK, OnlyOf, JoinSingles, Goto
<1>3. CycleInv(c)'
  BY DEF Inv, TypeInv, TypeOK, CycleInv, Untouched, TasksWait, ChunksWait,
         TodoWaits, AllSettled, Excepted, JoinSingles, Goto
<1>4. QED BY <1>1, <1>2, <1>3 DEF GoodStep

LEMMA RecordGood ==
  ASSUME Inv, NEW c \in Cycles, Record(c)
  PROVE  GoodStep(c)
<1>1. TypeInv'
  BY DEF Inv, TypeInv, TypeOK, ChunkIsFunction, AttemptsLeft, Record, Goto, Stages
<1>2. OnlyOf(c)
  BY DEF Inv, TypeInv, TypeOK, OnlyOf, Record, Goto
<1>3. CycleInv(c)'
  BY DEF Inv, TypeInv, TypeOK, CycleInv, Untouched, TasksWait, ChunksWait,
         TodoWaits, AllSettled, Excepted, Record, Goto
<1>4. QED BY <1>1, <1>2, <1>3 DEF GoodStep

-----------------------------------------------------------------------------
(* A chunk request of c: what is its own to settle, and the fate of that.  *)

LEMMA PostingIsFresh ==
  ASSUME Inv, NEW c \in Cycles, NEW i \in DOMAIN chunk[c], stage[c] = "batching",
         chunk[c][i] \notin Back
  PROVE  \A r \in InChunk(c, i) : r \in BatchOf[c] /\ r \in Readings /\ fate[r] = "fresh"
  BY BatchesInReadings DEF Inv, TypeInv, TypeOK, CycleInv, ChunksWait, InChunk

(* The ways a chunk moves on: nothing is settled, or it is back and        *)
(* exactly its readings are settled or, if it raised, abandoned.           *)
LEMMA ChunkMoves ==
  ASSUME Inv, NEW c \in Cycles, NEW i \in DOMAIN chunk[c], stage[c] = "batching",
         chunk[c][i] \notin Back,
         NEW s \in ChunkStates, ChunkBecomes(c, i, s),
         fate' \in [Readings -> Fates],
         s \notin Back => fate' = fate,
         s \in Back => \A r \in Readings :
                         /\ r \in InChunk(c, i) => fate'[r] # "fresh"
                         /\ r \in InChunk(c, i) /\ s = "done" => fate'[r] # "abandoned"
                         /\ r \notin InChunk(c, i) => fate'[r] = fate[r],
         UNCHANGED <<stage, tasks, todo, tries>>,
         noBatch' \in BOOLEAN, rows' \in [Readings -> 0 .. RowsMax],
         uncertain' \subseteq Readings, UNCHANGED verdict
  PROVE  GoodStep(c)
<1>1. /\ chunk' = [chunk EXCEPT ![c] = chunk'[c]]
      /\ chunk'[c] = [chunk[c] EXCEPT ![i] = s]
  BY DEF Inv, TypeInv, ChunkIsFunction, ChunkBecomes
<1>2. /\ DOMAIN chunk'[c] = DOMAIN chunk[c]
      /\ chunk'[c][i] = s
      /\ \A j \in DOMAIN chunk[c] : j # i => chunk'[c][j] = chunk[c][j]
      /\ \A d \in Cycles : d # c => chunk'[d] = chunk[d]
      /\ chunk'[c] \in [DOMAIN chunk'[c] -> ChunkStates]
      /\ chunk' = [d \in Cycles |-> chunk'[d]]
  BY <1>1 DEF Inv, TypeInv, TypeOK, ChunkIsFunction
<1>3. TypeInv'
  <2>1. TypeOK'
    BY <1>2 DEF Inv, TypeInv, TypeOK
  <2>2. AttemptsLeft'
    BY PostingIsFresh DEF Inv, TypeInv, AttemptsLeft
  <2>3. QED BY <1>2, <2>1, <2>2 DEF TypeInv, ChunkIsFunction
<1>4. OnlyOf(c)
  BY <1>2, PostingIsFresh DEF OnlyOf
<1>5. \A r \in BatchOf[c] : fate[r] = "fresh" <=>
        r \in tasks[c] /\ chunk[c][ChunkOf(tasks[c], r)] \notin Back
  BY DEF Inv, CycleInv, ChunksWait
<1>6. \A r \in tasks[c] : ChunkOf(tasks[c], r) \in DOMAIN chunk[c]
  BY DEF Inv, CycleInv, ChunksWait, ChunkIds
<1>7. \A r \in BatchOf[c] : fate'[r] = "fresh" <=>
        r \in tasks[c] /\ chunk'[c][ChunkOf(tasks[c], r)] \notin Back
  <2>1. SUFFICES ASSUME NEW r \in BatchOf[c]
                 PROVE  fate'[r] = "fresh" <=>
                          r \in tasks[c] /\ chunk'[c][ChunkOf(tasks[c], r)] \notin Back
    OBVIOUS
  <2>2. r \in Readings
    BY BatchesInReadings
  <2>3. CASE r \in InChunk(c, i)
    BY <1>2, <1>5, <2>2, <2>3 DEF InChunk
  <2>4. CASE r \notin InChunk(c, i)
    BY <1>2, <1>5, <1>6, <2>2, <2>4 DEF InChunk
  <2>5. QED BY <2>3, <2>4
<1>8. /\ stage'[c] = "batching"
      /\ DOMAIN chunk'[c] = ChunkIds(tasks'[c])
      /\ todo'[c] = tasks'[c]
      /\ \A r \in BatchOf[c] : fate'[r] = "fresh" <=>
            r \in tasks'[c] /\ chunk'[c][ChunkOf(tasks'[c], r)] \notin Back
  BY <1>2, <1>7 DEF Inv, CycleInv, ChunksWait
<1>9. \A r \in BatchOf[c] : fate'[r] = "abandoned" =>
        r \in tasks'[c] /\ chunk'[c][ChunkOf(tasks'[c], r)] = "raised"
  <2>1. SUFFICES ASSUME NEW r \in BatchOf[c], fate'[r] = "abandoned"
                 PROVE  r \in tasks[c] /\ chunk'[c][ChunkOf(tasks[c], r)] = "raised"
    OBVIOUS
  <2>2. r \in Readings
    BY BatchesInReadings
  <2>3. CASE r \in InChunk(c, i) /\ s \in Back
    BY <1>2, <2>1, <2>2, <2>3 DEF InChunk, Back
  <2>4. CASE r \notin InChunk(c, i) \/ s \notin Back
    <3>1. fate[r] = "abandoned"
      BY <2>1, <2>2, <2>4
    <3>2. r \in tasks[c] /\ chunk[c][ChunkOf(tasks[c], r)] = "raised"
      BY <3>1 DEF Inv, CycleInv, Excepted
    <3>3. ChunkOf(tasks[c], r) # i
      BY <3>2 DEF Back
    <3>4. QED BY <1>2, <1>6, <3>2, <3>3
  <2>5. QED BY <2>3, <2>4
<1>10. CycleInv(c)'
  BY <1>8, <1>9 DEF CycleInv, Untouched, TasksWait, ChunksWait, TodoWaits, AllSettled, Excepted
<1>11. QED BY <1>3, <1>4, <1>10 DEF GoodStep

LEMMA ChunkGood ==
  ASSUME Inv, NEW c \in Cycles, NEW i \in DOMAIN chunk[c], ChunkStep(c, i)
  PROVE  GoodStep(c)
<1> USE DEF ChunkStates, Back
<1>0. TypeOK /\ fate \in [Readings -> Fates] /\ noBatch \in BOOLEAN
      /\ rows \in [Readings -> 0 .. RowsMax] /\ uncertain \subseteq Readings
  BY DEF Inv, TypeInv, TypeOK
<1>1. CASE StartChunk(c, i)
  <2>1. ChunkBecomes(c, i, "unsupported") \/ ChunkBecomes(c, i, "posting")
    BY <1>1 DEF StartChunk
  <2>2. QED BY <1>0, <1>1, <2>1, ChunkMoves DEF StartChunk
<1>2. CASE ChunkUnsupported(c, i)
  BY <1>0, <1>2, ChunkMoves DEF ChunkUnsupported
<1>3. ASSUME NEW reply \in BatchReplies, ChunkFails(c, i, reply)
      PROVE  GoodStep(c)
  <2>1. PICK kept \in SUBSET InChunk(c, i) :
          /\ DeadLetter(InChunk(c, i), kept)
          /\ ChunkBecomes(c, i, IF kept = InChunk(c, i) THEN "done" ELSE "raised")
    BY <1>3 DEF ChunkFails
  <2>2. fate' \in [Readings -> Fates]
    BY <1>0, <2>1, DeadLetterType
  <2>3. \A r \in Readings : /\ r \in InChunk(c, i) => fate'[r] # "fresh"
                            /\ r \notin InChunk(c, i) => fate'[r] = fate[r]
                            /\ r \in kept => fate'[r] # "abandoned"
    BY <2>1 DEF DeadLetter
  <2>4. rows' \in [Readings -> 0 .. RowsMax] /\ uncertain' \subseteq Readings
    BY <1>0, <1>3, StoredType, PostingIsFresh DEF ChunkFails
  <2>5. PICK s \in {"done", "raised"} : /\ ChunkBecomes(c, i, s)
                                        /\ s = "done" => kept = InChunk(c, i)
    BY <2>1
  <2>6. QED BY <1>0, <1>3, <2>2, <2>3, <2>4, <2>5, ChunkMoves DEF ChunkFails
<1>4. CASE ChunkRefused(c, i)
  <2>1. fate' \in [Readings -> Fates]
    BY <1>0, <1>4, SettleType DEF ChunkRefused, Fates
  <2>2. \A r \in Readings :
          /\ r \in InChunk(c, i) => fate'[r] # "fresh" /\ fate'[r] # "abandoned"
          /\ r \notin InChunk(c, i) => fate'[r] = fate[r]
    BY <1>4 DEF ChunkRefused, Settle
  <2>3. QED BY <1>0, <1>4, <2>1, <2>2, ChunkMoves DEF ChunkRefused
<1>5. ASSUME NEW reply \in BatchReplies, ChunkAnswered(c, i, reply)
      PROVE  GoodStep(c)
  <2>1. PICK bad \in SUBSET InChunk(c, i) :
          /\ fate' = [r \in Readings |->
               IF r \in bad /\ reply = "some_errors" THEN "rejected"
               ELSE IF r \in InChunk(c, i) THEN "sent" ELSE fate[r]]
          /\ rows' = Stored(InChunk(c, i) \ bad)
    BY <1>5 DEF ChunkAnswered
  <2>2. fate' \in [Readings -> Fates]
    BY <1>0, <2>1 DEF Fates
  <2>3. \A r \in Readings :
          /\ r \in InChunk(c, i) => fate'[r] # "fresh" /\ fate'[r] # "abandoned"
          /\ r \notin InChunk(c, i) => fate'[r] = fate[r]
    BY <2>1
  <2>4. rows' \in [Readings -> 0 .. RowsMax]
    BY <1>0, <2>1, StoredType
  <2>5. QED BY <1>0, <1>5, <2>2, <2>3, <2>4, ChunkMoves DEF ChunkAnswered
<1>6. QED BY <1>1, <1>2, <1>3, <1>4, <1>5 DEF ChunkStep

(* Where every chunk was found unsupported nothing of the cycle was posted *)
(* and its tasks are the ones to post; otherwise what was found            *)
(* unsupported half-way is settled here, or abandoned if the cycle raises. *)
LEMMA JoinChunksGood ==
  ASSUME Inv, NEW c \in Cycles, JoinChunks(c)
  PROVE  GoodStep(c)
<1>1. /\ DOMAIN chunk[c] = ChunkIds(tasks[c])
      /\ todo[c] = tasks[c]
      /\ \A r \in BatchOf[c] : fate[r] = "fresh" <=>
            r \in tasks[c] /\ chunk[c][ChunkOf(tasks[c], r)] \notin Back
      /\ \A r \in BatchOf[c] : fate[r] = "abandoned" =>
            r \in tasks[c] /\ chunk[c][ChunkOf(tasks[c], r)] = "raised"
  BY DEF Inv, CycleInv, ChunksWait, Excepted, JoinChunks
<1>2. \A r \in tasks[c] : /\ r \in BatchOf[c] /\ r \in Readings
                          /\ ChunkOf(tasks[c], r) \in DOMAIN chunk[c]
  BY <1>1, BatchesInReadings DEF ChunkIds, Inv, TypeInv, TypeOK
<1>3. \A r \in BatchOf[c] : fate[r] = "fresh" <=> r \in Midway(c)
  <2>1. \A r \in Midway(c) : r \in tasks[c] /\ fate[r] = "fresh"
    BY <1>1, <1>2 DEF Midway, InChunk, Unsupported, Back
  <2>2. \A r \in BatchOf[c] : fate[r] = "fresh" => r \in Midway(c)
    BY <1>1, <1>2 DEF Midway, InChunk, Unsupported, JoinChunks, Joined, Back
  <2>3. QED BY <2>1, <2>2
<1>4. \A r \in Midway(c) : r \in BatchOf[c] /\ r \in Readings
  BY <1>2 DEF Midway, InChunk
<1>5. ~AnyRaised(c) => \A r \in BatchOf[c] : fate[r] # "abandoned"
  BY <1>1, <1>2 DEF AnyRaised
<1>6. CASE ~AnyRaised(c) /\ FallsBack(c)
  <2>1. stage' = [stage EXCEPT ![c] = "single"] /\ fate' = fate
    BY <1>6 DEF JoinChunks, Goto
  <2>2. TypeInv'
    BY <2>1 DEF Inv, TypeInv, TypeOK, ChunkIsFunction, AttemptsLeft, JoinChunks, Stages
  <2>3. OnlyOf(c)
    BY <2>1 DEF Inv, TypeInv, TypeOK, OnlyOf, JoinChunks
  <2>4. \A r \in BatchOf[c] : fate[r] = "fresh" <=> r \in todo[c]
    BY <1>1, <1>2, <1>6 DEF FallsBack, Unsupported, Back
  <2>5. CycleInv(c)'
    BY <1>5, <1>6, <2>1, <2>4
    DEF Inv, TypeInv, TypeOK, CycleInv, Untouched, TasksWait, ChunksWait, TodoWaits,
        AllSettled, Excepted, JoinChunks
  <2>6. QED BY <2>2, <2>3, <2>5 DEF GoodStep
<1>7. CASE AnyRaised(c) \/ ~FallsBack(c)
  <2> DEFINE ends(s) ==
        /\ stage' = [stage EXCEPT ![c] = s]
        /\ fate' \in [Readings -> Fates]
        /\ s = "recording" => ~AnyRaised(c)
        /\ \A r \in Readings :
             /\ r \notin Midway(c) => fate'[r] = fate[r]
             /\ r \in Midway(c) => fate'[r] # "fresh"
             /\ r \in Midway(c) /\ s = "recording" => fate'[r] # "abandoned"
  <2>1. PICK s \in {"recording", "raised"} : ends(s)
    <3>1. CASE fate' = Settle(Midway(c), "abandoned") /\ Goto(c, "raised")
      <4>1. fate' \in [Readings -> Fates]
        BY <3>1, SettleType DEF Inv, TypeInv, Fates
      <4>2. ends("raised")
        BY <3>1, <4>1 DEF Settle, Goto
      <4>3. QED BY <4>2
    <3>2. ASSUME ~AnyRaised(c), NEW kept \in SUBSET Midway(c), DeadLetter(Midway(c), kept),
                 Goto(c, IF kept = Midway(c) THEN "recording" ELSE "raised")
          PROVE  \E s \in {"recording", "raised"} : ends(s)
      <4>1. fate' \in [Readings -> Fates]
        BY <3>2, DeadLetterType DEF Inv, TypeInv
      <4>2. CASE kept = Midway(c)
        <5>1. ends("recording")
          BY <3>2, <4>1, <4>2 DEF DeadLetter, Goto
        <5>2. QED BY <5>1
      <4>3. CASE kept # Midway(c)
        <5>1. ends("raised")
          BY <3>2, <4>1, <4>3 DEF DeadLetter, Goto
        <5>2. QED BY <5>1
      <4>4. QED BY <4>2, <4>3
    <3>3. QED BY <1>7, <3>1, <3>2 DEF JoinChunks
  <2>2. TypeInv'
    BY <1>3, <1>4, <2>1
    DEF Inv, TypeInv, TypeOK, ChunkIsFunction, AttemptsLeft, JoinChunks, Stages
  <2>3. OnlyOf(c)
    BY <1>3, <1>4, <2>1 DEF Inv, TypeInv, TypeOK, OnlyOf, JoinChunks
  <2>4. \A r \in BatchOf[c] : /\ fate'[r] # "fresh"
                              /\ s = "recording" => fate'[r] # "abandoned"
    BY <1>3, <1>5, <2>1, BatchesInReadings
  <2>5. stage'[c] = s
    BY <2>1 DEF Inv, TypeInv, TypeOK
  <2>6. CycleInv(c)'
    BY <2>4, <2>5
    DEF CycleInv, Untouched, TasksWait, ChunksWait, TodoWaits, AllSettled, Excepted
  <2>7. QED BY <2>2, <2>3, <2>6 DEF GoodStep
<1>8. QED BY <1>6, <1>7

-----------------------------------------------------------------------------
(* A single POST settles the observation it answers and takes it off the   *)
(* list in the same step; a retry leaves both alone and an attempt spare.  *)
LEMMA SingleGood ==
  ASSUME Inv, NEW c \in Cycles, NEW r \in tasks[c], SingleStep(c, r)
  PROVE  GoodStep(c)
<1>1. TypeOK /\ stage[c] = "single" /\ r \in todo[c]
  BY DEF Inv, TypeInv, SingleStep, SingleFails, SingleAnswered, Pending
<1>2. r \in BatchOf[c] /\ r \in Readings /\ fate[r] = "fresh"
  BY <1>1, BatchesInReadings DEF Inv, TypeInv, TypeOK, CycleInv, TodoWaits
<1>3. tries[r] \in Nat /\ tries[r] < MaxAttempts /\ MaxAttempts \in Nat
  BY <1>2, PushAssumption DEF Inv, TypeInv, TypeOK, AttemptsLeft
<1> DEFINE settled == /\ fate' \in [Readings -> Fates] /\ fate'[r] # "fresh"
                      /\ \A q \in Readings : q # r => fate'[q] = fate[q]
                      /\ todo' = [todo EXCEPT ![c] = @ \ {r}]
           again   == fate' = fate /\ todo' = todo /\ tries[r] + 1 < MaxAttempts
<1>4. /\ settled \/ again
      /\ UNCHANGED <<noBatch, stage, tasks, chunk, verdict>>
      /\ tries' = tries \/ tries' = [tries EXCEPT ![r] = @ + 1]
      /\ rows' \in [Readings -> 0 .. RowsMax]
      /\ uncertain' \subseteq Readings
  <2>1. ASSUME NEW reply \in SingleReplies, SingleFails(c, r, reply)
        PROVE  <1>4!:
    <3>1. CASE LastAttempt(r)
      <4>1. PICK kept \in SUBSET {r} : DeadLetter({r}, kept) /\ Answered(c, r)
        BY <2>1, <3>1 DEF SingleFails
      <4>2. settled
        BY <4>1, <1>1, <1>2, DeadLetterType DEF DeadLetter, Answered
      <4>3. QED BY <4>2, <2>1, <1>1, <1>2, StoredType DEF SingleFails, TypeOK
    <3>2. CASE ~LastAttempt(r)
      <4>1. again
        BY <2>1, <3>2, <1>3 DEF SingleFails, LastAttempt
      <4>2. QED BY <4>1, <2>1, <1>1, <1>2, StoredType DEF SingleFails, TypeOK
    <3>3. QED BY <3>1, <3>2
  <2>2. ASSUME NEW reply \in SingleReplies, SingleAnswered(c, r, reply)
        PROVE  <1>4!:
    <3>1. \/ \E kept \in SUBSET {r} : DeadLetter({r}, kept)
          \/ \E f \in {"rejected", "sent"} : fate' = Settle({r}, f)
      BY <2>2 DEF SingleAnswered
    <3>2. settled
      <4>1. fate' \in [Readings -> Fates]
        BY <3>1, <1>1, SettleType, DeadLetterType DEF Fates
      <4>2. fate'[r] # "fresh" /\ \A q \in Readings : q # r => fate'[q] = fate[q]
        BY <3>1, <1>2 DEF Settle, DeadLetter
      <4>3. QED BY <4>1, <4>2, <2>2 DEF SingleAnswered, Answered
    <3>3. QED BY <3>2, <2>2, <1>1, StoredType DEF SingleAnswered, TypeOK
  <2>3. QED BY <2>1, <2>2 DEF SingleStep
<1> HIDE DEF settled, again
<1>5. TypeInv'
  <2>1. TypeOK'
    BY <1>1, <1>2, <1>3, <1>4 DEF TypeOK, settled, again
  <2>2. AttemptsLeft'
    BY <1>1, <1>2, <1>3, <1>4 DEF Inv, TypeInv, TypeOK, AttemptsLeft, settled, again
  <2>3. QED BY <1>4, <2>1, <2>2 DEF Inv, TypeInv, ChunkIsFunction
<1>6. OnlyOf(c)
  BY <1>1, <1>2, <1>4 DEF TypeOK, OnlyOf, settled, again
<1>7. \A q \in BatchOf[c] : fate'[q] = "fresh" <=> q \in todo'[c]
  BY <1>1, <1>2, <1>4, BatchesInReadings
  DEF Inv, TypeOK, CycleInv, TodoWaits, settled, again
<1>8. \A q \in BatchOf[c] : fate'[q] = "abandoned" => q \in tasks[c]
  BY <1>1, <1>2, <1>4, BatchesInReadings
  DEF Inv, CycleInv, Excepted, settled, again
<1>9. CycleInv(c)'
  BY <1>1, <1>4, <1>7, <1>8
  DEF CycleInv, Untouched, TasksWait, ChunksWait, TodoWaits, AllSettled, Excepted
<1>10. QED BY <1>5, <1>6, <1>9 DEF GoodStep

LEMMA CycleStepGood ==
  ASSUME Inv, NEW c \in Cycles, CycleStep(c)
  PROVE  GoodStep(c)
  BY BeginGood, ResolveGood, ResolveRaisesGood, ResolveOpenGood, SkipGood, ChunkGood, JoinChunksGood,
     SingleGood, JoinSinglesGood, RecordGood DEF CycleStep

-----------------------------------------------------------------------------
(* What a step of one cycle leaves of another: all of it, since batches    *)
(* share no reading.                                                       *)
LEMMA OthersKept ==
  ASSUME Inv, NEW c \in Cycles, OnlyOf(c), NEW d \in Cycles, d # c
  PROVE  CycleInv(d)'
<1>1. \A r \in BatchOf[d] : fate'[r] = fate[r]
  BY PushAssumption, BatchesInReadings DEF OnlyOf
<1>2. /\ stage'[d] = stage[d] /\ tasks'[d] = tasks[d]
      /\ chunk'[d] = chunk[d] /\ todo'[d] = todo[d]
  BY DEF OnlyOf
<1>3. CycleInv(d)
  BY DEF Inv
<1>4. QED
  BY <1>1, <1>2, <1>3
  DEF CycleInv, Untouched, TasksWait, ChunksWait, TodoWaits, AllSettled, Excepted

LEMMA StutterKeepsInv ==
  ASSUME Inv, UNCHANGED vars
  PROVE  Inv'
<1>1. TypeInv'
  BY DEF Inv, TypeInv, TypeOK, ChunkIsFunction, AttemptsLeft, vars
<1>2. ASSUME NEW c \in Cycles PROVE CycleInv(c)'
  BY DEF vars, Inv, CycleInv, Untouched, TasksWait, ChunksWait, TodoWaits, AllSettled,
         Excepted
<1>3. QED BY <1>1, <1>2 DEF Inv

LEMMA InitInv ==
  ASSUME Init
  PROVE  Inv
<1>1. TypeInv
  <2>1. \A c \in Cycles : chunk[c] = <<>>
    BY DEF Init
  <2>2. <<>> \in [DOMAIN <<>> -> ChunkStates]
    <3>1. <<>> \in Seq(ChunkStates) /\ Len(<<>>) = 0
      OBVIOUS
    <3>2. <<>> \in [1 .. Len(<<>>) -> ChunkStates]
      BY <3>1, LenProperties
    <3>3. QED BY <3>2
  <2>3. \A c \in Cycles : /\ tasks[c] \subseteq BatchOf[c]
                          /\ chunk[c] \in [DOMAIN chunk[c] -> ChunkStates]
    BY <2>1, <2>2 DEF Init
  <2>4. 0 \in 0 .. MaxAttempts /\ 0 \in 0 .. RowsMax
    BY PushAssumption DEF RowsMax
  <2>5. TypeOK
    BY <2>3, <2>4 DEF Init, TypeOK, Stages, Fates
  <2>6. QED BY <2>5, PushAssumption DEF Init, TypeInv, ChunkIsFunction, AttemptsLeft
<1>2. \A c \in Cycles : CycleInv(c)
  BY BatchesInReadings
  DEF Init, CycleInv, Untouched, TasksWait, ChunksWait, TodoWaits, AllSettled, Excepted
<1>3. QED BY <1>1, <1>2 DEF Inv

LEMMA NextKeepsInv ==
  ASSUME Inv, [Next]_vars
  PROVE  Inv'
<1>1. ASSUME NEW c \in Cycles, CycleStep(c)
      PROVE  Inv'
  <2>1. TypeInv' /\ OnlyOf(c) /\ CycleInv(c)'
    BY <1>1, CycleStepGood DEF GoodStep
  <2>2. \A d \in Cycles : CycleInv(d)'
    BY <2>1, OthersKept
  <2>3. QED BY <2>1, <2>2 DEF Inv
<1>2. QED BY <1>1, StutterKeepsInv DEF Next

LEMMA Invariant == Spec => []Inv
  BY InitInv, NextKeepsInv, PTL DEF Spec

(* Every variable keeps its type: in particular no reading is posted on    *)
(* its own more than max_attempts times, and a cycle posts only readings   *)
(* of its own batch.                                                       *)
THEOREM TypeCorrect == Spec => []TypeOK
<1>1. Inv => TypeOK
  BY DEF Inv, TypeInv
<1>2. QED BY <1>1, Invariant, PTL

-----------------------------------------------------------------------------
(* The step of a cycle, seen abstractly: fresh readings of its batch get   *)
(* an outcome, and if it returns none of them is left without.             *)
LEMMA StepDelivers ==
  ASSUME Inv, [Next]_vars
  PROVE  [Abstract!Next]_(Abstract!vars)
<1>1. CASE UNCHANGED vars
  BY <1>1 DEF vars, Abstract!vars
<1>2. ASSUME NEW c \in Cycles, CycleStep(c)
      PROVE  Abstract!Next
  <2>1. OnlyOf(c) /\ Inv' /\ CycleInv(c)'
    BY <1>2, CycleStepGood, NextKeepsInv DEF GoodStep, Next
  <2>2. Abstract!Settle
    <3>1. /\ fate \in [Readings -> Fates] /\ fate' \in [Readings -> Fates]
          /\ \A r \in Readings : fate'[r] = fate[r] \/ fate[r] = "fresh"
      BY <2>1 DEF OnlyOf, Inv, TypeInv, TypeOK
    <3>2. \A d \in Cycles : stage[d] \in {"done", "raised"} =>
            \A r \in BatchOf[d] : fate'[r] = fate[r]
      BY <2>1, PushAssumption, BatchesInReadings DEF OnlyOf
    <3>3. QED BY <3>1, <3>2, BatchesInReadings
              DEF Abstract!Settle, Abstract!Readings, Abstract!Settled, Abstract!Over,
                  Readings, OutcomeOf, Fates
  <2>3. CASE stage'[c] = "done"
    <3>1. \A r \in BatchOf[c] : fate'[r] \notin {"fresh", "abandoned"}
      BY <2>1, <2>3 DEF CycleInv, AllSettled, Excepted
    <3>2. Abstract!Return(c)
      BY <2>1, <2>3, <3>1, BatchesInReadings
      DEF OnlyOf, Abstract!Return, Abstract!Over, OutcomeOf, Readings
    <3>3. QED BY <2>2, <3>2 DEF Abstract!Next
  <2>4. CASE stage'[c] = "raised"
    <3>1. Abstract!Raise(c)
      BY <2>1, <2>4 DEF OnlyOf, Abstract!Raise, Abstract!Over
    <3>2. QED BY <2>2, <3>1 DEF Abstract!Next
  <2>5. CASE stage'[c] \notin {"done", "raised"}
    <3>1. \A s \in {"done", "raised"} :
            {d \in Cycles : stage'[d] = s} = {d \in Cycles : stage[d] = s}
      BY <2>1, <2>5 DEF OnlyOf
    <3>2. QED BY <2>2, <3>1 DEF Abstract!Next
  <2>6. QED BY <2>3, <2>4, <2>5
<1>3. QED BY <1>1, <1>2 DEF Next

(* push_observations keeps Delivery's promise for every number of cycles,  *)
(* any batches, chunk size and number of attempts: a reading is settled    *)
(* once and for all, and no cycle returns with one of its readings neither *)
(* delivered, nor dead-lettered, nor given up; a cycle that raises may.    *)
THEOREM ImplementsDelivery == Spec => Delivers
<1>1. Init => Abstract!Init
  BY DEF Init, Abstract!Init, Abstract!Readings, Readings, OutcomeOf
<1>2. QED
  BY <1>1, StepDelivers, Invariant, PTL DEF Spec, Delivers, Abstract!Spec

-----------------------------------------------------------------------------
(* Rows and verdicts.  A row of a reading that does not count as sent, or  *)
(* a second one, comes from a request whose answer was lost.               *)
RowsKnown ==
  \A r \in Readings :
    (rows[r] > 0 /\ fate[r] # "sent") \/ rows[r] > 1 => r \in uncertain

(* A cycle that told of a failure is over and got nothing through.         *)
FailureIsFinal ==
  \A c \in Cycles : verdict[c] = "failure" =>
    stage[c] = "done" /\ \A r \in tasks[c] : fate[r] # "sent"

CopyInv == Inv /\ RowsKnown /\ FailureIsFinal

(* What a step may do to the rows of a reading: none, the one of a reading *)
(* it sends, or any under a lost answer.                                   *)
RowsStep ==
  /\ uncertain \subseteq uncertain'
  /\ \A r \in Readings :
       \/ r \in uncertain'
       \/ rows'[r] = rows[r] /\ (fate'[r] = fate[r] \/ fate[r] = "fresh")
       \/ rows'[r] <= rows[r] + 1 /\ fate[r] = "fresh" /\ fate'[r] = "sent"

LEMMA StoredAddsOne ==
  ASSUME TypeOK, NEW S, NEW r \in Readings
  PROVE  /\ Stored(S)[r] <= rows[r] + 1
         /\ r \notin S => Stored(S)[r] = rows[r]
  BY DEF TypeOK, Stored, RowsMax

LEMMA ChunkRows ==
  ASSUME Inv, NEW c \in Cycles, NEW i \in DOMAIN chunk[c], ChunkStep(c, i)
  PROVE  RowsStep
<1>0. TypeOK
  BY DEF Inv, TypeInv
<1>1. stage[c] = "batching" /\ chunk[c][i] \notin Back
  BY DEF Back, ChunkStep, StartChunk, ChunkUnsupported, ChunkFails, ChunkRefused,
         ChunkAnswered
<1>2. \A r \in InChunk(c, i) : r \in Readings /\ fate[r] = "fresh"
  BY <1>1, PostingIsFresh
<1>3. CASE StartChunk(c, i) \/ ChunkUnsupported(c, i)
  BY <1>3 DEF StartChunk, ChunkUnsupported, RowsStep
<1>4. ASSUME NEW reply \in BatchReplies, ChunkFails(c, i, reply)
      PROVE  RowsStep
  <2>1. CASE reply = "late_commit"
    BY <1>0, <1>4, <2>1, StoredAddsOne
    DEF ChunkFails, DeadLetter, Settle, RowsStep
  <2>2. CASE reply # "late_commit"
    BY <1>2, <1>4, <2>2 DEF ChunkFails, DeadLetter, Settle, RowsStep
  <2>3. QED BY <2>1, <2>2
<1>5. CASE ChunkRefused(c, i)
  BY <1>2, <1>5 DEF ChunkRefused, Settle, RowsStep
<1>6. ASSUME NEW reply \in BatchReplies, ChunkAnswered(c, i, reply)
      PROVE  RowsStep
  <2>1. PICK bad \in SUBSET InChunk(c, i) :
          /\ fate' = [r \in Readings |->
               IF r \in bad /\ reply = "some_errors" THEN "rejected"
               ELSE IF r \in InChunk(c, i) THEN "sent" ELSE fate[r]]
          /\ rows' = Stored(InChunk(c, i) \ bad)
    BY <1>6 DEF ChunkAnswered
  <2>2. uncertain' = uncertain
    BY <1>6 DEF ChunkAnswered
  <2>3. QED BY <1>0, <1>2, <2>1, <2>2, StoredAddsOne DEF RowsStep
<1>7. QED BY <1>3, <1>4, <1>5, <1>6 DEF ChunkStep

LEMMA SingleRows ==
  ASSUME Inv, NEW c \in Cycles, NEW r \in tasks[c], SingleStep(c, r)
  PROVE  RowsStep
<1>0. TypeOK
  BY DEF Inv, TypeInv
<1>1. r \in Readings /\ fate[r] = "fresh"
  BY <1>0, BatchesInReadings
  DEF Inv, TypeOK, CycleInv, TodoWaits, SingleStep, SingleFails, SingleAnswered, Pending
<1>2. ASSUME NEW reply \in SingleReplies, SingleFails(c, r, reply)
      PROVE  RowsStep
  <2>1. \A q \in Readings : q # r => fate'[q] = fate[q]
    BY <1>2 DEF SingleFails, DeadLetter, Settle
  <2>2. CASE reply = "late_commit"
    BY <1>0, <1>2, <2>1, <2>2, StoredAddsOne DEF SingleFails, RowsStep
  <2>3. CASE reply # "late_commit"
    BY <1>1, <1>2, <2>1, <2>3 DEF SingleFails, RowsStep
  <2>4. QED BY <2>2, <2>3
<1>3. ASSUME NEW reply \in SingleReplies, SingleAnswered(c, r, reply)
      PROVE  RowsStep
  <2>1. uncertain' = uncertain
    BY <1>3 DEF SingleAnswered
  <2>2. \A q \in Readings : q # r => fate'[q] = fate[q]
    BY <1>3 DEF SingleAnswered, DeadLetter, Settle
  <2>3. CASE reply = "created"
    <3>1. fate'[r] = "sent" /\ rows' = Stored({r})
      BY <1>1, <1>3, <2>3 DEF SingleAnswered, Settle
    <3>2. QED BY <1>0, <1>1, <2>1, <2>2, <3>1, StoredAddsOne DEF RowsStep
  <2>4. CASE reply # "created"
    BY <1>1, <1>3, <2>1, <2>2, <2>4 DEF SingleAnswered, RowsStep
  <2>5. QED BY <2>3, <2>4
<1>4. QED BY <1>2, <1>3 DEF SingleStep

LEMMA OtherRows ==
  ASSUME Inv, NEW c \in Cycles,
         \/ \E breakerOpen \in BOOLEAN : Begin(c, breakerOpen)
         \/ Resolve(c) \/ ResolveRaises(c) \/ ResolveOpen(c) \/ Skip(c)
         \/ JoinChunks(c) \/ JoinSingles(c) \/ Record(c)
  PROVE  RowsStep
<1>1. UNCHANGED <<rows, uncertain>>
  BY DEF Begin, Resolve, ResolveRaises, ResolveOpen, Skip, JoinChunks, JoinSingles, Record
<1>2. OnlyOf(c)
  BY CycleStepGood DEF CycleStep, GoodStep
<1>3. QED BY <1>1, <1>2 DEF OnlyOf, RowsStep

LEMMA RowsKept ==
  ASSUME CopyInv, RowsStep, TypeOK'
  PROVE  RowsKnown'
  BY DEF CopyInv, Inv, TypeInv, TypeOK, RowsKnown, RowsStep, RowsMax

(* Only Record tells the breaker, and it does so once nothing is open.     *)
LEMMA FailureKept ==
  ASSUME CopyInv, NEW c \in Cycles, CycleStep(c)
  PROVE  FailureIsFinal'
<1>1. OnlyOf(c) /\ TypeOK /\ TypeOK'
  BY CycleStepGood DEF CopyInv, Inv, TypeInv, GoodStep
<1>2. SUFFICES ASSUME NEW d \in Cycles, verdict'[d] = "failure"
               PROVE  stage'[d] = "done" /\ \A r \in tasks'[d] : fate'[r] # "sent"
  BY DEF FailureIsFinal
<1>3. CASE verdict[d] = "failure"
  <2>1. stage[d] = "done" /\ \A r \in tasks[d] : fate[r] # "sent"
    BY <1>3 DEF CopyInv, FailureIsFinal
  <2>2. d # c
    BY <1>1, <2>1 DEF OnlyOf
  <2>3. \A r \in BatchOf[d] : r \in Readings /\ fate[r] # "fresh"
    BY <2>1, BatchesInReadings DEF CopyInv, Inv, CycleInv, AllSettled
  <2>4. tasks[d] \subseteq BatchOf[d]
    BY <1>1 DEF TypeOK
  <2>5. QED BY <1>1, <2>1, <2>2, <2>3, <2>4 DEF OnlyOf
<1>4. CASE verdict[d] # "failure"
  <2>1. Record(c)
    BY <1>2, <1>4
    DEF CycleStep, Begin, Resolve, ResolveRaises, ResolveOpen, Skip, ChunkStep, StartChunk,
        ChunkUnsupported, ChunkFails, ChunkRefused, ChunkAnswered, JoinChunks,
        SingleStep, SingleFails, SingleAnswered, JoinSingles
  <2>2. d = c /\ ~SomeSent(c)
    BY <1>1, <1>2, <1>4, <2>1 DEF Record, TypeOK
  <2>3. QED BY <1>1, <2>1, <2>2 DEF Record, Goto, SomeSent, TypeOK
<1>5. QED BY <1>3, <1>4

LEMMA CopyInvariant == Spec => []CopyInv
<1>1. Init => CopyInv
  <2>1. Init => Inv
    BY InitInv
  <2>2. Init => RowsKnown /\ FailureIsFinal
    BY DEF Init, RowsKnown, FailureIsFinal
  <2>3. QED BY <2>1, <2>2 DEF CopyInv
<1>2. ASSUME CopyInv, [Next]_vars
      PROVE  CopyInv'
  <2>1. Inv' /\ TypeOK'
    BY <1>2, NextKeepsInv DEF CopyInv, Inv, TypeInv
  <2>2. CASE UNCHANGED vars
    BY <1>2, <2>1, <2>2 DEF CopyInv, RowsKnown, FailureIsFinal, vars
  <2>3. ASSUME NEW c \in Cycles, CycleStep(c)
        PROVE  RowsKnown' /\ FailureIsFinal'
    <3>1. RowsStep
      BY <1>2, <2>3, ChunkRows, SingleRows, OtherRows DEF CopyInv, CycleStep
    <3>2. QED BY <1>2, <2>1, <2>3, <3>1, RowsKept, FailureKept
  <2>4. QED BY <1>2, <2>1, <2>2, <2>3 DEF CopyInv, Next
<1>3. QED BY <1>1, <1>2, PTL DEF Spec

(* Whatever the cycles and however chunks, fallback, retries and late      *)
(* answers interleave, no observation is on the target twice, or both on   *)
(* it and in the dead-letter file, unless a request of it was committed by *)
(* the target after push_observations had given up on its answer.          *)
THEOREM NoSecondCopyHolds == Spec => []NoSecondCopy
<1>1. CopyInv => NoSecondCopy
  BY DEF CopyInv, RowsKnown, NoSecondCopy
<1>2. QED BY <1>1, CopyInvariant, PTL

(* record_failure is called only for a cycle of which the target stored    *)
(* nothing, as far as its answers told.                                    *)
THEOREM FailureTookNothingHolds == Spec => []FailureTookNothing
<1>1. CopyInv => FailureTookNothing
  <2>1. SUFFICES ASSUME CopyInv, NEW c \in Cycles, verdict[c] = "failure",
                        NEW r \in tasks[c]
                 PROVE  rows[r] = 0 \/ r \in uncertain
    BY DEF FailureTookNothing
  <2>2. r \in Readings /\ rows[r] \in Nat
    BY <2>1, BatchesInReadings DEF CopyInv, Inv, TypeInv, TypeOK, RowsMax
  <2>3. fate[r] # "sent"
    BY <2>1 DEF CopyInv, FailureIsFinal
  <2>4. QED BY <2>1, <2>2, <2>3 DEF CopyInv, RowsKnown
<1>2. QED BY <1>1, CopyInvariant, PTL
=============================================================================
