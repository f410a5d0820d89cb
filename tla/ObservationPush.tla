-------------------------- MODULE ObservationPush --------------------------
(***************************************************************************)
(* push_observations of app/services/sensorthings_client.py against one    *)
(* target: concurrent push cycles, each of which asks the breaker, looks   *)
(* up datastreams, posts its observations in concurrent CreateObservations *)
(* chunks or, where the target does not support those, one by one with     *)
(* retries, dead-letters what did not get through and tells the breaker.   *)
(*                                                                         *)
(* A reading is a number that gives its place in the batches.  The breaker *)
(* is an environment here (CircuitBreaker models it), and so is the size   *)
(* of the dead-letter file: a reading is dead once it is handed to the     *)
(* file, whose limit and later life are DeadLetterQueue's.                 *)
(***************************************************************************)
EXTENDS Integers, FiniteSets

CONSTANTS
  Cycles,         \* calls of push_observations
  BatchOf,        \* the readings of each call, in the order of the numbers
  Unmapped,       \* readings whose datastream needs a live lookup
  MaxObs,         \* frost_batch_max_observations, 0 for no chunking
  BatchEnabled,   \* frost_batch_push_enabled (and not a v2 target without it)
  MaxAttempts,    \* max_attempts of post_with_retry
  LookupRaises,   \* a live lookup may lose the race for an expired entry
  Unwritable,     \* readings whose dead-letter write may raise an OSError
  Unlocated,      \* readings whose Thing may have no Location on the target
  BatchReplies,   \* the replies a CreateObservations request may get
  SingleReplies   \* the replies a POST of one observation may get

Readings == UNION {BatchOf[c] : c \in Cycles}

(* stored: every entry was created; some_errors: some entries are errors;  *)
(* short: 2xx with fewer entries than observations, or no list at all;     *)
(* unsupported: 400, 404, 405, 501; refused: another permanent 4xx; page:  *)
(* the HTML page of a proxy with such a status; busy: a retryable status;  *)
(* late_commit: the client timed out but the server committed.             *)
BatchReplyKinds  == {"stored", "some_errors", "short", "unsupported",
                     "refused", "busy", "timeout", "late_commit"}
SingleReplyKinds == {"created", "conflict", "refused", "page", "busy",
                     "timeout", "late_commit"}

ASSUME PushAssumption ==
  /\ BatchOf \in [Cycles -> SUBSET Nat]
  /\ \A c \in Cycles : IsFiniteSet(BatchOf[c])
  /\ \A c, d \in Cycles : c # d => BatchOf[c] \intersect BatchOf[d] = {}
  /\ MaxObs \in Nat /\ MaxAttempts \in Nat \ {0}
  /\ BatchEnabled \in BOOLEAN
  /\ LookupRaises \in BOOLEAN
  /\ BatchReplies \subseteq BatchReplyKinds
  /\ SingleReplies \subseteq SingleReplyKinds

RowsMax == 2        \* bound: rows counted for one reading on the server

VARIABLES
  noBatch,      \* the target is in _no_batch_targets
  stage,        \* where each cycle is
  tasks,        \* the readings of the cycle that have a datastream
  chunk,        \* the outcome of each chunk request of the cycle
  todo,         \* the readings still to be pushed on their own
  tries,        \* failed POSTs of a reading that is pushed on its own
  fate,         \* what became of each reading
  verdict,      \* what the cycle told the breaker
  rows,         \* environment: rows the target stores for a reading
  uncertain     \* history: readings of a request that timed out though the
                \* server committed it

vars == <<noBatch, stage, tasks, chunk, todo, tries, fate, verdict,
          rows, uncertain>>

(* A cycle returns (done) or ends by an exception (raised), which leaves   *)
(* the readings that were still to be settled abandoned.                   *)
Stages == {"idle", "resolving", "resolving_open", "skipping", "batching",
           "single", "recording", "done", "raised"}
Fates  == {"fresh", "sent", "dead", "rejected", "unresolved",
           "not_looked_up", "dropped", "abandoned"}

Init ==
  /\ noBatch = FALSE
  /\ stage = [c \in Cycles |-> "idle"]
  /\ tasks = [c \in Cycles |-> {}]
  /\ chunk = [c \in Cycles |-> <<>>]
  /\ todo = [c \in Cycles |-> {}]
  /\ tries = [r \in Readings |-> 0]
  /\ fate = [r \in Readings |-> "fresh"]
  /\ verdict = [c \in Cycles |-> "none"]
  /\ rows = [r \in Readings |-> 0]
  /\ uncertain = {}

-----------------------------------------------------------------------------
(* Slices of MaxObs tasks, in order.                                       *)
ChunkOf(ts, r) ==
  IF MaxObs = 0 THEN 0
                ELSE Cardinality({q \in ts : q < r}) \div MaxObs

ChunkIds(ts)   == {ChunkOf(ts, r) : r \in ts}
InChunk(c, i)  == {r \in tasks[c] : ChunkOf(tasks[c], r) = i}

(* The readings of S get the fate f.                                       *)
Settle(S, f) == [r \in Readings |-> IF r \in S THEN f ELSE fate[r]]

(* _write_failed_observation for each reading of S.  An OSError leaves the *)
(* call with only some of them kept.                                       *)
DeadLetter(S, kept) ==
  /\ S \ kept \subseteq Unwritable
  /\ fate' = [r \in Readings |-> IF r \in kept THEN "dead"
                                 ELSE IF r \in S THEN "abandoned" ELSE fate[r]]

Stored(S) ==
  [r \in Readings |-> IF r \in S /\ rows[r] < RowsMax THEN rows[r] + 1 ELSE rows[r]]

Goto(c, s) == stage' = [stage EXCEPT ![c] = s]

-----------------------------------------------------------------------------
(* The breaker is asked once, before the lookups; other cycles open and    *)
(* close it at any time.                                                   *)
Begin(c, breakerOpen) ==
  /\ stage[c] = "idle"
  /\ Goto(c, IF breakerOpen THEN "resolving_open" ELSE "resolving")
  /\ UNCHANGED <<noBatch, tasks, chunk, todo, tries, fate, verdict,
                 rows, uncertain>>

(* Live lookups may find a datastream or not; none is made while the       *)
(* breaker is open.                                                        *)
Resolve(c) ==
  /\ stage[c] = "resolving"
  /\ \E found \in SUBSET (BatchOf[c] \intersect Unmapped) :
       LET ts == (BatchOf[c] \ Unmapped) \union found IN
       /\ tasks' = [tasks EXCEPT ![c] = ts]
       /\ fate' = Settle(BatchOf[c] \ ts, "unresolved")
       /\ Goto(c, IF ts = {} THEN "done"
                  ELSE IF BatchEnabled /\ ~noBatch THEN "batching" ELSE "single")
       /\ chunk' = [chunk EXCEPT ![c] = [i \in ChunkIds(ts) |-> "waiting"]]
       /\ todo' = [todo EXCEPT ![c] = ts]
  /\ UNCHANGED <<noBatch, tries, verdict, rows, uncertain>>

(* Two threads delete one expired negative entry: the second gets a        *)
(* KeyError, which ends its cycle before anything is posted.               *)
ResolveRaises(c) ==
  /\ stage[c] = "resolving"
  /\ LookupRaises /\ BatchOf[c] \intersect Unmapped # {}
  /\ fate' = Settle(BatchOf[c], "abandoned")
  /\ Goto(c, "raised")
  /\ UNCHANGED <<noBatch, tasks, chunk, todo, tries, verdict, rows,
                 uncertain>>

ResolveOpen(c) ==
  /\ stage[c] = "resolving_open"
  /\ tasks' = [tasks EXCEPT ![c] = BatchOf[c] \ Unmapped]
  /\ fate' = Settle(BatchOf[c] \intersect Unmapped, "not_looked_up")
  /\ Goto(c, "skipping")
  /\ UNCHANGED <<noBatch, chunk, todo, tries, verdict, rows,
                 uncertain>>

(* The dead-letter file, when full, takes none of the readings.            *)
Skip(c) ==
  /\ stage[c] = "skipping"
  /\ \/ fate' = Settle(tasks[c], "dropped") /\ Goto(c, "done")
     \/ \E kept \in SUBSET tasks[c] :
          /\ DeadLetter(tasks[c], kept)
          /\ Goto(c, IF kept = tasks[c] THEN "done" ELSE "raised")
  /\ UNCHANGED <<noBatch, tasks, chunk, todo, tries, verdict, rows,
                 uncertain>>

-----------------------------------------------------------------------------
(* _push_batch_data_array, one pool thread per chunk.                      *)

ChunkBecomes(c, i, s) == chunk' = [chunk EXCEPT ![c][i] = s]

(* A chunk that starts after another request, of this or of another cycle, *)
(* found the extension unsupported is not posted.                          *)
StartChunk(c, i) ==
  /\ stage[c] = "batching" /\ chunk[c][i] = "waiting"
  /\ ChunkBecomes(c, i, IF noBatch THEN "unsupported" ELSE "posting")
  /\ UNCHANGED <<noBatch, stage, tasks, todo, tries, fate,
                 verdict, rows, uncertain>>

ChunkUnsupported(c, i) ==
  /\ stage[c] = "batching" /\ chunk[c][i] = "posting"
  /\ "unsupported" \in BatchReplies
  /\ noBatch' = TRUE
  /\ ChunkBecomes(c, i, "unsupported")
  /\ UNCHANGED <<stage, tasks, todo, tries, fate, verdict,
                 rows, uncertain>>

(* No response, or a retryable status: all of the chunk is dead-lettered.  *)
ChunkFails(c, i, reply) ==
  LET S == InChunk(c, i) IN
  /\ stage[c] = "batching" /\ chunk[c][i] = "posting"
  /\ reply \in BatchReplies \intersect {"busy", "timeout", "late_commit"}
  /\ \E kept \in SUBSET S :
       /\ DeadLetter(S, kept)
       /\ ChunkBecomes(c, i, IF kept = S THEN "done" ELSE "raised")
  /\ rows' = IF reply = "late_commit" THEN Stored(S) ELSE rows
  /\ uncertain' = IF reply = "late_commit" THEN uncertain \union S ELSE uncertain
  /\ UNCHANGED <<noBatch, stage, tasks, todo, tries, verdict>>

ChunkRefused(c, i) ==
  /\ stage[c] = "batching" /\ chunk[c][i] = "posting"
  /\ "refused" \in BatchReplies
  /\ fate' = Settle(InChunk(c, i), "rejected")
  /\ ChunkBecomes(c, i, "done")
  /\ UNCHANGED <<noBatch, stage, tasks, todo, tries, verdict,
                 rows, uncertain>>

(* A 2xx response: the entries that say so are errors, every observation   *)
(* without an entry counts as sent.                                        *)
ChunkAnswered(c, i, reply) ==
  LET S == InChunk(c, i) IN
  /\ stage[c] = "batching" /\ chunk[c][i] = "posting"
  /\ reply \in BatchReplies \intersect {"stored", "some_errors", "short"}
  /\ \E bad \in SUBSET S :
       /\ reply = "stored" => bad = {}
       /\ reply = "some_errors" => bad # {}
       /\ fate' = [r \in Readings |->
            IF r \in bad /\ reply = "some_errors" THEN "rejected"
            ELSE IF r \in S THEN "sent" ELSE fate[r]]
       /\ rows' = Stored(S \ bad)
  /\ ChunkBecomes(c, i, "done")
  /\ UNCHANGED <<noBatch, stage, tasks, todo, tries, verdict,
                 uncertain>>

Unsupported(c) == {i \in DOMAIN chunk[c] : chunk[c][i] = "unsupported"}

(* Fault: one unsupported chunk sends the whole batch again.               *)
FaultFallsBack(c) == Unsupported(c) # {}

FallsBack(c) == Unsupported(c) = DOMAIN chunk[c]

(* Fault: chunks found unsupported midway are forgotten.                   *)
FaultForgotten(c) == {}

Midway(c) == UNION {InChunk(c, i) : i \in Unsupported(c)}

(* Fault: a thread that raised leaves the cycle waiting for its result.    *)
FaultJoined(c) ==
  \A i \in DOMAIN chunk[c] : chunk[c][i] \in {"done", "unsupported"}

Joined(c) ==
  \A i \in DOMAIN chunk[c] : chunk[c][i] \in {"done", "unsupported", "raised"}

AnyRaised(c) == \E i \in DOMAIN chunk[c] : chunk[c][i] = "raised"

(* The cycle has waited for all of its chunks.  An exception of one ends   *)
(* it; if every one was found unsupported it starts over with single       *)
(* POSTs, otherwise those chunks are dead-lettered.                        *)
JoinChunks(c) ==
  /\ stage[c] = "batching" /\ Joined(c)
  /\ \/ /\ AnyRaised(c)
        /\ fate' = Settle(Midway(c), "abandoned")
        /\ Goto(c, "raised")
     \/ /\ ~AnyRaised(c) /\ FallsBack(c)
        /\ Goto(c, "single") /\ UNCHANGED fate
     \/ /\ ~AnyRaised(c) /\ ~FallsBack(c)
        /\ \E kept \in SUBSET Midway(c) :
             /\ DeadLetter(Midway(c), kept)
             /\ Goto(c, IF kept = Midway(c) THEN "recording" ELSE "raised")
  /\ UNCHANGED <<noBatch, tasks, chunk, todo, tries, verdict, rows,
                 uncertain>>

-----------------------------------------------------------------------------
(* _push_single_observation and post_with_retry, one pool thread each.     *)

Pending(c, r) == stage[c] = "single" /\ r \in todo[c]

Answered(c, r) == todo' = [todo EXCEPT ![c] = @ \ {r}]

LastAttempt(r) == tries[r] + 1 >= MaxAttempts

Transient == {"busy", "timeout", "late_commit"}

(* A transient failure is retried, after the last attempt dead-lettered.   *)
SingleFails(c, r, reply) ==
  /\ Pending(c, r)
  /\ reply \in SingleReplies \intersect Transient
  /\ tries' = [tries EXCEPT ![r] = @ + 1]
  /\ IF LastAttempt(r)
       THEN (\E kept \in SUBSET {r} : DeadLetter({r}, kept)) /\ Answered(c, r)
       ELSE UNCHANGED <<fate, todo>>
  /\ rows' = IF reply = "late_commit" THEN Stored({r}) ELSE rows
  /\ uncertain' = IF reply = "late_commit" THEN uncertain \union {r} ELSE uncertain
  /\ UNCHANGED <<noBatch, stage, tasks, chunk, verdict>>

(* 2xx and 409, which a Thing without a Location gets too, deliver; a 4xx  *)
(* with an HTML body is a proxy talking, the observation is dead-lettered; *)
(* any other 4xx drops it.                                                 *)
SingleAnswered(c, r, reply) ==
  /\ Pending(c, r)
  /\ reply \in SingleReplies \ Transient
  /\ reply = "conflict" => rows[r] > 0 \/ r \in Unlocated
  /\ CASE reply = "page"    -> \E kept \in SUBSET {r} : DeadLetter({r}, kept)
       [] reply = "refused" -> fate' = Settle({r}, "rejected")
       [] OTHER             -> fate' = Settle({r}, "sent")
  /\ rows' = IF reply = "created" THEN Stored({r}) ELSE rows
  /\ Answered(c, r)
  /\ UNCHANGED <<noBatch, stage, tasks, chunk, tries, verdict,
                 uncertain>>

(* All threads are back; the exception of one ends the cycle.              *)
JoinSingles(c) ==
  /\ stage[c] = "single"
  /\ todo[c] = {}
  /\ Goto(c, IF \E r \in tasks[c] : fate[r] = "abandoned" THEN "raised"
                                                         ELSE "recording")
  /\ UNCHANGED <<noBatch, tasks, chunk, todo, tries, fate, verdict,
                 rows, uncertain>>

-----------------------------------------------------------------------------
(* Fault: the cycle succeeds only if everything was sent.                  *)
FaultSomeSent(c) == \A r \in tasks[c] : fate[r] = "sent"

SomeSent(c) == \E r \in tasks[c] : fate[r] = "sent"

(* A cycle in which nothing got through is a failure of the target.        *)
Record(c) ==
  /\ stage[c] = "recording"
  /\ verdict' = [verdict EXCEPT ![c] =
                   IF SomeSent(c) THEN "success" ELSE "failure"]
  /\ Goto(c, "done")
  /\ UNCHANGED <<noBatch, tasks, chunk, todo, tries, fate, rows,
                 uncertain>>

ChunkStep(c, i) ==
  \/ StartChunk(c, i)
  \/ ChunkUnsupported(c, i)
  \/ \E reply \in BatchReplies : ChunkFails(c, i, reply)
  \/ ChunkRefused(c, i)
  \/ \E reply \in BatchReplies : ChunkAnswered(c, i, reply)

SingleStep(c, r) ==
  \/ \E reply \in SingleReplies : SingleFails(c, r, reply)
  \/ \E reply \in SingleReplies : SingleAnswered(c, r, reply)

CycleStep(c) ==
  \/ \E breakerOpen \in BOOLEAN : Begin(c, breakerOpen)
  \/ Resolve(c)
  \/ ResolveRaises(c)
  \/ ResolveOpen(c)
  \/ Skip(c)
  \/ \E i \in DOMAIN chunk[c] : ChunkStep(c, i)
  \/ JoinChunks(c)
  \/ \E r \in tasks[c] : SingleStep(c, r)
  \/ JoinSingles(c)
  \/ Record(c)

Next == \E c \in Cycles : CycleStep(c)

Spec == Init /\ [][Next]_vars

(* Every request has a timeout and the pool threads keep running.          *)
FairSpec == Spec /\ \A c \in Cycles : WF_vars(CycleStep(c))

-----------------------------------------------------------------------------
ChunkStates == {"waiting", "posting", "unsupported", "done", "raised"}

TypeOK ==
  /\ noBatch \in BOOLEAN
  /\ stage \in [Cycles -> Stages]
  /\ tasks \in [Cycles -> SUBSET Readings]
  /\ \A c \in Cycles : /\ tasks[c] \subseteq BatchOf[c]
                       /\ chunk[c] \in [DOMAIN chunk[c] -> ChunkStates]
  /\ todo \in [Cycles -> SUBSET Readings]
  /\ tries \in [Readings -> 0 .. MaxAttempts]
  /\ fate \in [Readings -> Fates]
  /\ verdict \in [Cycles -> {"none", "success", "failure"}]
  /\ rows \in [Readings -> 0 .. RowsMax]
  /\ uncertain \subseteq Readings

(* Abstractly the cycles deliver: each reading is settled once, and a      *)
(* cycle returns with all of its readings settled, the chunks found        *)
(* unsupported half-way included; only a cycle that raises leaves some.    *)
OutcomeOf(f) == CASE f \in {"fresh", "abandoned"} -> "pending"
                  [] f = "sent" -> "delivered"
                  [] f = "dead" -> "dead_lettered"
                  [] OTHER      -> "given_up"

Abstract ==
  INSTANCE Delivery WITH
         outcome  <- [r \in Readings |-> OutcomeOf(fate[r])],
         returned <- {c \in Cycles : stage[c] = "done"},
         raised   <- {c \in Cycles : stage[c] = "raised"}

Delivers == Abstract!Spec

(* The fallback from chunks to single POSTs never posts an observation     *)
(* twice: two rows of one reading, or a stored reading waiting for replay, *)
(* only come from a request that timed out at the client but not at the    *)
(* server.                                                                 *)
NoSecondCopy ==
  \A r \in Readings :
    rows[r] > 1 \/ (rows[r] > 0 /\ fate[r] = "dead") => r \in uncertain

(* A cycle is counted against the target only if the target took nothing   *)
(* of it (that a client could know of).                                    *)
FailureTookNothing ==
  \A c \in Cycles : verdict[c] = "failure" =>
    \A r \in tasks[c] : rows[r] = 0 \/ r \in uncertain

(* Every cycle comes to an end, whatever the target answers, also when one *)
(* of its pool threads raised while others were still posting.             *)
CyclesEnd ==
  \A c \in Cycles : stage[c] # "idle" ~> stage[c] \in {"done", "raised"}

-----------------------------------------------------------------------------
(* circuit_breaker.py, module docstring: "Readings for an open target are  *)
(* written straight to the dead-letter queue".  A cycle that found the     *)
(* breaker open drops none of its readings for want of a lookup.           *)
OpenTargetDeadLetters ==
  \A r \in Readings : fate[r] # "not_looked_up"
=============================================================================
