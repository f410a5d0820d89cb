---------------------------- MODULE KafkaIngest ----------------------------
(***************************************************************************)
(* The Kafka ingest loop of app/main.py over the consumer of               *)
(* app/services/kafka_tgv_consumer.py: connect, skip to latest on request, *)
(* consume a batch, forward it, hand it to the push worker or push it      *)
(* inline, commit, watch for a stall; tear the consumer down on an error.  *)
(*                                                                         *)
(* The topic has one partition, its messages are their offsets.  The       *)
(* broker, the consumer group and the client library are external, taken   *)
(* from how the code configures and calls them.                            *)
(***************************************************************************)
EXTENDS Integers

CONSTANTS
  MaxOffset,      \* bound: messages produced
  BatchMax,       \* kafka_tgv_batch_max_messages
  Bad,            \* messages whose deserialization raises SerializationError
  Poison,         \* messages whose deserialization raises anything else: an
                  \* unknown schema id, a truncated body
  AsyncPush,      \* frost_async_push_enabled
  AutoSkip,       \* kafka_auto_skip_on_lag, with some messages late
  GroupAtStart    \* committed offsets the group may have at the start

None == -1

ASSUME IngestAssumption ==
  /\ MaxOffset \in Nat /\ BatchMax \in Nat \ {0} /\ GroupAtStart \subseteq {None, 0}
  /\ AsyncPush \in BOOLEAN /\ AutoSkip \in BOOLEAN
  /\ Bad \intersect Poison = {}

Offsets == 0 .. MaxOffset - 1

VARIABLES
  high,        \* environment: the high watermark
  group,       \* environment: the committed offset of the group
  calm,        \* environment: broker, group, disk and process are well
  consumer,    \* the loop holds a consumer
  pos,         \* its fetch position, None before an assignment
  fenced,      \* the group has given its partition away
  inflight,    \* the offset of an asynchronous commit not yet answered
  at,          \* where the loop is
  batch,       \* the messages of the cycle
  skip,        \* the event _kafka_skip_to_latest
  fate,        \* what became of each message
  first,       \* history: the offset of the group's first assignment
  missed       \* history: later messages below a position, never read

vars == <<high, group, calm, consumer, pos, fenced, inflight, at, batch, skip,
          fate, first, missed>>

kafka   == <<high, group, calm, inflight, fenced>>
history == <<first, missed>>

Init ==
  /\ high = 0 /\ group \in GroupAtStart /\ calm = TRUE
  /\ consumer = FALSE /\ pos = None /\ fenced = FALSE /\ inflight = None
  /\ at = "top" /\ batch = {}
  /\ skip = FALSE
  /\ fate = [o \in Offsets |-> "unread"]
  /\ first = group /\ missed = {}

-----------------------------------------------------------------------------
(* Where an assignment starts: at the committed offset, without one at the *)
(* end of the topic (auto.offset.reset is latest).                         *)
StartOf  == IF group = None THEN high ELSE group
Position == IF pos = None \/ fenced THEN StartOf ELSE pos

Unread(S) == {o \in S : fate[o] = "unread"}
Below(p)  == {o \in Offsets : o < p}

(* An assignment at p leaves behind what was never read below it.          *)
Assigned(p) ==
  /\ first' = IF first = None THEN p ELSE first
  /\ missed' = IF first = None THEN missed
               ELSE missed \union {o \in Unread(Below(p)) : o >= first}

Mark(S, f) == fate' = [o \in Offsets |-> IF o \in S THEN f ELSE fate[o]]

(* connect().                                                              *)
Connect ==
  /\ at = "top" /\ ~consumer
  /\ consumer' = TRUE /\ pos' = None /\ fenced' = FALSE
  /\ at' = "ready"
  /\ UNCHANGED <<high, group, calm, inflight, batch, skip, fate,
                 history>>

ConnectFails ==
  /\ at = "top" /\ ~consumer /\ ~calm
  /\ at' = "failed"
  /\ UNCHANGED <<kafka, consumer, pos, batch, skip, fate, history>>

Continue ==
  /\ at = "top" /\ consumer
  /\ at' = "ready"
  /\ UNCHANGED <<kafka, consumer, pos, batch, skip, fate, history>>

-----------------------------------------------------------------------------
(* seek_to_end_and_commit(), then the flag is cleared.                     *)

(* Fault: the end offsets are not committed for the group.                 *)
FaultSkipUncommitted == group' = group

CommitEnd == group' = high

(* The commit is synchronous and for the high watermark even where seek()  *)
(* raised and was only logged.                                             *)
SkipToEnd ==
  /\ at = "ready" /\ skip /\ ~fenced /\ calm
  /\ \E raised \in BOOLEAN :
       /\ pos' = IF raised THEN Position ELSE high
       /\ Mark(Unread({o \in Offsets : Position <= o /\ o < high}),
               IF raised THEN "half_skipped" ELSE "skipped")
  /\ CommitEnd
  /\ inflight' = None
  /\ Assigned(Position)
  /\ at' = "clearing"
  /\ UNCHANGED <<high, calm, fenced, consumer, batch, skip>>

(* No partition was assigned in time: nothing is zero is returned.  *)
SkipUnassigned ==
  /\ at = "ready" /\ skip /\ pos = None /\ ~calm
  /\ at' = "clearing"
  /\ UNCHANGED <<kafka, consumer, pos, batch, skip, fate, history>>

SkipRaises ==
  /\ at = "ready" /\ skip /\ (fenced \/ ~calm)
  /\ at' = "failed"
  /\ UNCHANGED <<kafka, consumer, pos, batch, skip, fate, history>>

ClearSkip ==
  /\ at = "clearing"
  /\ skip' = FALSE
  /\ at' = "consuming"
  /\ UNCHANGED <<kafka, consumer, pos, batch, fate, history>>

-----------------------------------------------------------------------------
(* consume_batch().                                                        *)
Consuming == at = "consuming" \/ (at = "ready" /\ ~skip)

Read(n) == {o \in Offsets : Position <= o /\ o < Position + n}

Readable(S) == S \ Bad

(* Only SerializationError is caught around a message.                     *)
Decodes(S) == S \intersect Poison = {}

(* Messages that raise SerializationError are skipped; with nothing left   *)
(* there is no push and no commit.                                         *)
ConsumeSome(n) ==
  /\ Consuming /\ calm
  /\ n <= BatchMax /\ Position + n <= high
  /\ Decodes(Read(n))
  /\ batch' = Readable(Read(n))
  /\ Mark(Read(n) \intersect Bad, "unreadable")
  /\ Assigned(Position)
  /\ pos' = Position + n /\ fenced' = FALSE
  /\ at' = IF batch' = {} THEN "watching" ELSE "forwarding"
  /\ UNCHANGED <<high, group, calm, inflight, consumer, skip>>

ConsumeNothing ==
  /\ Consuming /\ calm /\ Position = high
  /\ Assigned(Position)
  /\ pos' = Position /\ fenced' = FALSE
  /\ at' = "watching"
  /\ UNCHANGED <<high, group, calm, inflight, consumer, batch, skip,
                 fate>>

(* The timeout passes without a message or an assignment.                  *)
ConsumeTimesOut ==
  /\ Consuming /\ ~calm
  /\ at' = "watching"
  /\ UNCHANGED <<kafka, consumer, pos, batch, skip, fate, history>>

(* An error among the messages raises, though others were read before it;  *)
(* so does a poisonous message, each time it is read.                      *)
ConsumeRaises(n) ==
  /\ Consuming /\ (~calm \/ ~Decodes(Read(n)))
  /\ n <= BatchMax /\ Position + n <= high
  /\ Assigned(Position)
  /\ pos' = Position + n /\ fenced' = FALSE
  /\ at' = "failed"
  /\ UNCHANGED <<high, group, calm, inflight, consumer, batch, skip,
                 fate>>

-----------------------------------------------------------------------------
(* The rest of _consume_and_push_once().                                   *)

(* The monitoring module first, whatever happens to the push.              *)
Forward ==
  /\ at = "forwarding"
  /\ at' = "pushing"
  /\ UNCHANGED <<kafka, consumer, pos, batch, skip, fate, history>>

(* enqueue() returned True.                                                *)
HandOver ==
  /\ at = "pushing" /\ AsyncPush
  /\ Mark({o \in batch : fate[o] # "pushed"}, "queued")
  /\ at' = "committing"
  /\ UNCHANGED <<kafka, consumer, pos, batch, skip, history>>

(* The coupled path, and the fallback when the worker's queue stays full.  *)
PushInline ==
  /\ at = "pushing"
  /\ Mark(batch, "pushed")
  /\ at' = "committing"
  /\ UNCHANGED <<kafka, consumer, pos, batch, skip, history>>

PushRaises ==
  /\ at = "pushing" /\ ~calm
  /\ at' = "failed"
  /\ UNCHANGED <<kafka, consumer, pos, batch, skip, fate, history>>

(* Fault: the end of the topic is committed instead of the position.       *)
FaultCommitsEnd == high

CommitOffset == pos

(* commit() sends the position and does not wait; then the lag guard may   *)
(* set the flag for the next cycle.                                        *)
Commit ==
  /\ at = "committing"
  /\ inflight' = CommitOffset
  /\ \E lagging \in BOOLEAN : /\ lagging => AutoSkip
                              /\ skip' = (skip \/ lagging)
  /\ batch' = {}
  /\ at' = "top"
  /\ UNCHANGED <<high, group, calm, fenced, consumer, pos, fate,
                 history>>

CommitRaises ==
  /\ at = "committing" /\ (fenced \/ ~calm)
  /\ at' = "failed"
  /\ UNCHANGED <<kafka, consumer, pos, batch, skip, fate, history>>

-----------------------------------------------------------------------------
(* Closing the consumer settles a commit under way, one way or the other,  *)
(* and commits nothing by itself.                                          *)
SettleCommit ==
  /\ group' \in {group} \union ({inflight} \ {None})
  /\ inflight' = None

(* Fault: the consumer is kept after an error.                             *)
FaultKeepsConsumer == UNCHANGED <<group, inflight, consumer, pos, fenced>>

DropConsumer ==
  /\ SettleCommit
  /\ consumer' = FALSE /\ pos' = None /\ fenced' = FALSE

(* A silence longer than the stall threshold: the backlog has been read,   *)
(* or the broker is not well.  (Unreadable messages count as silence; a    *)
(* stretch of them is taken to be read within one threshold.)              *)
Stalled == pos = high \/ ~calm

(* The watchdog, after a cycle without records: a stall forces a reconnect *)
(* once per threshold.                                                     *)
Watch ==
  /\ at = "watching"
  /\ \/ Stalled /\ DropConsumer
     \/ UNCHANGED <<group, inflight, consumer, pos, fenced>>
  /\ at' = "top"
  /\ UNCHANGED <<high, calm, batch, skip, fate, history>>

(* The except branch: tear down, back off.                                 *)
Recover ==
  /\ at = "failed"
  /\ DropConsumer
  /\ batch' = {}
  /\ at' = "top"
  /\ UNCHANGED <<high, calm, skip, fate, history>>

(* A crash loses the worker's queue and the flag.                          *)
Crash ==
  /\ ~calm
  /\ SettleCommit
  /\ consumer' = FALSE /\ pos' = None /\ fenced' = FALSE
  /\ at' = "top" /\ batch' = {} /\ skip' = FALSE
  /\ Mark({o \in Offsets : fate[o] = "queued"}, "crashed")
  /\ UNCHANGED <<high, calm, history>>

-----------------------------------------------------------------------------
(* Around the loop.                                                        *)

(* The push worker gets through a message of its queue.                    *)
WorkerPushes(o) ==
  /\ fate[o] = "queued"
  /\ Mark({o}, "pushed")
  /\ UNCHANGED <<kafka, consumer, pos, at, batch, skip, history>>

(* POST /connector/kafka-skip-to-latest.                                   *)
RequestSkip ==
  /\ ~skip
  /\ skip' = TRUE
  /\ UNCHANGED <<kafka, consumer, pos, at, batch, fate, history>>

(* POST /connector/kafka-push: a second consumer of the group takes the    *)
(* partition for a moment, reads, and pushes without a commit; a poisonous *)
(* message ends it before the push.  With n = 0 any other rebalance, such  *)
(* as an exceeded max.poll.interval.                                       *)
RoutePush(n) ==
  /\ ~calm
  /\ n <= BatchMax /\ StartOf + n <= high
  /\ fenced' = (pos # None)
  /\ LET taken == {o \in Offsets : StartOf <= o /\ o < StartOf + n}
     IN  Mark(IF Decodes(taken) THEN Readable(taken) ELSE {}, "pushed")
  /\ UNCHANGED <<high, group, calm, inflight, consumer, pos, at, batch, skip,
                 history>>

Produce ==
  /\ high < MaxOffset
  /\ high' = high + 1
  /\ UNCHANGED <<group, calm, inflight, fenced, consumer, pos, at, batch, skip,
                 fate, history>>

CommitAnswered ==
  /\ inflight # None
  /\ group' = IF fenced THEN group ELSE inflight
  /\ inflight' = None
  /\ UNCHANGED <<high, calm, fenced, consumer, pos, at, batch, skip,
                 fate, history>>

CommitLost ==
  /\ inflight # None /\ ~calm
  /\ inflight' = None
  /\ UNCHANGED <<high, group, calm, fenced, consumer, pos, at, batch, skip,
                 fate, history>>

WeatherChanges ==
  /\ calm' = ~calm
  /\ UNCHANGED <<high, group, inflight, fenced, consumer, pos, at, batch, skip,
                 fate, history>>

LoopStep ==
  \/ Connect \/ ConnectFails \/ Continue
  \/ SkipToEnd \/ SkipUnassigned \/ SkipRaises \/ ClearSkip
  \/ \E n \in 1 .. BatchMax : ConsumeSome(n)
  \/ ConsumeNothing \/ ConsumeTimesOut
  \/ \E n \in 0 .. BatchMax : ConsumeRaises(n)
  \/ Forward \/ HandOver \/ PushInline \/ PushRaises
  \/ Commit \/ CommitRaises
  \/ Watch \/ Recover

Next ==
  \/ LoopStep
  \/ Crash
  \/ \E o \in Offsets : WorkerPushes(o)
  \/ RequestSkip
  \/ \E n \in 0 .. BatchMax : RoutePush(n)
  \/ Produce \/ CommitAnswered \/ CommitLost
  \/ WeatherChanges

Spec == Init /\ [][Next]_vars

(* The loop sleeps between cycles and every call it makes has a timeout;   *)
(* the worker gets through its queue (FrostWorker).                        *)
FairSpec ==
  /\ Spec
  /\ WF_vars(LoopStep)
  /\ \A o \in Offsets : WF_vars(WorkerPushes(o))

-----------------------------------------------------------------------------
TypeOK ==
  /\ high \in 0 .. MaxOffset /\ group \in None .. high
  /\ pos \in None .. high /\ inflight \in None .. high
  /\ first \in None .. high
  /\ calm \in BOOLEAN /\ consumer \in BOOLEAN /\ fenced \in BOOLEAN
  /\ skip \in BOOLEAN
  /\ at \in {"top", "ready", "clearing", "consuming", "forwarding", "pushing",
             "committing", "watching", "failed"}
  /\ batch \subseteq Offsets \ (Bad \union Poison)
  /\ fate \in [Offsets -> {"unread", "queued", "pushed", "unreadable",
                           "skipped", "half_skipped", "crashed"}]
  /\ missed \subseteq Offsets

(* Nothing below the committed offset is unaccounted for: every message    *)
(* there was handed to the worker or pushed, does not deserialize, or was  *)
(* dropped on purpose; only messages that arrived while the group had no   *)
(* committed offset can be missed.                                         *)
CommittedIsAccounted ==
  \A o \in Below(group) :
    fate[o] # "unread" \/ o \in missed \/ o < first

(* Once the group has a committed offset no step misses anything, through  *)
(* reconnects, rebalances, lost commits and crashes.                       *)
MissedNeedsNoOffset == [][group # None => missed' = missed]_vars

(* What a skip dropped is not read again, after a restart either, unless   *)
(* seek() raised.                                                          *)
SkippedStaysSkipped ==
  [][\A o \in Offsets : fate[o] = "skipped" => fate'[o] = "skipped"]_vars

Accounted(o) ==
  fate[o] \notin {"unread", "queued"} \/ o < first \/ o \in missed

(* A poisonous message lies at or past the committed offset, and before o  *)
(* or in a batch with it.                                                  *)
Blocked(o) ==
  /\ group # None /\ group <= o
  /\ \E b \in Poison : group <= b /\ b < high /\ b < o + BatchMax

(* Once the broker, the group and the process are well for good, every     *)
(* message is pushed, or was dropped for one of the known reasons, however *)
(* many errors, rebalances, crashes and skips there were before, unless a  *)
(* poisonous message holds it up for good.                                 *)
Ingested ==
  \A o \in Offsets :
    <>[]calm /\ <>(o < high) /\ []<>~Blocked(o) => <>[]Accounted(o)

-----------------------------------------------------------------------------
(* What the comments and documents say, checked by expected violations.    *)

(* main.py, _consume_and_push_once: "Committing after the hand-off is      *)
(* at-least-once".  Once the consumer has had its partition, no later      *)
(* message is passed over unread.                                          *)
AtLeastOnce == missed = {}

(* kafka_tgv_consumer.py, consume_batch: "Messages that fail Avro          *)
(* deserialization are logged and skipped."  None of them keeps the loop   *)
(* from the messages behind it.                                            *)
FailedAreSkipped ==
  \A o \in Offsets : <>[]calm /\ <>(o < high) => <>[]Accounted(o)
=============================================================================
