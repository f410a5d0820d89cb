---------------------------- MODULE FrostWorker ----------------------------
(***************************************************************************)
(* The background pusher of app/services/frost_worker.py: producers hand   *)
(* batches of readings over a bounded queue to one worker thread, which    *)
(* coalesces and pushes them; stop() sends a sentinel through the queue    *)
(* and waits for a bounded time.                                           *)
(***************************************************************************)
EXTENDS Integers, Sequences, SequencesExt

CONSTANTS
  Batches,         \* lists of readings, each offered once
  SizeOf,          \* the readings in each batch
  Producers,       \* ingest threads that call enqueue
  QueueMax,        \* maxsize given to start()
  CoalesceMax,     \* coalesce_max given to start()
  AlertPercent,    \* backlog_alert_ratio in percent
  PushMayRaise,    \* push_observations may raise out of _push
  JoinMayTimeOut,  \* the join of stop() may run out of time
  Shutdown         \* the sentinel _SHUTDOWN

ASSUME WorkerAssumption ==
  /\ Batches # {} /\ SizeOf \in [Batches -> Nat \ {0}]
  /\ QueueMax \in Nat /\ CoalesceMax \in Nat
  /\ AlertPercent \in 0 .. 100
  /\ PushMayRaise \in BOOLEAN /\ JoinMayTimeOut \in BOOLEAN
  /\ Shutdown \notin Batches

AtLeastOne(n) == IF n > 1 THEN n ELSE 1

Capacity   == AtLeastOne(QueueMax)
Coalesce   == AtLeastOne(CoalesceMax)
AlertDepth == AtLeastOne((AtLeastOne(QueueMax) * AlertPercent) \div 100)

VARIABLES
  started,    \* _started
  queue,      \* the batches and the sentinel waiting in _queue
  producer,   \* what each producer is doing, and with which batch
  worker,     \* stage of the worker thread
  taken,      \* the batches coalesced into the push under way
  size,       \* len(batch): the readings coalesced so far
  stopping,   \* the worker has met the sentinel while coalescing
  alerting,   \* _backlog_alerting
  closing,    \* stage of the shutdown that calls stop()
  accepted,   \* history: batches enqueue returned True for, in queue order
  handled,    \* history: batches whose push returned, in order
  sealed,     \* history: the batches accepted before the sentinel was put
  ended       \* history: what became of each batch, see Fates

vars == <<started, queue, producer, worker, taken, size, stopping, alerting,
          closing, accepted, handled, sealed, ended>>

Fates == {"fresh", "offered", "inline", "accepted", "handled", "raised"}

Init ==
  /\ started = FALSE
  /\ queue = <<>>
  /\ producer = [p \in Producers |-> [stage |-> "idle", batch |-> Shutdown]]
  /\ worker = "off"
  /\ taken = <<>> /\ size = 0 /\ stopping = FALSE
  /\ alerting = FALSE
  /\ closing = "running"
  /\ accepted = <<>> /\ handled = <<>> /\ sealed = 0
  /\ ended = [b \in Batches |-> "fresh"]

Alive == closing # "exited"

-----------------------------------------------------------------------------
(* start(): a second call returns at once.                                 *)
Start ==
  /\ Alive /\ closing = "running"
  /\ ~started
  /\ started' = TRUE
  /\ worker' = "getting"
  /\ UNCHANGED <<queue, producer, taken, size, stopping, alerting, closing,
                 accepted, handled, ended, sealed>>

-----------------------------------------------------------------------------
(* enqueue(): the started flag is read under the lock, the put happens     *)
(* after it is released.  A caller that gets False pushes inline.          *)

Stage(p, s) == producer' = [producer EXCEPT ![p].stage = s]

Offer(p, b) ==
  /\ Alive /\ closing = "running"
  /\ producer[p].stage = "idle" /\ ended[b] = "fresh"
  /\ producer' = [producer EXCEPT ![p] =
       [stage |-> IF started THEN "putting" ELSE "inline", batch |-> b]]
  /\ ended' = [ended EXCEPT ![b] = "offered"]
  /\ UNCHANGED <<started, queue, worker, taken, size, stopping, alerting,
                 closing, accepted, handled, sealed>>

Full == Len(queue) >= Capacity

Put(p) ==
  LET b == producer[p].batch IN
  /\ Alive
  /\ producer[p].stage = "putting" /\ ~Full
  /\ queue' = Append(queue, b)
  /\ accepted' = Append(accepted, b)
  /\ ended' = [ended EXCEPT ![b] = "accepted"]
  /\ Stage(p, "idle")
  /\ UNCHANGED <<started, worker, taken, size, stopping, alerting, closing,
                 handled, sealed>>

(* Fault: the caller of a full queue forgets its batch.                    *)
FaultForgets(p) == Stage(p, "idle")

FallBack(p) == Stage(p, "inline")

PutTimesOut(p) ==
  /\ Alive
  /\ producer[p].stage = "putting" /\ Full
  /\ FallBack(p)
  /\ UNCHANGED <<started, queue, worker, taken, size, stopping, alerting,
                 closing, accepted, handled, ended, sealed>>

PushInline(p) ==
  /\ Alive
  /\ producer[p].stage = "inline"
  /\ ended' = [ended EXCEPT ![producer[p].batch] = "inline"]
  /\ Stage(p, "idle")
  /\ UNCHANGED <<started, queue, worker, taken, size, stopping, alerting,
                 closing, accepted, handled, sealed>>

-----------------------------------------------------------------------------
(* _run(): take one item, coalesce what is queued up to the cap, push,     *)
(* look at the backlog.                                                    *)

Get ==
  /\ Alive
  /\ worker = "getting" /\ queue # <<>>
  /\ queue' = Tail(queue)
  /\ IF Head(queue) = Shutdown
       THEN worker' = "done" /\ UNCHANGED <<taken, size>>
       ELSE /\ worker' = "coalescing"
            /\ taken' = <<Head(queue)>>
            /\ size' = SizeOf[Head(queue)]
  /\ UNCHANGED <<started, producer, stopping, alerting, closing, accepted,
                 handled, ended, sealed>>

(* Fault: the cap is compared with <=.                                     *)
FaultRoomAtCap == size <= Coalesce

HasRoom == size < Coalesce

(* Fault: a batch taken while coalescing replaces the first one.           *)
FaultReplaces(b) == taken' = <<b>> /\ size' = size + SizeOf[b]

Extend(b) == taken' = Append(taken, b) /\ size' = size + SizeOf[b]

(* Fault: the sentinel ends the thread before the batch is pushed.         *)
FaultSentinelDrops == stopping' = TRUE /\ worker' = "done"

StopAfterPush == stopping' = TRUE /\ worker' = "pushing"

CoalesceNext ==
  /\ Alive
  /\ worker = "coalescing" /\ HasRoom /\ queue # <<>>
  /\ queue' = Tail(queue)
  /\ IF Head(queue) = Shutdown
       THEN StopAfterPush /\ UNCHANGED <<taken, size>>
       ELSE Extend(Head(queue)) /\ UNCHANGED <<stopping, worker>>
  /\ UNCHANGED <<started, producer, alerting, closing, accepted, handled,
                 ended, sealed>>

CoalesceEnds ==
  /\ Alive
  /\ worker = "coalescing" /\ (~HasRoom \/ queue = <<>>)
  /\ worker' = "pushing"
  /\ UNCHANGED <<started, queue, producer, taken, size, stopping, alerting,
                 closing, accepted, handled, ended, sealed>>

(* _push(): an exception of push_observations is logged and swallowed.     *)
Push ==
  /\ Alive
  /\ worker = "pushing"
  /\ \E outcome \in IF PushMayRaise THEN {"handled", "raised"} ELSE {"handled"} :
       ended' = [b \in Batches |->
         IF \E i \in DOMAIN taken : taken[i] = b THEN outcome ELSE ended[b]]
  /\ handled' = handled \o taken
  /\ taken' = <<>> /\ size' = 0
  /\ worker' = IF stopping THEN "done" ELSE "checking"
  /\ UNCHANGED <<started, queue, producer, stopping, alerting, closing,
                 accepted, sealed>>

(* Fault: the alert is never taken back.                                   *)
FaultAlertSticks == alerting \/ Len(queue) >= AlertDepth

Alerts == Len(queue) >= AlertDepth \/ (alerting /\ queue # <<>>)

(* _maybe_alert_backlog(): the alert starts at the depth, ends when empty. *)
CheckBacklog ==
  /\ Alive
  /\ worker = "checking"
  /\ alerting' = Alerts
  /\ worker' = "getting"
  /\ UNCHANGED <<started, queue, producer, taken, size, stopping, closing,
                 accepted, handled, ended, sealed>>

-----------------------------------------------------------------------------
(* Shutdown of the application: the ingest tasks are cancelled, so no new  *)
(* batch is offered, but a call that a pool thread is executing goes on.   *)
(* Then stop(): sentinel (five seconds at most), join (thirty).            *)

CancelTasks ==
  /\ closing = "running"
  /\ closing' = IF started THEN "signalling" ELSE "exited"
  /\ UNCHANGED <<started, queue, producer, worker, taken, size, stopping,
                 alerting, accepted, handled, ended, sealed>>

PutSentinel ==
  /\ closing = "signalling" /\ ~Full
  /\ queue' = Append(queue, Shutdown)
  /\ sealed' = Len(accepted)
  /\ closing' = "joining"
  /\ UNCHANGED <<started, producer, worker, taken, size, stopping, alerting,
                 accepted, handled, ended>>

SentinelTimesOut ==
  /\ closing = "signalling" /\ Full
  /\ closing' = "joining"
  /\ UNCHANGED <<started, queue, producer, worker, taken, size, stopping,
                 alerting, accepted, handled, ended, sealed>>

(* stop() returns and the process exits; daemon threads die with it.       *)
Exit ==
  /\ closing = "joining"
  /\ worker = "done" \/ JoinMayTimeOut
  /\ closing' = "exited"
  /\ UNCHANGED <<started, queue, producer, worker, taken, size, stopping,
                 alerting, accepted, handled, ended, sealed>>

-----------------------------------------------------------------------------
Produce(p) == \/ \E b \in Batches : Offer(p, b)
              \/ Put(p)
              \/ PutTimesOut(p)
              \/ PushInline(p)

Work == Get \/ CoalesceNext \/ CoalesceEnds \/ Push \/ CheckBacklog

Close == CancelTasks \/ PutSentinel \/ SentinelTimesOut \/ Exit

Next == Start \/ (\E p \in Producers : Produce(p)) \/ Work \/ Close

Spec == Init /\ [][Next]_vars

(* The worker thread is scheduled and its requests time out; so does the   *)
(* wait of a producer.                                                     *)
FairSpec == Spec /\ WF_vars(Start) /\ WF_vars(Work)
                 /\ \A p \in Producers : WF_vars(Produce(p))

-----------------------------------------------------------------------------
Item == Batches \union {Shutdown}

TypeOK ==
  /\ started \in BOOLEAN /\ stopping \in BOOLEAN /\ alerting \in BOOLEAN
  /\ queue \in Seq(Item) /\ Len(queue) <= Capacity
  /\ producer \in [Producers -> [stage : {"idle", "putting", "inline"}, batch : Item]]
  /\ worker \in {"off", "getting", "coalescing", "pushing", "checking", "done"}
  /\ taken \in Seq(Batches) /\ size \in Nat
  /\ closing \in {"running", "signalling", "joining", "exited"}
  /\ accepted \in Seq(Batches) /\ handled \in Seq(Batches) /\ sealed \in Nat
  /\ ended \in [Batches -> Fates]

(* The batches in a queue, without the sentinel among them.                *)
Sentinels(q) == {i \in DOMAIN q : q[i] = Shutdown}

BatchesIn(q) == IF Sentinels(q) = {} THEN q
                ELSE RemoveAt(q, CHOOSE i \in Sentinels(q) : TRUE)

(* Every batch enqueue accepted is in exactly one place, and in the order  *)
(* of acceptance: already pushed, in the push being prepared, or queued.   *)
NothingLostOrReordered == accepted = handled \o taken \o BatchesIn(queue)

ReadingsIn(batches) ==
  LET total[i \in 0 .. Len(batches)] ==
        IF i = 0 THEN 0 ELSE total[i - 1] + SizeOf[batches[i]]
  IN  total[Len(batches)]

(* One push takes at most one batch beyond the coalescing cap, and size    *)
(* is what is really in it.                                                *)
CoalesceBounded ==
  /\ size = ReadingsIn(taken)
  /\ taken # <<>> => size - SizeOf[taken[Len(taken)]] < Coalesce

(* The worker only ends after pushing everything that was accepted before  *)
(* stop() put the sentinel.                                                *)
DrainsBeforeEnding == worker = "done" => Len(handled) >= sealed

(* The backlog alert never outlives the backlog: a worker waiting at an    *)
(* empty queue has taken its alert back.                                   *)
AlertEndsWithBacklog == worker = "getting" /\ queue = <<>> => ~alerting

(* A batch offered for ingest ends up pushed, by the worker or inline,     *)
(* however full the queue is, unless the process is shut down.             *)
OfferedIsPushed ==
  \A b \in Batches :
    ended[b] = "offered" ~> (ended[b] \in {"handled", "raised", "inline"}
                             \/ closing # "running")

(* frost_worker.py, module docstring: "The only loss window is a hard      *)
(* crash with readings still in the in-memory queue", "drained on          *)
(* shutdown".  After a graceful exit every accepted batch has been pushed. *)
DrainedOnShutdown ==
  closing = "exited" => \A b \in Batches : ended[b] # "accepted"
=============================================================================
