----------------------------- MODULE Monitoring -----------------------------
(***************************************************************************)
(* What the connector tells of itself: alerts to a webhook                 *)
(* (services/alerting.py), the incident log and the counters of the        *)
(* validation harness (services/validation), and the health monitor the    *)
(* alerts are decided on.                                                  *)
(*                                                                         *)
(* The alerts are those of the replay loop and of one polling loop.  Both  *)
(* run on the event loop and send_alert() does not yield, so "loop" is one *)
(* writer of the log; the threads that push are the others.  The log is    *)
(* that of the incidents, which both write: alerts, and breakers that open *)
(* or close.  The log of the events, which only the latter write, is       *)
(* rotated alike; that of the snapshots only grows.  A line is the unit of *)
(* size.                                                                   *)
(* The queue that is watched is that of module DeadLetterQueue, the source *)
(* one of module PollingIngest; here they change at will.                  *)
(***************************************************************************)
EXTENDS Integers, Sequences, SequencesExt, FiniteSetsExt

CONSTANTS
  Pushers,       \* threads that push observations
  Setups,        \* pairs: is the harness enabled, is a webhook configured
  KeepMax,       \* rotate_keep
  MaxBytes,      \* the size, in lines, at which a log is rotated
  AlertDepth,    \* failed_replay_backlog_alert
  Patience,      \* poll_seconds + freshness_grace
  Cooldown,      \* alert_min_interval_seconds
  MaxLines,      \* bound: lines ever written
  MaxAttempts,   \* bound: push attempts recorded by one process
  MaxFaults,     \* bound: what fails: writes, alerts, a log's unlink and renames
  MaxRestarts    \* bound: restarts

ASSUME MonitoringAssumption ==
  /\ IsFiniteSet(Pushers) /\ Setups \subseteq BOOLEAN \X BOOLEAN
  /\ KeepMax \in Nat \ {0} /\ MaxBytes \in Nat \ {0}
  /\ AlertDepth \in Nat /\ Patience \in Nat /\ Cooldown \in Nat
  /\ MaxLines \in Nat /\ MaxAttempts \in Nat
  /\ MaxFaults \in Nat /\ MaxRestarts \in Nat

Writers == Pushers \union {"loop"}
Slots   == 0 .. KeepMax            \* the log and its generations .1, .2, ...
Files   == 1 .. KeepMax + 1 + Cardinality(Writers)
None    == -1
Keys    == {"dlq.backlog", "stall"}
Depths  == 0 .. AlertDepth

VARIABLES
  setup,               \* the settings of this deployment
  name, body,          \* the file a name stands for, if any; its lines
  lines,               \* lines written so far
  writer,              \* where each writer is in _append()
  moves, handle,       \* the moves it has begun; the file it has open
  window, total,       \* w_attempts, attempts
  inHand, reported,    \* the snapshot being written; the sum of the written
  alerting,            \* backlog_alerting, of the replay loop
  age,                 \* since the source's last success
  since,               \* since a key's last alert, up to Cooldown
  at, topic,           \* the loops: between turns, or in send_alert()
  shown, told,         \* the webhook's last word on the queue; stalls told of
  excused,             \* history: a notice was lost, or the loop forgot
  unwritten,           \* history: a snapshot was lost
  disturbed,           \* history: two were in a rotation, or wrote past one
  incomplete,          \* history: renames that failed, rotations cut short
  faults, restarts

log     == <<name, body, lines, writer, moves, handle, disturbed, incomplete>>
counts  == <<window, total, inHand, reported, unwritten>>
loops   == <<alerting, age, at, topic>>
channel == <<since, shown, told, excused>>
bounds  == <<faults, restarts>>
vars    == <<setup, log, counts, loops, channel, bounds>>

harness == setup[1]
webhook == setup[2]

Init ==
  /\ setup \in Setups
  /\ name = [s \in Slots |-> None] /\ body = [f \in Files |-> <<>>]
  /\ lines = 0 /\ disturbed = FALSE /\ incomplete = 0
  /\ writer = [w \in Writers |-> "idle"] /\ moves = [w \in Writers |-> 0]
  /\ handle = [w \in Writers |-> None]
  /\ window = 0 /\ total = 0 /\ inHand = None /\ reported = 0
  /\ unwritten = FALSE
  /\ alerting = FALSE /\ age = None
  /\ at = "between" /\ topic = "none"
  /\ since = [k \in Keys |-> None] /\ shown = "nothing" /\ told = FALSE
  /\ excused = FALSE
  /\ faults = 0 /\ restarts = 0

Faulty == faults < MaxFaults /\ faults' = faults + 1 /\ UNCHANGED restarts

-----------------------------------------------------------------------------
(* The log (recorder.py, _append and _maybe_rotate; no lock is held).  A   *)
(* line that cannot be written is logged and forgotten: no line.           *)

Size(f) == IF f = None THEN 0 ELSE Len(body[f])

Full(f) == Size(f) >= MaxBytes

(* The files that have a name or are open; of the others nothing is left.  *)
InUse(nm, hd) == ({nm[s] : s \in Slots} \union {hd[w] : w \in Writers}) \ {None}

Kept(bs, nm, hd) == [f \in Files |-> IF f \in InUse(nm, hd) THEN bs[f] ELSE <<>>]

(* A line to write, and the look at the size before it.                    *)
BeginAppend(w) ==
  /\ writer[w] = "idle" /\ lines < MaxLines
  /\ writer' = [writer EXCEPT ![w] = IF Full(name[0]) THEN "unlink" ELSE "open"]
  /\ UNCHANGED <<name, body, lines, moves, handle, disturbed, incomplete>>

(* Two have found the log full and rotate it, each as if it were alone.    *)
Overlaps(w) == \E v \in Writers \ {w} : writer[v] \in {"unlink", "move"}

(* The generations move from the oldest to the youngest, the log last.     *)
FaultMoving(n) == n - 1
Moving(n)      == KeepMax - n

(* os.replace() takes the place of a file of that name; no file, no move.  *)
Moved(i) ==
  IF name[i] = None THEN name
  ELSE [name EXCEPT ![i + 1] = name[i], ![i] = None]

(* Whatever cannot be removed or renamed is left, and the rotation goes on *)
(* with the next.                                                          *)
Unlink(w) ==
  /\ writer[w] = "unlink"
  /\ \/ name' = [name EXCEPT ![KeepMax] = None] /\ UNCHANGED bounds
     \/ name[KeepMax] # None /\ Faulty /\ UNCHANGED name
  /\ body' = Kept(body, name', handle)
  /\ moves' = [moves EXCEPT ![w] = 1]
  /\ writer' = [writer EXCEPT ![w] = "move"]
  /\ disturbed' = (disturbed \/ Overlaps(w))
  /\ UNCHANGED <<lines, handle, incomplete>>

Move(w) ==
  /\ writer[w] = "move"
  /\ \/ /\ name' = Moved(Moving(moves[w]))
        /\ UNCHANGED <<incomplete, bounds>>
     \/ /\ name[Moving(moves[w])] # None /\ Faulty
        /\ incomplete' = incomplete + 1
        /\ UNCHANGED name
  /\ body' = Kept(body, name', handle)
  /\ LET last == moves[w] = KeepMax
     IN  /\ moves' = [moves EXCEPT ![w] = IF last THEN 0 ELSE @ + 1]
         /\ writer' = [writer EXCEPT ![w] = IF last THEN "open" ELSE @]
  /\ disturbed' = (disturbed \/ Overlaps(w))
  /\ UNCHANGED <<lines, handle>>

Open(w) ==
  /\ writer[w] = "open"
  /\ LET new == Min(Files \ InUse(name, handle))
     IN  /\ name' = [name EXCEPT ![0] = IF @ = None THEN new ELSE @]
         /\ handle' = [handle EXCEPT ![w] = IF name[0] = None THEN new ELSE name[0]]
  /\ writer' = [writer EXCEPT ![w] = "write"]
  /\ UNCHANGED <<body, lines, moves, disturbed, incomplete, bounds>>

(* To the file that was opened, which another may have moved since.        *)
Write(w) ==
  /\ writer[w] = "write"
  /\ lines' = lines + 1
  /\ handle' = [handle EXCEPT ![w] = None]
  /\ body' = Kept([body EXCEPT ![handle[w]] = Append(@, lines + 1)],
                  name, handle')
  /\ writer' = [writer EXCEPT ![w] = "idle"]
  /\ disturbed' = (disturbed \/ handle[w] # name[0])
  /\ UNCHANGED <<name, moves, incomplete, bounds>>

AppendStep(w) == Unlink(w) \/ Move(w) \/ Open(w) \/ Write(w)

-----------------------------------------------------------------------------
(* Push attempts and the snapshots that sum them (recorder.py,             *)
(* record_push_attempt and snapshot_targets; collector.py).  Attempts are  *)
(* counted, the other counters move with them.                             *)

Attempt(w) ==
  /\ harness /\ writer[w] = "idle" /\ total < MaxAttempts
  /\ total' = total + 1 /\ window' = window + 1
  /\ \/ UNCHANGED log          \* nothing to write
     \/ BeginAppend(w)         \* an incident with it
  /\ UNCHANGED <<setup, inHand, reported, unwritten, loops, channel,
                 bounds>>

(* After a snapshot the next window begins.                                *)
FaultReset(w) == w
Reset(w)      == 0

(* Taken under the lock, written without it.                               *)
TakeSnapshot ==
  /\ harness /\ inHand = None
  /\ inHand' = window /\ window' = Reset(window)
  /\ UNCHANGED <<setup, log, total, reported, unwritten, loops, channel, bounds>>

(* The report generator adds up the windows on file.                       *)
WithSnapshot(sum, snapshot) == sum + snapshot

WriteSnapshot ==
  /\ inHand # None
  /\ inHand' = None
  /\ \/ /\ reported' = WithSnapshot(reported, inHand)
        /\ UNCHANGED <<unwritten, bounds>>
     \/ /\ unwritten' = TRUE
        /\ Faulty
        /\ UNCHANGED reported
  /\ UNCHANGED <<setup, log, window, total, loops, channel>>

-----------------------------------------------------------------------------
(* send_alert(): mirrored into the log, then gated, cooled down and sent.  *)

KeyOf(t) == IF t \in {"backlog", "drained"} THEN "dlq.backlog" ELSE t

(* Recovery notices pass the cooldown by.                                  *)
FaultForced(t) == FALSE
Forced(t)      == t = "drained"

(* _should_send(): under a lock, before the delivery is tried.             *)
Cooled(k) == since[k] = None \/ since[k] >= Cooldown

FaultAfterAsk(k) == [since EXCEPT ![k] = 0]
AfterAsk(k)      == IF Cooled(k) THEN [since EXCEPT ![k] = 0] ELSE since

Alert(t) ==
  /\ at' = "mirror" /\ topic' = t
  /\ IF harness THEN BeginAppend("loop") ELSE UNCHANGED log

Return == at' = "between" /\ topic' = "none"

Gate ==
  /\ at = "mirror" /\ writer["loop"] = "idle"
  /\ \/ ~webhook /\ Return /\ UNCHANGED since
     \/ webhook /\ Forced(topic) /\ at' = "post" /\ UNCHANGED <<topic, since>>
     \/ /\ webhook /\ ~Forced(topic)
        /\ since' = AfterAsk(KeyOf(topic))
        /\ IF Cooled(KeyOf(topic)) THEN at' = "post" /\ UNCHANGED topic ELSE Return
  /\ UNCHANGED <<setup, log, counts, alerting, age, shown,
                 told, excused, bounds>>

Delivered ==
  /\ shown' = IF topic \in {"backlog", "drained"} THEN topic ELSE shown
  /\ told' = (told \/ topic = "stall")
  /\ excused' = (excused /\ topic # "backlog")

(* Whatever becomes of the request: it is not repeated.                    *)
Post ==
  /\ at = "post"
  /\ Return
  /\ \/ Delivered /\ UNCHANGED bounds
     \/ /\ excused' = (excused \/ topic = "drained")
        /\ Faulty
        /\ UNCHANGED <<shown, told>>
  /\ UNCHANGED <<setup, log, counts, alerting, age, since>>

-----------------------------------------------------------------------------
(* The loops that raise them: the replay loop after a pass (main.py,       *)
(* _failed_replay_loop) and a poll (rest_polling_source.py; main.py,       *)
(* _polling_ingest_loop).                                                  *)

Backlogged(n) == AlertDepth > 0 /\ n >= AlertDepth

(* Only an empty queue ends a backlog, not one below the threshold.        *)
Drained(n) == alerting /\ n = 0

ReplayPass(n) ==
  /\ at = "between"
  /\ \/ /\ Backlogged(n)
        /\ alerting' = TRUE
        /\ Alert("backlog")
     \/ /\ ~Backlogged(n) /\ Drained(n)
        /\ alerting' = FALSE
        /\ Alert("drained")
     \/ /\ ~Backlogged(n) /\ ~Drained(n)
        /\ UNCHANGED <<alerting, at, topic, log>>
  /\ UNCHANGED <<setup, counts, age, channel, bounds>>

(* New readings were pushed: record_source_success().                      *)
PollNew ==
  /\ at = "between"
  /\ age' = 0 /\ told' = FALSE /\ at' = "watch"
  /\ UNCHANGED <<setup, log, counts, alerting, topic, since, shown,
                 excused, bounds>>

(* Readings pushed before, none, or no answer: record_source_error().      *)
PollNothingNew ==
  /\ at = "between"
  /\ at' = "watch"
  /\ UNCHANGED <<setup, log, counts, alerting, age, topic, channel, bounds>>

(* A source that never delivered has no age.                               *)
Stale == age # None /\ age > Patience

Watch ==
  /\ at = "watch"
  /\ IF Stale THEN Alert("stall")
     ELSE at' = "between" /\ UNCHANGED <<topic, log>>
  /\ UNCHANGED <<setup, counts, alerting, age, channel, bounds>>

LogStepOf(w) == UNCHANGED <<setup, counts, loops, channel>> /\ AppendStep(w)

LogStep == \E w \in Writers : LogStepOf(w)

(* The clock, as far as the cooldowns and the watchdog tell.               *)
Older(t, limit) == IF t = None THEN None ELSE Min({t + 1, limit})

Tick ==
  /\ age' = Older(age, Patience + 1)
  /\ since' = [k \in Keys |-> Older(since[k], Cooldown)]
  /\ UNCHANGED <<setup, log, counts, alerting, at, topic,
                 shown, told, excused, bounds>>

(* Only the log and the snapshots are on disk.                             *)
Restart ==
  /\ restarts < MaxRestarts
  /\ restarts' = restarts + 1
  /\ writer' = [w \in Writers |-> "idle"] /\ moves' = [w \in Writers |-> 0]
  /\ handle' = [w \in Writers |-> None]
  /\ incomplete' = incomplete + (IF \E w \in Writers : writer[w] = "move" THEN 1 ELSE 0)
  /\ window' = 0 /\ total' = 0 /\ inHand' = None /\ reported' = 0
  /\ alerting' = FALSE /\ age' = None
  /\ at' = "between" /\ topic' = "none"
  /\ since' = [k \in Keys |-> None] /\ told' = FALSE /\ excused' = (shown = "backlog")
  /\ unwritten' = FALSE
  /\ body' = Kept(body, name, [w \in Writers |-> None])
  /\ UNCHANGED <<setup, name, lines, disturbed, shown, faults>>

Next ==
  \/ \E w \in Pushers : Attempt(w)
  \/ TakeSnapshot \/ WriteSnapshot
  \/ LogStep
  \/ \E n \in 0 .. AlertDepth : ReplayPass(n)
  \/ PollNew \/ PollNothingNew
  \/ Watch \/ Gate \/ Post
  \/ Tick \/ Restart

Spec == Init /\ [][Next]_vars

Poll == PollNew \/ PollNothingNew

(* What the event loop does of a turn once it has begun it.                *)
Turn == Watch \/ Gate \/ Post \/ LogStepOf("loop")

(* asyncio wakes every loop whose sleep has ended; requests time out.      *)
(* Asked for where there is a webhook: the others promise no report.       *)
FairSpec ==
  /\ Spec
  /\ SF_vars(webhook /\ Poll) /\ WF_vars(webhook /\ Turn) /\ WF_vars(webhook /\ Tick)

-----------------------------------------------------------------------------
(* Properties.                                                             *)

(* Every variable has its type; no writer has two files, and the log grows *)
(* past its limit only by the lines of writers that looked at its size     *)
(* together and by one for each rename that failed.                        *)
TypeOK ==
  /\ setup \in Setups
  /\ name \in [Slots -> Files \union {None}]
  /\ \A f \in Files : Len(body[f]) < MaxBytes + Cardinality(Writers) + incomplete
  /\ lines \in 0 .. MaxLines + Cardinality(Writers) - 1
  /\ writer \in [Writers -> {"idle", "unlink", "move", "open", "write"}]
  /\ moves \in [Writers -> 0 .. KeepMax]
  /\ handle \in [Writers -> Files \union {None}]
  /\ window \in 0 .. MaxAttempts /\ total \in 0 .. MaxAttempts
  /\ inHand \in {None} \union 0 .. MaxAttempts
  /\ reported \in 0 .. MaxAttempts
  /\ age \in {None} \union 0 .. Patience + 1
  /\ since \in [Keys -> {None} \union 0 .. Cooldown]
  /\ at \in {"between", "mirror", "post", "watch"}
  /\ topic \in {"none", "backlog", "drained", "stall"}
  /\ shown \in {"nothing", "backlog", "drained"}
  /\ {alerting, told, excused, unwritten, disturbed} \subseteq BOOLEAN
  /\ incomplete \in 0 .. MaxFaults + MaxRestarts
  /\ faults \in 0 .. MaxFaults /\ restarts \in 0 .. MaxRestarts

Held == UNION {IF name[s] = None THEN {} ELSE ToSet(body[name[s]]) : s \in Slots}

(* A line leaves the log of the harness only when KeepMax full generations *)
(* of younger lines are left.  If a rename failed or a rotation was cut    *)
(* short by a kill, then or before, there may be fewer, but always one: it *)
(* never costs the youngest full generation.  A generation that cannot be  *)
(* removed does no harm.  Excused are only two writers that were in a      *)
(* rotation at the same time, and one that wrote its line to a file that   *)
(* another had moved since it opened it: no lock excludes either           *)
(* (recorder.py, _maybe_rotate and _append).                               *)
Younger(gone) == {l \in Held : l > gone}

OldestGoFirst ==
  disturbed \/ \A gone \in (1 .. lines) \ Held :
                 Cardinality(Younger(gone))
                   >= (IF incomplete = 0 THEN KeepMax ELSE 1) * MaxBytes

(* "The report generator can safely sum these across snapshots": the sum   *)
(* of the windows on file, with the one that is being written and the one  *)
(* that runs, is the total /validation/summary shows, unless a snapshot    *)
(* could not be written: its window had been reset before (recorder.py,    *)
(* snapshot_targets; collector.py, snapshot_loop).                         *)
WindowsAddUp ==
  unwritten \/ total = reported + Max({inHand, 0}) + window

(* As long as the webhook's last word on the dead-letter queue is that it  *)
(* does not drain, the replay loop remembers that it has to take that back *)
(* - unless the notice was lost on the way, or a restart made the loop     *)
(* forget (main.py, _failed_replay_loop; alerting.py, force).              *)
StandingIsRemembered ==
  at = "between" /\ shown = "backlog" => alerting \/ excused

(* A source that delivered and fell silent is in the end reported, even if *)
(* the first alerts are lost on the way, although each attempt, delivered  *)
(* or not, starts the cooldown (alerting.py, _should_send; main.py, the    *)
(* stall watchdog).                                                        *)
StallReported == (webhook /\ Stale) ~> (told \/ ~Stale)
=============================================================================
