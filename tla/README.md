# TLA+ models of the SensorThings testbed connector

The connector reads sensor observations from a Kafka topic and from eight polled
APIs, turns them into SensorThings observations and pushes them to one or more
FROST servers (the *targets*), on which it registers the entities the observations
belong to. What it must not do is lose an observation, store one twice or in the
wrong place, or come to a standstill because one of the systems around it is down,
and it must not fall silent about it. Those promises rest on nine parts that run in
different threads, and it is these nine that this directory models, checks with TLC
and, in part, proves with TLAPS:

    Kafka topic --> ingest loop --> worker queue --+        +--> target
                    (KafkaIngest)  (FrostWorker)   |        |
                                                   v        |
                                               push cycle --+     asks: which datastream?
                                            (ObservationPush)     (DatastreamLookup), and
                                                   ^        |     may I? (CircuitBreaker)
    polled API  --> polling loop ------------------+        | failed
                    (PollingIngest)                         v
                         |                          dead-letter file --- replay --> target
                         |                          (DeadLetterQueue)
                         +-- registration (EntityRegistry) -----------------------> target

    all of them --> alerts, incident log, counters (Monitoring)

Line numbers below refer to the files under `src/`.

## 1. Inventory

| Part | State | Operations | Talks to |
|---|---|---|---|
| Circuit breaker, `app/frost/circuit_breaker.py` | per target: failure count, `opened_at` | `allow`, `record_success`, `record_failure`, `snapshot` | every push cycle and replay pass, under one lock |
| Dead-letter file, `app/services/sensorthings_client.py` 1668-1863, `app/routes/connector.py` 735-795 | `data/failed_observations.jsonl`, its `.tmp` | append, replay pass, truncation by the operator | push cycles append; the replay loop (`app/main.py` 630) and a route replay; no lock |
| Push worker, `app/services/frost_worker.py` | bounded queue, worker thread, started and alert flags | `start`, `enqueue`, `_run`, `stop` | Kafka loop puts; `lifespan` starts and stops |
| Observation push, `sensorthings_client.py` 2058-2554, `app/frost/http_client.py` | the set of targets without batch support; per cycle: chunks, results | `push_observations`, chunks, single POSTs with retries | breaker, dead-letter file, targets |
| Kafka ingest, `main.py` 28-244, `app/services/kafka_tgv_consumer.py` | consumer, fetch position, group offset, skip flag | connect, consume, hand over, commit, skip to latest, watchdog, reconnect | worker, monitoring module, two routes |
| Datastream lookup, `sensorthings_client.py` 434-512 and 2306-2411, `main.py` 256-287, `app/services/monitoring_mqtt_bridge.py` | id map, positive and negative cache of the live lookup | warm up, resolve for a push, for the forwarding, for the MQTT bridge | push cycles of several threads, routes; no lock |
| Entity registration, `sensorthings_client.py` 662-1598, `app/frost/entity_manager.py`, `app/frost/cache.py`, `app/frost/target_stack.py`, `connector.py` 552-725 | cache file of entity ids per target, validation times, batch support | find or create, by batch, link, post a task, persist, repair Locations | polling loops, routes, targets |
| Polling ingest, `main.py` 369-627, `app/services/*_source.py`, `app/sources/*.py` | per source: discovered sensors, position; per loop: newest timestamp per series, registration flag | register, seed, discover, fetch, deduplicate, push | push cycle (inline), registration, the APIs |
| Alerting and health, `app/services/alerting.py`, `app/services/health_monitor.py`, `main.py` 558-679 | cooldown per key, backlog flag, last success per source | send, gate, watch | replay loop, polling loops, worker, webhook |
| Validation harness, `app/services/validation/`, `scripts/generate_validation_report.py` | windowed counters per target, rotating logs | record, rotate, snapshot, sum up | push cycles, alerts |
| Routes, `app/routes/` | none of their own | push, replay, clear, skip, register, task, repair, status | all of the above |
| Models and configuration, `app/sta/`, `app/config.py` | none that changes | parse | all |

What makes them hard:

- **Interleaving.** A push cycle uses one thread per target and more for its
  chunks; cycles of the worker, of eight polling loops and of the routes overlap.
  The breaker is asked once at the start of a cycle that may take minutes; the
  dead-letter file is appended to while a replay pass rewrites it; the set of
  targets without batch support changes between two chunks; registrations search
  and create side by side; the lookup caches, the cache file and the rotation of
  the logs have no lock.
- **Failure.** A POST that timed out may have been committed. A search that fails
  looks like one that found nothing. A crash may fall between any two steps of a
  replay pass or a rotation. A Kafka commit is asynchronous and may be lost, or
  fenced by a rebalance. An alert that was not delivered counts as sent.
- **Ordering.** Commit after hand-off; sentinel behind the batches; snapshot
  before the success is recorded; a source moves its position before the push.
- **Limits and time.** The queue, the coalescing cap, the size of the
  dead-letter file, the attempts of one replay pass, the cooldowns, the windows the
  sources ask for.

What has to hold, part by part:

- *Breaker:* a target is skipped only after enough failed cycles in a row, is
  tried again after the cooldown, and is not skipped for good once it is back.
- *Dead-letter file:* a record that was written stays until it is delivered,
  refused, expired or cleared; replay stores nothing twice; one target in trouble
  does not hold up the records of the others.
- *Worker:* accepted batches are pushed in order; a full queue delays a batch but
  does not lose it; a shutdown drains.
- *Push:* each reading is settled once, whatever the mix of replies; a target is
  counted as failing only if it took nothing; a cycle ends, and unless something
  raises it settles its readings before.
- *Kafka:* nothing below the committed offset is unaccounted for; a skip is not
  undone; the loop recovers by itself from every error that does not lie in a message.
- *Lookup:* a reading goes to its own datastream, the same one for every receiver,
  and no miss stands in its way for ever.
- *Registration:* one copy of an entity on a target; a site is complete
  afterwards; an actuator gets a command once; the next registration makes good what
  failed.
- *Polling:* what an API has published is pushed once; failures and restarts cost
  no more than the source's way of asking implies; the loop goes on.
- *Monitoring:* the log loses its oldest lines first; each attempt is counted in
  one window; a stall and a backlog are reported, and so is their end.

`PROJECT.json` lists the components, and under `hazards` each place where one of
these things could go wrong, with the properties that watch it.

## 2. Modules

Each module models the code as it is, the defects included. Definitions carry
the names of the code where TLA+ allows it, and `map` in `PROJECT.json` names
the lines each one stands for. Definitions that begin with `Fault` are wrong
variants of the definition after them; they are not part of any specification
and serve to show that a property notices that mistake. The `MC` modules hold the
instances for TLC.

Each module also has a type invariant `TypeOK`, which holds on the instances of
that module; all but that of `EntityRegistry` are proved. They are the base of the
proofs, not questions of their own, and so not among the properties of the runs.

**`CircuitBreaker`.** `failures` and `openFor` are the two fields of
`_TargetState`; `opened_at` is kept as the time since then, up to the cooldown,
because the code only ever compares that difference with the cooldown. The four
methods are atomic (they hold the lock). Around them are the threads that call
them: a push cycle per caller and target (`stage`: admitted or skipped, exchange,
outcome recorded, incident journalled) and a replay pass, which asks `allow()` and
reports nothing. `streak` and `trial` are history: failed cycles since the last
success, and the callers admitted since the breaker went half-open. Overrides are
resolved as `_thresholds` does, first match first, a threshold of zero included.

**`DeadLetterQueue`.** Files are inodes: a handle keeps naming the inode it
opened after `os.replace` gave the path to another. Appends are three steps
(size check, open, write), a replay pass is one step per line and two around each
POST, the truncation reads the tail, truncates in place and writes the tail back.
`fate` is what became of each observation, `rows` how often the server has it,
`exposed` which observations were being appended, or held in memory by a
truncation, while a pass or a truncation was under way. A 409 comes for what the
target has already and for everything of a Thing without a Location
(`Conflicting`, `Unlocated`; `connector.py` 557-565), and the pass drops the record
either way. Lines written to the
temporary file count as written at once (the buffer is flushed before the file
is put in place, and a temporary file left by a crash is unlinked unread). One
line is one unit of size.

**`FrostWorker`.** The queue, the producers inside `enqueue` (flag read under the
lock, put after it), the worker (`Get`, coalescing, `Push`, backlog check) and the
shutdown (`CancelTasks`, sentinel or its timeout, join or its timeout). A `Push`
takes as long as it likes; ObservationPush models what happens in it.

**`Delivery`** is the abstract specification of a push cycle: readings are
settled once and for all, in any order and in any grouping, and a cycle is over
only when all of its readings are settled.

**`ObservationPush`** is the detailed one: breaker asked once, live lookups,
chunks that start, are answered and joined, the fallback to single POSTs with
their retries, the verdict. A cycle can also end by raising: the `KeyError` of a
lookup (`ResolveRaises`, `sensorthings_client.py` 461) or the `OSError` of a
dead-letter file that cannot be opened (`Unwritable`), which leaves the readings that
were not settled "abandoned"; a chunk that raises ends the cycle only when all of its
chunks are through (`Joined`). When the dead-letter file is full a reading is
dropped. `Delivers` states that it implements `Delivery`, with
the outcome of a reading and the sets of cycles that returned and that raised as the
mapping. Targets
share nothing but the dead-letter file, so one target is modelled.

**`KafkaIngest`.** One partition, messages are offsets. `at` is the place in the
loop; a cycle connects if needed, skips if asked, consumes, forwards to the
monitoring module, hands over or pushes inline, commits without waiting. An error
anywhere goes to `Recover`, which drops the consumer; a cycle without records goes
to the watchdog. Broker, group and client library are external and follow the
configuration in `kafka_tgv_consumer.py` 68-86: no automatic commit,
`auto.offset.reset` latest. `calm` is the weather: errors, rebalances, lost commits
and crashes happen only while it is false, which lets the liveness property say
"after the last of them". Two kinds of message cannot be read: those of `Bad` raise
the `SerializationError` that `consume_batch` catches and are skipped; those of
`Poison` (an unknown schema id, a body cut short) raise anything else, out of
`consume_batch`, so that the loop reconnects and reads them again. `RoutePush` is
`POST /connector/kafka-push`, a second consumer of the same group.

**`DatastreamLookup`.** A datastream and a reading are records of what a query can
tell them by. `idMap` is `_datastream_ids` of the primary (a further target's entity
cache stands in the same place), `hits` and `misses` are the caches of the live
lookup. A thread resolves a reading in the steps between which another can run: id
map, positive cache, negative cache, `del` of an expired miss, one step per query.
The `del` raises if another thread was faster (`DropRaises`). After the push of a
reading the same thread resolves it again for the monitoring module, with a chain
that mirrors the first; the MQTT bridge, on routes of its own, leaves the stream key
out of its chain and goes to the live lookup sooner. Registrations, other clients of
the target and deletions change what there is to find. The history fields of a job
(`own`, `failed`, `raced`, `moved`) say what could excuse a wrong or missing answer.

**`EntityRegistry`.** One target in one of three roles: the primary, a further one
registered one entity after another, or by JSON batches. `made` counts the copies
ever made of each entity, `live` are those stored; an id is the number of a copy, so
ids are never used again. A registration takes the steps of `get_or_create`: cached
id, its validation, search, POST, `put` with its write of the file; a batch is two
requests. An unsuccessful search is kept apart from one that found nothing only in
history (`blind`). `create_task` uses a capability id it has in the cache, and
`PostTask` may be followed by a second request in another form. The Location repair
(`Repair`) works through the Things it listed at its beginning. A cache file is
loaded after a restart as the last text or the one before it, or not at all
(`Loaded`: it is rewritten in place). Registration is told apart by the plans of
`register_entity_set` for each role (`PrimaryPlan`, `FurtherPlan`, `TaskPlan`). The
polling loop registers a site once (`LoopRegisters`, `asked`): `register_entity_set`
catches what fails, and the loop takes the site for registered. Everything after
that is an operator at a route (`BeginSite`).

**`PollingIngest`.** One polling loop and its source, which is one of `Kinds`:
the eight sources, and KNMI a second time for the feed of Buienradar. An observation
is its sensor and time. What differs between the sources is data: how sensors are
found, and what a failed search leaves (`FoundPartly`), from when the API is asked
(`From`, `Answer`), whether the rows come in order and what becomes of a row whose
time cannot be read (`Rows`), how the position moves (`Advance`). The loop itself is
that of `main.py`: eager registration, seeding, fetch, registration on the first
data and a second seed, dedup, push, sleep. Of the push only the outcome is kept,
stored or dead-lettered or an exception. `clocked` and `zoned` keep the one property
of a timestamp that matters besides its order: Meet je Stad's and Buienradar's times
have no zone, a row without a time gets the present moment, which has one, and
Python refuses to compare the two (`DedupRaises`). Rows without a usable value
(`blank`) are skipped by the parsers of Samen Meten and Levellog, which matters
because both positions move only when readings came out of an answer. Levellog's API
cuts an answer at the number of entries asked for (`Cap`), the discovery stops at a
number of Things or wells (`MaxKnown`), the seed reads the first datastreams only
(`SeedTop`). A raw and a calibrated datastream of Samen Meten come under one key of the
dedup (`KeyOf`, `SameKey`), and are discovered together. `Wanted` says what the loop is
still going to push if the clock stands still and nothing fails; the properties say
what may end that.

**`Monitoring`.** Three things that tell of the others. The log of the harness is
modelled at the level of names and files (a writer keeps the file it has opened while
others rename it), because neither the rotation nor the append holds a lock. Each
`unlink` and each rename of a rotation may fail, which the code swallows and goes on:
the next rename then overwrites a generation, or the log stays where it is.
`incomplete` counts the renames that failed and the rotations a kill cut short;
`disturbed` remembers that two writers were in a rotation at the same time, or that
one wrote its line to a file another had moved since it was opened. The
windowed counters are one count; a snapshot takes and resets it under the lock and
writes it afterwards. `send_alert` is mirrored to the log, passes the gate and the
cooldown, and posts; the callers are the replay loop (backlog and its end) and the
stall watchdog of a poll. `shown` is the webhook's last word on the dead-letter
queue.

How they fit together: what one module leaves to its environment another one
models. What `Begin` of ObservationPush and a pass of DeadLetterQueue are told by the
breaker are outputs of CircuitBreaker; "dead" in ObservationPush is "pending" in
DeadLetterQueue and "parked" in PollingIngest; the worker step of KafkaIngest
(`WorkerPushes`) is FrostWorker, and FrostWorker's `Push` and PollingIngest's `Push`
are a cycle of ObservationPush, whose lookups are those of DatastreamLookup. The
`Register` of DatastreamLookup and the `streams` of PollingIngest are what
EntityRegistry leaves on the server and in the cache. The queue and the source that
Monitoring watches are those of DeadLetterQueue and PollingIngest. The environments
are wider than the modules behind them (a breaker may change at any moment), so the
properties carry over to the composition.

## 3. Runs

| Run | Asks | States |
|---|---|---|
| `CircuitBreaker_races` | safety and liveness of the breaker, three cycles and a replay pass on one target | 64 thousand |
| `DeadLetterQueue_replay` | no loss but by overlap, no duplicates, size, with two appending threads, one pass, crashes, all replies | 578 thousand (symmetric appenders) |
| `DeadLetterQueue_drain` | records of a healthy target leave the file if those tried in vain do not use up a pass; the operator truncation beside a pass | 360 thousand |
| `FrostWorker_queue` | nothing lost or reordered, drained at the sentinel, every offered batch pushed | 59 thousand |
| `ObservationPush_cycles` | settled once, no second copy, right verdict, implements `Delivery`, ends | 214 thousand |
| `KafkaIngest_loop` | accounting below the committed offset, skips, recovery, up to a message that cannot be read at all | 105 thousand |
| `DatastreamLookup_races` | a wrong, missing or second id has a cause, two threads and a failed query | 1.3 million (symmetric threads) |
| `DatastreamLookup_settles` | what is there to stay is resolved in the end | 54 thousand |
| `EntityRegistry_overlap` | duplicates and completeness, two registrations and a repair, nothing fails | 774 thousand (symmetric registrars) |
| `EntityRegistry_faults` | duplicates, tasks and recovery with a fault, a deletion, a restart | 771 thousand |
| `PollingIngest_outages` | what each source loses or repeats has a cause; it catches up | 711 thousand |
| `Monitoring_reports` | log, windows, backlog notices, stalls | 663 thousand |

What they show about the code, beyond that the stated promises hold:

- *Lookup.* A reading ends up in a foreign datastream in two ways, both named in
  `AstrayNeedsCause`: the id map falls back from sensor and property to the stream
  key and then to the sensor, and a live lookup caches for good what its second-best
  query found while the best one failed or found nothing yet (positive ids never
  expire, `sensorthings_client.py` 507). Two threads that drop the same expired miss
  make one of them raise `KeyError` out of the whole push (461).
- *Replay.* A 409 is taken for a duplicate, but a target also answers it to every
  observation of a Thing without a Location; replay drops those records though they
  are stored nowhere. `DeliveredIsStored` names them as the exception. An open breaker
  starves nobody, since it half-opens after each cooldown and replay itself asks it;
  what starves is a file with more records to be refused at its head than a pass may
  try (`DrainsWithinLimit`).
- *Push.* A cycle that hits the `KeyError` of a lookup gives up its whole batch: its
  readings are neither sent nor dead-lettered. Where the dead-letter file cannot be
  written a cycle raises after it has posted, and gives up what it had left.
- *Kafka.* One message that raises anything but a `SerializationError` stops the topic:
  the loop reads it again and again until an operator, or the lag guard, skips to
  the end. `Ingested` says so (`Blocked`); what was read with it is held up too.
- *Replay.* A 409 is taken for a duplicate, but a target also answers it to every
  observation of a Thing without a Location; replay drops those records though they
  are stored nowhere. `DeliveredIsStored` names them as the exception. An open breaker
  starves nobody, since it half-opens after each cooldown and replay itself asks it;
  what starves is a file with more records to be refused at its head than a pass may
  try (`DrainsWithinLimit`).
- *Push.* A cycle that hits the `KeyError` of a lookup gives up its whole batch: its
  readings are neither sent nor dead-lettered. Where the dead-letter file cannot be
  written a cycle raises after it has posted, and gives up what it had left.
- *Kafka.* One message that raises anything but a `SerializationError` stops the topic:
  the loop reads it again and again until an operator, or the lag guard, skips to
  the end. `Ingested` says so (`Blocked`); what was read with it is held up too.
- *Registration.* A failed search is taken for an empty one (`find_by_name` returns
  None for both), so one lost answer duplicates an entity; two registrations at once
  do so without any failure, though the code calls the sequence race-free. A batch
  caches a stream under the name in its payload, not under the key a push looks it up
  by, so on such a target it is the live lookup that finds it: this is why
  `SiteKnown` asks for the key only where the target does not take batches. A
  registration that fails in part is not made good by the loop, which never learns of
  it: `RegisteringHeals` promises a complete site only to an operator who goes on
  registering. The second task request only ever follows an answer that was no success.
- *Polling.* `LossNeedsCause` lists, source by source, what an outage costs: sources
  that ask for a window lose what leaves it, a failed request costs BRO the interval
  because the position moves on for all wells, a failed dossier request costs a well
  until the restart, a failed page of the discovery costs the sensors on it, a cycle
  that raises after the fetch costs Levellog and Samen Meten what they had just
  moved past. An answer of Levellog that was cut at its limit costs the rest of the
  interval (`AnswerCut`, `levellog_source.py` 102), and a raw and a calibrated
  datastream of one Thing pass each other by in the dedup (`Outpaced`). A full page
  of Samen Meten rows without a value, or of rows within one rounded instant, is
  asked for again for ever, as is a cut answer of Levellog without a value
  (`StuckAt`). A row without a time sets Samen Meten's position to the present
  moment; if the push of it raises, an observation of that moment is never fetched
  (`ReadTooFar`). Seeding covers only Ohnics, Levellog and Luchtmeetnet, the sources
  whose datastreams are named as the search expects; the others push again after a
  restart what they can still fetch. Sensors that appear after the first discovery
  are not registered or asked until a restart. A single row without a time stops
  Meet je Stad or Buienradar until a restart.
- *Monitoring.* A rename that fails, or a crash in a rotation, takes generations
  that were to be kept, but never the last full one; an `unlink` that fails does no
  harm. Two rotations at once take any, and so does a line written to a file that
  another rotation has moved. A window whose snapshot cannot be written is lost,
  since it was reset first. A recovery notice that fails is not repeated
  (`excused`).

**Bounds, and why they suffice.** *Breaker:* a threshold of 2 is the smallest with a
count between closed and open; three cycles allow one that opens, one admitted
before that and one half-open attempt; a cooldown of two ticks has an inside. The
proofs cover every other value, a threshold of zero included. *Dead-letter file:*
three observations, one of them in a line that no longer parses and one of a Thing
without a Location; a limit of one line, which two threads pass together; `MaxLines`
= 1, so that the second line is always past the limit of a pass; seven inodes, more
than can be in use at once: the two paths, a handle for each appending or truncating
thread and two for each pass may each name one of their own, and one must be free to
create (`InodesAssumption`, which the proofs need as well); `RowsMax` = 2, because a
second row is what the property excludes. The drain run has one record for a target
that is down and one for a healthy target, in either order, and two attempts to a
pass, so that the first may be used up by the record of the former, which may age
out. With one attempt the other starves (`DeadLetterQueue_starved`). *Worker:* a
queue of 2, three batches, the first larger than the coalescing cap of 2, so that a
push is full with one batch, or takes a second one, or overshoots. *Push:* two
chunks of one reading, the smallest mixture of replies, with a second cycle that
shares the batch flag; two attempts have a first and a last one; every kind of reply
but those that the code treats like another of the run. A lookup may raise in the
first cycle, whose other reading cannot be dead-lettered and is of a Thing without a
Location. *Kafka:* four offsets and batches of at most two: a batch can be split,
there is a message before and after the one that is skipped, and the last is one
that is read again for ever; the configurations of section 5 share them. *Lookup:*
in the races a device reading with two candidates of its own and one foreign one
that a worse query also finds, two threads, a miss that lives one tick; a query
fails once. In the other run one registered and one external datastream, each of
which may appear and one of which may be deleted. *Registration:* two registrars and
a repair without faults, where a third copy needs a third party (`MaxCopies` = 2);
one registrar with one fault, one deletion and up to four copies, with a site and a
task. The two are kept apart for the size of the state space; they share the
property on duplicates. *Polling:* one sensor, and for Samen Meten two under one key
(sensors meet only there, in the order of an answer, and in a position shared by
all, which the causes name), a clock of five instants, three observations (of
Levellog two; of Samen Meten two and one), one of which, with those two, may be
without a value, one fault and one restart (none with two sensors), a page and a cut
answer of one row: enough for an observation before, in and after a window or a
page, for a page without a value, and for a failure followed by a recovery. The caps
on discovered Things and seeded datastreams lie above what the instances have, so
they are in the actions and in the theorems, but TLC does not reach them. Two
faults, one upon the other, for the three sources that keep a position, and a window
of three with a rounding of two, are in a configuration beside the runs,
`PollingIngest_positions` (`LossNeedsCause` only); the proofs cover the rest.
`CatchesUp` needs the clock to stop at a full `Grain` (KNMI serves up to there).
*Monitoring:* a log of three generations of one line and two writers, so that four
lines rotate it fully; one attempt; a queue that is empty, below and at the
threshold; a cooldown with an inside; one failure, of a write, an alert, a snapshot,
an `unlink` or a rename, and one restart. Three generations, six lines, and files of
two lines were tried as well. The harness and the webhook are enabled in turn, not
together: they share only the mirror of an alert.

**Fairness.** Only what the code's scheduling gives: a thread that can take a step
takes one in the end, because every request (`request_timeout_seconds`,
`frost_batch_timeout_seconds`), put, consume and join has a timeout, and every loop
sleeps and goes round again. In KafkaIngest that is the loop and the worker; nothing
is assumed of the operator, the producers of the topic, the targets or the broker.
In CircuitBreaker time passes and push cycles go on, as ingest does. `Recovers`,
`Ingested`, `DrainsWithinLimit`, `RegisteringHeals` and `Resolves` state what they
need of the environment as their antecedents: a target that answers for good, an
environment that is calm for good and a skip past every message that cannot be read,
no more records in vain than a pass may try, an operator who goes on registering, a
datastream that stays. `CyclesEnd` promises that a cycle ends, not that it returns.
In DatastreamLookup every reading's source is polled again and again, and the
forwarding to the monitoring module makes the live lookup whatever the breaker says;
in EntityRegistry the loop registers its site once (strong fairness, since in the
module it shares its thread with the tasks) and validations grow old, but nothing is
assumed of an operator; in PollingIngest the loop runs and the clock goes on up to
its bound; in Monitoring the event loop wakes its poll and ends each turn it has
begun (one weak fairness for all of `Turn`), and the clock goes on, all of which is
asked only where there is a webhook to report to. Failures are bounded in these
models, which is the "once nothing fails any more" of their liveness properties. No
fairness is assumed of the shutdown of the worker, of a restart or of a crash.
FrostWorker may come to rest (after the shutdown, or when all batches are pushed),
and so may ObservationPush (when every cycle of the instance has ended), so their
runs do not check deadlock; all others do.

## 4. Proofs

`CircuitBreakerProofs` proves, for every finite or infinite set of targets and
callers, every pattern of overrides and every integer threshold:

- `TypeCorrect`: the type invariant;
- `OpenIffThresholdHolds`: the count and `opened_at` always agree;
- `OpensOnlyAfterStreakHolds`: a target is open only after as many failed cycles
  in a row as its limit;
- `CooldownNeverExtendedHolds`: no step postpones the end of a running cooldown;
- `HalfOpenFailureReopensHolds`: the first failure recorded after a half-open
  admission re-opens the breaker, however many callers were admitted.

The assumptions are the two of the module: settings are numbers
(`ThresholdsResolve`; `int()` and `float()` see to that) and a caller is a push
cycle or a replay pass but not both. None of the invariants is inductive alone.
The inductive invariant `Inv` joins the type of the state with three facts about
each target: open exactly at the limit; the history `streak` covers the count
(`StreakCoversCount`: a breaker never counts a failure that did not happen since
the last success); and after a half-open admission the count stands one short of
the limit until somebody reports (`TrialIsOneShort`). The second is what keeps
`OpensOnlyAfterStreak` through a half-open episode, where the code sets the count
instead of counting; the third is what makes the next failure re-open. The proof
that a step keeps them goes through the three bodies that change the breaker
(`HalfOpen` and `StayClosed` in `allow`, failure, success), since every action is
one of these or leaves the breaker alone.

`ObservationPushProofs` proves, for every set of cycles, any batches that share
no reading, every chunk size (none included) and every number of attempts:

- `TypeCorrect`: the type invariant;
- `ImplementsDelivery`: the push cycles implement `Delivery`, those that raise
  included (its safety, that is: that a cycle ends at all is left to TLC);
- `NoSecondCopyHolds`: no reading is stored twice, or stored and dead-lettered,
  unless a request of it was committed after its answer was lost;
- `FailureTookNothingHolds`: a failure is reported only for a cycle of which the
  target told of storing nothing.

The assumption is `PushAssumption`: cycles are called with different readings (each
reading object is made for one call), and the settings are in range. The inductive
invariant `Inv` says, for each stage of a cycle, which of its readings still wait:
all of them before the lookups, the tasks of chunks that are not done while chunks
are out, those on the list while single POSTs are out, none from the verdict on.
What a raising chunk gives up counts as settled, so that the cycle it ends leaves
none that waits either. It is needed because `Delivery` forbids two things at once,
to settle a reading again and to return with one that waits, and both depend on the
fallback: when all chunks were unsupported the list must be exactly what was never
posted, and when only some were, dead-lettering those must leave nothing over. The
proof has one lemma per action, each showing that the step keeps to its own cycle
(`OnlyOf`) and keeps that cycle in order (`GoodStep`); `OthersKept` does the other
cycles once for all actions, from the disjoint batches. The refinement then needs no
case split on the actions: any step that keeps to `OnlyOf` settles, and returns with
`AllSettled`. For the other two theorems `CopyInv` adds that a row of a reading that
does not count as sent, or a second row, is one of an answer that was lost
(`RowsKnown`), and that a cycle with a failure to its name sent nothing and is over
(`FailureIsFinal`).

`FrostWorkerProofs` proves, for every set of batches of any size, any producers,
every capacity, coalescing cap and alert ratio:

- `TypeCorrect`: the type invariant;
- `NoBatchIsLost`: pushed, coalesced and queued batches, one after the other, are
  the accepted ones in their order (`NothingLostOrReordered`);
- `PushesAreBounded`: without its last batch a push stays below the cap;
- `WorkerDrains`: when the worker has ended, what was accepted before the sentinel
  has been pushed (`DrainsBeforeEnding`);
- `AlertEnds`: a backlog alert is raised only by a started worker.

What makes the invariant inductive is the sentinel. `SentinelOnce` says that at most
one is ever in the queue and that none is left once it has been met; `SentinelSeals`
that its place in the queue is as far behind the pushes as `sealed` says, so that
every `Get` moves both together; `HandsEmpty` what the worker holds at each stage.
The queue without its sentinel (`BatchesIn`) and the readings in a list of batches
(`ReadingsIn`) are where the lemmas are: what an append, a removal at the head and
the sentinel do to each.

`KafkaIngestProofs` proves, for every number of messages, any of them unreadable in
either way, and every size of a batch:

- `TypeCorrect`: the type invariant;
- `CommitsFollowTheHandOff`: below the committed offset every message was handed
  over, failed to deserialize, skipped on request or missed before there was an offset
  (`CommittedIsAccounted`);
- `NothingMissedWithOffset`: once the group has an offset nothing more is missed;
- `SkipsAreFinal`: a skipped message stays skipped.

The committed offset alone says too little, since it follows a commit in flight, which
follows the position of the consumer, which runs ahead of the hand-off while a batch
is in hand. `OffsetsSettled` says of each of the three what lies below it, at each
place of the loop; `FirstKnown` that whoever has an offset has had an assignment,
which is what rules out a second start at the end of the topic; `SkippedBehind`
that no offset anything can be read from lies at or below a skipped message. Most
steps take no message back to the unread (`NothingUnsettled`), and one lemma does
`OffsetsSettled` for all of those.

`DeadLetterQueueProofs` proves, for every set of observations and targets, any number
of appending threads and any mix of replies:

- `TypeCorrect`: the type invariant;
- `RemovedIsStored`: a record leaves the file as delivered only if the server has
  it, or its Thing has no Location (`DeliveredIsStored`), for any number of passes
  and truncations, crashes included;
- `ReplayStoresOnce`: no observation gets a second row (`NoDuplicateRows`), if passes
  do not overlap and the probe is on and conclusive;
- `FileStaysBounded`: `SizeBounded`, if passes do not overlap, nobody truncates
  and the cap is on;
- `RecordsStay`: `LossNeedsOverlap`, if neither passes nor truncations overlap
  one another (a pass may overlap a truncation).

The hypotheses are not for convenience: with an instance outside any of them TLC
finds the property violated. Two passes post a record twice, and take lines
from each other's temporary file; an indeterminate probe lets a POST through; a pass
that has copied more than a truncation leaves puts it back on top of what came since;
two truncations overwrite each other's tails. The replay loop and the route can do all
of this (section 5). The invariants come in layers. `TypeInv` adds to the types that
only observations that have been dead-lettered are in a file or in a hand, and that a
file exists as soon as any thread works on it. `PassHasItsFiles` says that the files
of the only pass are the two paths and that no other thread has the temporary one
open; with `InodesAssumption` a created file then is nobody's
(`FreshProperties`). On it rest `SizesAddUp` (every thread past the size check
counts as a line, and a pass writes no more than it has read), `PostsAreNew` (a line
is posted only for a record without a row, which the probe has just established)
and `LossInv`: where the unexposed records are at each stage, in the file, in the
temporary file or still ahead of the pass, in the tail a truncation holds.

`MonitoringProofs` proves, for any finite number of threads that push, every size of a
log and number of its generations, and every threshold and cooldown:

- `TypeCorrect`: the type invariant, the size of the log files in it;
- `WindowsSum`: the window, the windows on file and the one in hand add up to the
  attempts counted, unless a snapshot was lost (`WindowsAddUp`);
- `BacklogIsRemembered`: a backlog on display is one the loop will take back, or
  whose notice failed (`StandingIsRemembered`);
- `OldestLinesGoFirst`: a line goes only when younger ones fill all kept generations,
  or one of them if a rename failed or a rotation was cut short (`OldestGoFirst`);
  two rotations at once, and a line written to a file moved meanwhile, are excused.

The last is the deepest of them. A rotation is many renames, and in the middle of one
a generation is missing and the order of the rest has a gap, so `Orderly` speaks of
the names at every moment: no file has two of them, lines get older with the number
of the generation, every generation but the log is full, and each line that is gone
has one full generation of younger ones (`OneIsLeft`). This a rename that fails, or a
kill between two of them, leaves true: the rotation takes from the oldest on, so what
a later rename overwrites is older than what it moves there. `Complete` holds besides
as long as no rotation was incomplete: the only gap is the one the rotation under way
will fill next (`ToFill`), and what is gone is older than all that is held. Two
rotations at once make even `Orderly` false, which is what `disturbed` remembers. How
many lines are held is counted by an argument on the least generation for which the
sum would fail.

The assumptions are those of the modules: settings in the range to which the code
converts or clamps them, and as many threads and inodes as one likes, but finitely
many (the sizes of the file and of the logs are counts of threads).

`DatastreamLookupProofs` proves, for any number of threads, any readings that name a
property and a device or a Thing, and any finite set of datastreams:

- `TypeCorrect`: the type invariant;
- `PushAndMonitorAgree`: what was pushed to a datastream of its own is forwarded under
  the same id unless something changed in between (`ForwardedAsPushed`); it asks
  nothing of the data;
- `EmptyHandedForCause`: `UnresolvedNeedsCause`, if a reading's own datastreams
  belong to its device or its Thing (`OwnIsNearby`);
- `AstrayForCause`: `AstrayNeedsCause`, if its own datastreams bear its stream key there
  (`OwnIsKeyed`) and what bears it there is its own (`KeyedIsOwn`).

The hypotheses are about what is registered, not about the lookup, and both instances
of the runs satisfy them (`DataAssumption` of MCDatastreamLookup). They are what the
code relies on: with two sensors of one property in the same Thing, and no stream key
to tell them apart, `KeyedIsOwn` fails, and a live lookup takes whichever of the two
the server lists first. `AgreeInv` needs one clause for each stage of the second
resolution, since nothing but the caches connects it to the first: whatever thread
fills a cache in between must mark the jobs for which the cache now prefers another
datastream. `SearchInv` keeps what a search has established query by query, so that an
empty last answer contradicts the own datastream that is there. `TraceInv` adds where
the entries come from: an entry of the id map under sensor and property is of that
sensor and property, and a cached key that is not `soft` holds a datastream of every
reading that has the key (`FirmKeys`, where the order of the queries matters). The
steps are first reduced to what they do to the record of one job (`LocalSteps`,
`AskFindsSteps` and so on); every other job is only marked (`Marked`), which one lemma
for each invariant takes care of.

`PollingIngestProofs` proves, for any finite set of sensors, any of the sources, and
every rounding, window, page and bound:

- `TypeCorrect`: the type invariant;
- `RepeatsForCause`: what is pushed a second time is of a sensor whose position was
  lost (`RepeatNeedsCause`);
- `LossesForCause`: what the loop was going to push, or what is published in time, is
  given up only for a cause that `Excused` names (`LossNeedsCause`).

`TypeInv` says besides the types that nothing known to anybody lies in the future
(`Past`), which is where the answers and positions are compared, and at which stages
there is a list and a known sensor. On it rest `Covered` (what the server or the
dead-letter file has of a sensor is no later than its last timestamp, unless the
position was lost) and `LastTaken` (the last timestamp is of something that was
pushed). `RepeatNeedsCause` is `Covered` read against the list. `LossNeedsCause` has a
lemma for each group of actions. For most it is enough that the list and the last
timestamps stay and the source will still ask (`KeepsList`, `AsksOutside`). The fetch
is the hard one: an observation that is not in a clean answer must be later than
everything in it, or `_dedup_readings` would drop it when it comes at last, and the
position the source moves to must leave it ahead (`AnswerBelow`, for each way of
asking: a window that has moved on since the source began, a page that is full, an
answer that was cut, an end that is rounded down).

Two statements had to be corrected for these proofs. `LossNeedsCause` is false without
`ReadTooFar`, for which TLC needs two faults (`PollingIngest_positions`).
And where the window is no multiple of the rounding, the beginning that `WillAsk`
compares with has to be rounded as a whole, as the code rounds it.

Only model-checked are all liveness properties (fairness and ENABLED are beyond the
prover) and the three action properties of EntityRegistry.
Every other safety property of a run is stated by one of the theorems. Induction over
data is out of reach as well; where a proof needs it (`ReadingsIn`, the lines held in
the generations), it argues from a least counterexample.

## 5. Disagreements between the code and what it says of itself

Each of these can be seen with a configuration that is kept beside the runs. It
checks one property, taken from the quoted text, and TLC shows how the code breaks it:
`tlc -config <configuration>.cfg MC<module>`.

| Configuration | Property | The text | What the code does |
|---|---|---|---|
| `CircuitBreaker_half_open` | `HalfOpenAllowsOneAttempt` | "Half-open: allow one attempt" (`circuit_breaker.py` 78) | the first caller clears `opened_at`, and all others are admitted until one of them reports |
| `CircuitBreaker_journal` | `CloseIsJournalled` | a half-open to closed transition is "worth recording" (`sensorthings_client.py` 2518) | the cycle's own `allow()` has cleared `opened_at` when the snapshot is read, so it is not recorded |
| `DeadLetterQueue_lost_append` | `FailedAreSafe` | "failed observations are safely in the DLQ" (`main.py` 61) | what is appended between the last line read and `os.replace` is lost |
| `DeadLetterQueue_conflict` | `ConflictIsDuplicate` | "409 Conflict = duplicate observation (already delivered)" (`sensorthings_client.py` 1838) | the 409 of a Thing without a Location removes a record that is stored nowhere |
| `FrostWorker_late_enqueue` | `DrainedOnShutdown` | "drained on shutdown" (`frost_worker.py` 12) | the put happens after the lock is released and can land behind the sentinel |
| `ObservationPush_open_target` | `OpenTargetDeadLetters` | "written straight to the dead-letter queue" (`circuit_breaker.py` 5) | a reading whose datastream needs a lookup is dropped while the breaker is open |
| `KafkaIngest_first_messages` | `AtLeastOnce` | "at-least-once" (`main.py` 45) | before the first commit each reconnect starts at the end of the topic |
| `KafkaIngest_poison` | `FailedAreSkipped` | "Messages that fail Avro deserialization are logged and skipped" (`kafka_tgv_consumer.py` 125) | only `SerializationError` is caught (145); any other error of a message is raised at each reread |
| `EntityRegistry_once` | `FailedIsRetried` | "If eager registration failed, retry on data arrival" (`main.py` 507) | `register_entity_set` catches what fails, so the loop takes the site for registered |
| `EntityRegistry_blind_search` | `GetOrCreateIdempotent` | "idempotent get-or-create semantics" (`entity_manager.py` 3) | one registration after another duplicates an entity when a search fails |
| `PollingIngest_blank_page` | `GetsAllNew` | "GET /Datastreams({id})/Observations filtered to new data" (`samen_meten_source.py`, `_do_fetch_readings`) | a full page of rows without a value is not passed by, and what is new behind it never comes |
| `PollingIngest_seed` | `NoRepeatAfterRestart` | "Seed from FROST so we don't re-push observations after a restart" (`main.py` 498) | datastreams of five of the eight sources are not found by the name the seed looks for |

Further disagreements follow from the models, most without a configuration of their own:

- two replay passes at once (loop and route) can post a record twice, since both
  probes may come before both posts; replay drops a record on a proxy's HTML error
  page that made the push keep it (`sensorthings_client.py` 2090 and 1845);
  `keep_bytes` at or above the size of the file keeps nothing (`connector.py` 767);
  a pass that started before a truncation puts the cleared records back
  (`ClearStep` beside `ReplaceDlq`); as many records as a pass may try, refused each
  time with a retryable status, starve those behind them (`Drains` with one attempt to
  a pass, `DeadLetterQueue_starved`);
- the skip flag is cleared even if nothing was moved (`main.py` 132); the Kafka path
  forwards to the monitoring module before the push and a polling loop after it,
  while the docstring of `_push_to_monitoring` (`main.py` 290) says before;
- the entity cache is rewritten in place (`cache.py` 75), so a crash within a write
  costs all of it; the next registrations find the entities again by name
  (`RegisteringHeals`);
- `_update_timestamps` keeps the last reading in the list as the newest
  (`main.py` 390), so a list that comes newest first is pushed again;
- the cooldown of an alert starts before its delivery is tried (`alerting.py` 49).

## 6. Not modelled

Left out of the modelled parts: alert texts, logs, statistics; the building of
payloads; the pacing of the replay loop (a pass may start at any time, which covers
every pace); Avro itself (two sets of unreadable messages); the identity of KNMI
stations (an EDR station is known by its index in the answer, so readings change
sensor when the set of stations changes); the latency reservoirs, percentiles and
error classes of the harness; the counters of the health monitor; a POST that is
committed only after the next pass has probed for it (a late commit falls together
with the timeout of its client).

Not modelled at all: field and unit mapping of the sources and of the Kafka messages,
HTML and JSON rendering, configuration parsing and the SensorThings data classes (no
state that changes); the manual push routes, which run operations modelled elsewhere
once; scripts and deployment (one-off tools outside the running program; of the
report generator, the sum of the windows is in Monitoring).

## 7. Plan

What is left is proof: `DuplicateNeedsCause`, `LeavesSiteComplete` and `TaskedOnce` of
EntityRegistry.
