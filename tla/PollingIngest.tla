---------------------------- MODULE PollingIngest ----------------------------
(***************************************************************************)
(* The loop that polls one REST source and pushes what is new to           *)
(* SensorThings (main.py, _polling_ingest_loop), with the eight sources it *)
(* runs (services/*_source.py): what each asks of its API, and how far it  *)
(* believes to have read.                                                  *)
(*                                                                         *)
(* A sensor has one property.  The API publishes rows, each a sensor and a *)
(* time, at that time or up to MaxDelay later; an observation is a row     *)
(* with a usable value, the parsers skip the others.  A request            *)
(* that fails has failed three times over (AsyncAPIClient).  A push either *)
(* stores an observation or dead-letters it (module ObservationPush), or   *)
(* raises.  Alerts and the health monitor are in module Monitoring.        *)
(*                                                                         *)
(* register_entity_set() does not raise (module EntityRegistry) and        *)
(* readings come from known sensors only, so when there is something to    *)
(* push the loop has always registered: its "skipping push" branch, which  *)
(* does not sleep, has no action.                                          *)
(***************************************************************************)
EXTENDS Integers, Sequences, SequencesExt, FiniteSetsExt

CONSTANTS
  Sensors,
  Kinds,         \* the sources under study
  Grain,         \* an instant is rounded down to this in a request
  Window,        \* how far back a source asks that knows of no position
  Page,          \* rows in one answer of Samen Meten ($top)
  Cap,           \* rows in one answer of Levellog (amountOfEntries)
  MaxKnown,      \* sensors (of Samen Meten: Things) a discovery stops at
  SeedTop,       \* datastreams the seed reads ($top)
  Offers,        \* the sensors each source may have
  KeyOf,         \* Samen Meten: of datastreams that share a last timestamp
  MaxDelay,      \* bound: how late an observation is published
  MaxTime,       \* bound: the clock
  MaxPublished,  \* bound: rows ever published, by source and sensor
  MaxBlank,      \* bound: rows without a usable value, of each source
  MaxFaults,     \* bound: failed requests and pushes
  MaxRestarts    \* bound: restarts, of each source

(* KNMI is asked by its EDR interface, or by the feed of Buienradar.       *)
AllKinds == {"ohnics", "sensor_community", "knmi_weather", "buienradar",
             "luchtmeetnet", "meet_je_stad", "levellog", "samen_meten",
             "bro_groundwater"}

ASSUME PollingAssumption ==
  /\ IsFiniteSet(Sensors) /\ Kinds \subseteq AllKinds
  /\ Grain \in Nat \ {0} /\ Window \in Nat \ {0} /\ Page \in Nat \ {0}
  /\ Cap \in Nat \ {0} /\ MaxKnown \in Nat \ {0} /\ SeedTop \in Nat \ {0}
  /\ MaxDelay \in Nat /\ MaxTime \in Nat /\ MaxFaults \in Nat

ASSUME KindsAssumption ==
  /\ Offers \in [AllKinds -> SUBSET Sensors]
  /\ MaxPublished \in [AllKinds -> [Sensors -> Nat]]
  /\ MaxBlank \in [AllKinds -> Nat] /\ MaxRestarts \in [AllKinds -> Nat]

None  == -1
Times == 0 .. MaxTime

(* One request answers for all sensors, with the newest value of each, and *)
(* shows which sensors there are.                                          *)
OneRequest == {"ohnics", "sensor_community", "knmi_weather", "buienradar"}

(* Sources that keep no position and ask for the last minutes.             *)
Windowed == {"knmi_weather", "luchtmeetnet", "meet_je_stad"}

(* Sources that discover their sensors once.  Levellog has its             *)
(* installations from the configuration.                                   *)
Discovering == {"luchtmeetnet", "samen_meten", "meet_je_stad",
                "bro_groundwater"}

(* Seeding looks for datastreams whose name starts with the source's name, *)
(* capitalized; only these name their datastreams so ("Meet_je_stad" is no *)
(* prefix of "MeetJeStad 7 sensor").                                       *)
Seedable == {"ohnics", "levellog", "luchtmeetnet"}

VARIABLES
  kind,              \* the source
  now, exists, pub,  \* the API: clock, sensors, the rows it has published
  blank,             \* those without a usable value
  known,             \* the source's discovered sensors
  listed,            \* BRO: well -> its dossiers were "listed", or are "none"
  cursor,            \* how far the source has read, by sensor
  stage, todo,       \* the loop; the sensors it has yet to ask for
  begun,             \* when the source began to ask
  fetched,           \* readings in the order of the answers
  clocked,           \* positions in fetched with a time of the wrong kind
  last,              \* last_timestamps
  zoned,             \* sensors whose last timestamp is of that kind
  registered,        \* entities_registered
  streams,           \* on the server: sensors with a datastream
  stored, parked,    \* observations on the server, dead-lettered
  mayRepeat,         \* history: sensors with a reason to push something twice
  faults, restarts

upstream == <<kind, now, exists, pub, blank>>
source   == <<known, listed, cursor>>
loop     == <<stage, todo, begun, fetched, clocked, last, zoned, registered>>
server   == <<streams, stored, parked>>
bounds   == <<faults, restarts>>
vars     == <<upstream, source, loop, server, mayRepeat, bounds>>

Never == [s \in Sensors |-> None]

(* A raw and a calibrated datastream of Samen Meten belong to one Thing,   *)
(* are discovered with it, and their readings come under one sensor_id and *)
(* property; the source has a position for each.                           *)
SameKey(s) ==
  IF kind = "samen_meten" THEN {p \in Sensors : KeyOf[p] = KeyOf[s]} ELSE {s}

Things(S) == {SameKey(s) : s \in S}

Configured(k) == IF k = "levellog" THEN Offers[k] ELSE {}

Init ==
  /\ kind \in Kinds /\ now = 0
  /\ exists \in {UNION T : T \in SUBSET Things(Offers[kind])}
  /\ pub = [s \in Sensors |-> {}] /\ blank = {}
  /\ known = Configured(kind) /\ listed = [s \in Sensors |-> "unlisted"]
  /\ cursor = Never
  /\ stage = "start" /\ todo = {} /\ begun = 0
  /\ fetched = <<>> /\ clocked = {}
  /\ last = Never /\ zoned = {} /\ registered = FALSE
  /\ streams = {} /\ stored = {} /\ parked = {} /\ mayRepeat = {}
  /\ faults = 0 /\ restarts = 0

Taken == stored \union parked

Faulty == faults < MaxFaults /\ faults' = faults + 1 /\ UNCHANGED restarts

-----------------------------------------------------------------------------
(* The API.                                                                *)

Tick ==
  /\ now < MaxTime
  /\ now' = now + 1
  /\ UNCHANGED <<kind, exists, pub, blank, source, loop, server, mayRepeat, bounds>>

Appear(s) ==
  /\ s \in Offers[kind] \ exists
  /\ exists' = exists \union SameKey(s)
  /\ UNCHANGED <<kind, now, pub, blank, source, loop, server, mayRepeat,
                 bounds>>

Published == UNION {{<<s, t>> : t \in pub[s]} : s \in Sensors}

Publish(s, t) ==
  /\ s \in exists /\ t \notin pub[s] /\ t \in (now - MaxDelay) .. now
  /\ Cardinality(pub[s]) < MaxPublished[kind][s]
  /\ pub' = [pub EXCEPT ![s] = @ \union {t}]
  /\ \/ UNCHANGED blank
     \/ Cardinality(blank) < MaxBlank[kind] /\ blank' = blank \union {<<s, t>>}
  /\ UNCHANGED <<kind, now, exists, source, loop, server, mayRepeat, bounds>>

-----------------------------------------------------------------------------
(* Starting: register what is configured, and seed last_timestamps.        *)

RegisterAll(done) ==
  /\ registered' = TRUE
  /\ streams' = IF done THEN streams \union known ELSE streams

(* Whether or not the server took it: a failure is logged, not raised.     *)
RegisterEagerly ==
  /\ stage = "start"
  /\ stage' = "seed"
  /\ \/ known = {} /\ UNCHANGED <<registered, streams, bounds>>
     \/ known # {} /\ RegisterAll(TRUE) /\ UNCHANGED bounds
     \/ known # {} /\ RegisterAll(FALSE) /\ Faulty
  /\ UNCHANGED <<upstream, source, todo, begun, fetched, clocked, last, zoned,
                 stored, parked, mayRepeat>>

RegisterOnData ==
  /\ stage = "push" /\ ~registered
  /\ stage' = IF last = Never THEN "reseed" ELSE "push"
  /\ \/ RegisterAll(TRUE) /\ UNCHANGED bounds
     \/ RegisterAll(FALSE) /\ Faulty
  /\ UNCHANGED <<upstream, source, todo, begun, fetched, clocked, last, zoned,
                 stored, parked, mayRepeat>>

LatestOf(set, s) == Max({None} \union {o[2] : o \in {p \in set : p[1] = s}})

Seeded(s) == LatestOf(stored, s)

SeedFrom(read) ==
  /\ last' = [s \in Sensors |-> IF s \in read THEN Seeded(s) ELSE None]
  /\ mayRepeat' = mayRepeat \union (Sensors \ read) \union {o[1] : o \in parked}

(* n of S, in whatever order they come.                                    *)
Cut(S, n) ==
  IF Cardinality(S) <= n THEN {S} ELSE {A \in SUBSET S : Cardinality(A) = n}

(* _seed_timestamps_from_frost() reads the first datastreams; one that     *)
(* cannot be read is skipped, nothing is read when the list of them is not.*)
SeedReads ==
  IF Cardinality(streams) <= SeedTop THEN {Sensors} ELSE Cut(streams, SeedTop)

Seed ==
  /\ stage \in {"seed", "reseed"}
  /\ stage' = IF stage = "seed" THEN "discover" ELSE "push"
  /\ \/ /\ kind \in Seedable /\ \E read \in SeedReads : SeedFrom(read)
        /\ UNCHANGED bounds
     \/ kind \notin Seedable /\ SeedFrom({}) /\ UNCHANGED bounds
     \/ /\ kind \in Seedable
        /\ Faulty
        /\ \E read \in SUBSET Sensors \ {Sensors} : SeedFrom(read)
  /\ UNCHANGED <<upstream, source, todo, begun, fetched, clocked, zoned,
                 registered, server>>

-----------------------------------------------------------------------------
(* A fetch: discover sensors, then ask for their observations.             *)

(* _polling_ingest_loop() catches what a cycle raises, and sleeps.         *)
AfterError == "sleep"

Ask(sensors) ==
  /\ stage' = "fetch" /\ todo' = sensors /\ begun' = now

GiveUp(s) ==
  /\ stage' = s /\ todo' = {} /\ begun' = 0

Found(sensors) ==
  /\ known' = sensors
  /\ IF sensors = {} THEN GiveUp("sleep") ELSE Ask(sensors)

(* What a discovery that fails has found: the pages before the one that    *)
(* failed, or nothing.                                                     *)
LuchtmeetnetStations == SUBSET exists
SamenMetenThings     == {UNION T : T \in SUBSET Things(exists)}
MeetJeStadSensors    == {{}}
BroWells             == {{}}

FoundPartly ==
  CASE kind = "luchtmeetnet"    -> LuchtmeetnetStations
    [] kind = "samen_meten"     -> SamenMetenThings
    [] kind = "meet_je_stad"    -> MeetJeStadSensors
    [] kind = "bro_groundwater" -> BroWells

(* A cap on the pages, Things or wells; Meet je Stad has none.             *)
FoundAll ==
  IF kind = "meet_je_stad" THEN {exists}
  ELSE {UNION T : T \in Cut(Things(exists), MaxKnown)}

Discover ==
  /\ stage = "discover" /\ kind \in Discovering /\ known = {}
  /\ \/ (\E all \in FoundAll : Found(all)) /\ UNCHANGED bounds
     \/ (\E some \in FoundPartly : Found(some)) /\ Faulty
  /\ UNCHANGED <<upstream, listed, cursor, fetched, clocked, last, zoned,
                 registered, server, mayRepeat>>

(* Nothing to discover, or discovered before, or with the observations.    *)
GoOn ==
  /\ stage = "discover" /\ (kind \in OneRequest \/ known # {})
  /\ Ask(IF kind \in OneRequest THEN Sensors ELSE known)
  /\ UNCHANGED <<upstream, source, fetched, clocked, last, zoned, registered,
                 server, mayRepeat, bounds>>

(* OAuth2ClientCredentials.get_token() raises.                             *)
TokenFails ==
  /\ stage = "discover" /\ kind = "levellog"
  /\ GiveUp(AfterError)
  /\ Faulty
  /\ UNCHANGED <<upstream, source, fetched, clocked, last, zoned, registered,
                 server, mayRepeat>>

Whole(t) == t - (t % Grain)

(* The position a source asks from.                                        *)
From(s) ==
  IF cursor[s] # None THEN cursor[s]
  ELSE (IF kind = "bro_groundwater" THEN begun ELSE now) - Window

Fresh(s, lo, hi) == {t \in pub[s] : lo <= t /\ t <= hi}

FirstPage(set) == {t \in set : Cardinality({u \in set : u < t}) < Page}

(* Fault: the latest of them instead of the earliest.                      *)
FaultSincePosition(s) ==
  LET since == {t \in pub[s] : t > Whole(From(s))}
  IN  {t \in since : Cardinality({u \in since : u > t}) < Page}

SincePosition(s) == FirstPage({t \in pub[s] : t > Whole(From(s))})

Newest(set) == {t \in set : \A u \in set : u <= t}

(* The rows in an answer, by source.  Ohnics, Sensor.Community and *)
(* Buienradar serve what is newest; of the ten minutes that it asks KNMI   *)
(* for, the source takes the last instant; the others take all.            *)
OhnicsAnswer(s)          == Newest(pub[s])
SensorCommunityAnswer(s) == Newest(pub[s])
BuienradarAnswer(s)      == Newest(pub[s])
KnmiAnswer(s)            == Newest(Fresh(s, Whole(now) - Window, Whole(now)))
LuchtmeetnetAnswer(s)    == Fresh(s, Whole(begun - Window), Whole(begun))
MeetJeStadAnswer(s)      == Fresh(s, Whole(begun - Window), Whole(begun))
LevellogAnswer(s)        == Fresh(s, Whole(From(s)), Whole(now))
BroAnswer(s)             == Fresh(s, Whole(From(s)), now)
SamenMetenAnswer(s)      == SincePosition(s)

Answer(s) ==
  CASE kind = "ohnics"           -> OhnicsAnswer(s)
    [] kind = "sensor_community" -> SensorCommunityAnswer(s)
    [] kind = "buienradar"       -> BuienradarAnswer(s)
    [] kind = "knmi_weather"     -> KnmiAnswer(s)
    [] kind = "luchtmeetnet"     -> LuchtmeetnetAnswer(s)
    [] kind = "meet_je_stad"     -> MeetJeStadAnswer(s)
    [] kind = "levellog"         -> LevellogAnswer(s)
    [] kind = "bro_groundwater"  -> BroAnswer(s)
    [] kind = "samen_meten"      -> SamenMetenAnswer(s)

(* Levellog's API leaves out what is more than was asked for.              *)
Answers(s) == IF kind = "levellog" THEN Cut(Answer(s), Cap) ELSE {Answer(s)}

Valued(s, A) == {t \in A : <<s, t>> \notin blank}

(* What the parsers make of an answer: whether its rows go up in time (the *)
(* order of the API is kept), and what becomes of a row whose time cannot  *)
(* be read: it is skipped, or it gets the present moment.  The times of    *)
(* Meet je Stad and of Buienradar name no time zone and the present moment *)
(* does ("clock"): Python does not compare two such times.                 *)
OhnicsRows          == [up |-> {TRUE}, undated |-> "now"]
SensorCommunityRows == [up |-> {TRUE}, undated |-> "now"]
KnmiRows            == [up |-> {TRUE}, undated |-> "now"]
BuienradarRows      == [up |-> {TRUE}, undated |-> "clock"]
LuchtmeetnetRows    == [up |-> BOOLEAN, undated |-> "now"]
MeetJeStadRows      == [up |-> BOOLEAN, undated |-> "clock"]
LevellogRows        == [up |-> BOOLEAN, undated |-> "skipped"]
SamenMetenRows      == [up |-> {TRUE}, undated |-> "now"]
BroRows             == [up |-> BOOLEAN, undated |-> "skipped"]

Rows ==
  [ohnics |-> OhnicsRows, sensor_community |-> SensorCommunityRows,
   knmi_weather |-> KnmiRows, buienradar |-> BuienradarRows,
   luchtmeetnet |-> LuchtmeetnetRows,
   meet_je_stad |-> MeetJeStadRows, levellog |-> LevellogRows,
   samen_meten |-> SamenMetenRows, bro_groundwater |-> BroRows][kind]

(* The lists of times that an answer for a sensor may be read as, and with *)
(* a row i whose time cannot be read.                                      *)
Clean(s) ==
  {times \in UNION {SetToSeqs(Valued(s, A)) : A \in Answers(s)} :
     \E up \in Rows.up : \A i, j \in DOMAIN times :
       i < j => (up <=> times[i] < times[j])}

WithUndated(times, i) ==
  IF Rows.undated = "skipped" THEN RemoveAt(times, i) ELSE ReplaceAt(times, i, now)

ReadingsOf(s, times) == [i \in DOMAIN times |-> <<s, times[i]>>]

(* Samen Meten goes on from the newest value it has read, Levellog from    *)
(* when it asked, provided there was a value.                              *)
Advance(s, times) ==
  IF times = <<>> \/ kind \notin {"samen_meten", "levellog"} THEN cursor
  ELSE [cursor EXCEPT ![s] = IF kind = "samen_meten" THEN Max(Range(times)) ELSE now]

Read(s, times, odd) ==
  /\ fetched' = fetched \o ReadingsOf(s, times)
  /\ clocked' = clocked \union {Len(fetched) + i : i \in odd}
  /\ cursor' = Advance(s, times)

ReadClean(s) == \E times \in Clean(s) : Read(s, times, {})

ReadSpoilt(s) ==
  \E times \in Clean(s) : \E i \in DOMAIN times :
    Read(s, WithUndated(times, i), IF Rows.undated = "clock" THEN {i} ELSE {})

Fetch(s) ==
  /\ stage = "fetch" /\ s \in todo /\ kind \notin OneRequest
  /\ todo' = todo \ {s}
  /\ listed' = IF kind = "bro_groundwater" /\ listed[s] = "unlisted"
               THEN [listed EXCEPT ![s] = "listed"] ELSE listed
  /\ \/ listed[s] = "none" /\ UNCHANGED <<fetched, clocked, cursor, bounds>>
     \/ listed[s] # "none" /\ ReadClean(s) /\ UNCHANGED bounds
     \/ listed[s] # "none" /\ ReadSpoilt(s) /\ Faulty
  /\ UNCHANGED <<upstream, known, stage, begun, last, zoned, registered, server,
                 mayRepeat>>

(* A request for one sensor fails: it is skipped in this cycle.  When it   *)
(* was for the dossiers of a well, the well has none from here on.         *)
FetchFails(s) ==
  /\ stage = "fetch" /\ s \in todo /\ kind \notin OneRequest
  /\ todo' = todo \ {s}
  /\ \/ UNCHANGED listed
     \/ /\ kind = "bro_groundwater" /\ listed[s] = "unlisted"
        /\ listed' = [listed EXCEPT ![s] = "none"]
  /\ Faulty
  /\ UNCHANGED <<upstream, known, cursor, stage, begun, fetched, clocked, last,
                 zoned, registered, server, mayRepeat>>

(* The entries of the answer, at most one for a sensor, in any order.      *)
Entries(spoilt) ==
  UNION {{<<s, IF s \in spoilt THEN now ELSE t>> : t \in Valued(s, Answer(s))} :
         s \in Sensors}

FetchAll ==
  /\ stage = "fetch" /\ kind \in OneRequest /\ todo # {}
  /\ todo' = {}
  /\ known' = known \union {s \in Sensors : Answer(s) # {}}
  /\ \E spoilt \in SUBSET {s \in Sensors : Valued(s, Answer(s)) # {}} :
       /\ IF spoilt = {} THEN UNCHANGED bounds ELSE Faulty
       /\ fetched' \in SetToSeqs(Entries(spoilt))
       /\ clocked' = {i \in DOMAIN fetched' : /\ Rows.undated = "clock"
                                              /\ fetched'[i][1] \in spoilt}
  /\ UNCHANGED <<upstream, listed, cursor, stage, begun, last, zoned, registered,
                 server, mayRepeat>>

FetchAllFails ==
  /\ stage = "fetch" /\ kind \in OneRequest /\ todo # {}
  /\ GiveUp(AfterError)
  /\ Faulty
  /\ UNCHANGED <<upstream, source, fetched, clocked, last, zoned, registered,
                 server, mayRepeat>>

(* BRO goes on from the end of this fetch, for all wells.                  *)
EndFetch ==
  /\ stage = "fetch" /\ todo = {}
  /\ GiveUp(IF fetched = <<>> THEN "sleep" ELSE "push")
  /\ cursor' = IF kind = "bro_groundwater" THEN [s \in Sensors |-> now]
               ELSE cursor
  /\ UNCHANGED <<upstream, known, listed, fetched, clocked, last, zoned,
                 registered, server, mayRepeat, bounds>>

-----------------------------------------------------------------------------
(* A push.                                                                 *)

(* Faults: a reading with the timestamp of the last one is new; one of a   *)
(* sensor without a last one is not.                                       *)
FaultIsNew(r)    == r[2] >= last[r[1]]
FaultNeverNew(r) == last[r[1]] # None /\ r[2] > last[r[1]]

IsNew(r) == r[2] > last[r[1]]

(* _dedup_readings(): what is new under the key of a sensor, and of all,   *)
(* by position.                                                            *)
NewOf(s) ==
  {i \in DOMAIN fetched : fetched[i][1] \in SameKey(s) /\ IsNew(fetched[i])}
NewReadings == {fetched[i] : i \in UNION {NewOf(s) : s \in Sensors}}

(* _update_timestamps(): the last in the list, which need not be the       *)
(* latest, and whether its time is of the wrong kind.                      *)
Updated ==
  [s \in Sensors |-> IF NewOf(s) = {} THEN last[s] ELSE fetched[Max(NewOf(s))][2]]

ZonedAfter ==
  {s \in Sensors : IF NewOf(s) = {} THEN s \in zoned ELSE Max(NewOf(s)) \in clocked}

(* Readings that cannot be compared with the last of their sensor.         *)
Incomparable ==
  {s \in Sensors : last[s] # None /\ \E i \in DOMAIN fetched :
                     fetched[i][1] = s /\ (i \in clocked) # (s \in zoned)}

Overtaken == {r[1] : r \in {q \in NewReadings : q[2] > Updated[q[1]]}}

Pushes == stage = "push" /\ registered /\ Incomparable = {}

Clear(s) == stage' = s /\ fetched' = <<>> /\ clocked' = {}

Push(sent) ==
  /\ Pushes
  /\ Clear("sleep")
  /\ stored' = stored \union sent
  /\ parked' = parked \union (NewReadings \ sent)
  /\ last' = Updated /\ zoned' = ZonedAfter
  /\ mayRepeat' = mayRepeat \union Overtaken
  /\ UNCHANGED <<upstream, source, todo, begun, registered, streams>>

(* Only what has a datastream is sent.                                     *)
PushOk ==
  /\ Push({r \in NewReadings : r[1] \in streams})
  /\ UNCHANGED bounds

PushDeadLetters == Push({}) /\ Faulty

(* push_observations() raises, for a target or after another took it all.  *)
PushRaises ==
  /\ Pushes /\ NewReadings # {}
  /\ Clear(AfterError)
  /\ \E sent \in {{}, {r \in NewReadings : r[1] \in streams}} :
       /\ stored' = stored \union sent
       /\ mayRepeat' = mayRepeat \union {r[1] : r \in sent}
  /\ Faulty
  /\ UNCHANGED <<upstream, source, todo, begun, last, zoned, registered,
                 streams, parked>>

(* The comparison in _dedup_readings() raises, before anything is pushed.  *)
DedupRaises ==
  /\ stage = "push" /\ registered /\ Incomparable # {}
  /\ Clear(AfterError)
  /\ UNCHANGED <<upstream, source, todo, begun, last, zoned, registered, server,
                 mayRepeat, bounds>>

Wake ==
  /\ stage = "sleep"
  /\ stage' = "discover"
  /\ UNCHANGED <<upstream, source, todo, begun, fetched, clocked, last, zoned,
                 registered, server, mayRepeat, bounds>>

Restart ==
  /\ restarts < MaxRestarts[kind]
  /\ restarts' = restarts + 1
  /\ known' = Configured(kind) /\ listed' = [s \in Sensors |-> "unlisted"]
  /\ cursor' = Never
  /\ Clear("start") /\ todo' = {} /\ begun' = 0
  /\ last' = Never /\ zoned' = {} /\ registered' = FALSE
  /\ UNCHANGED <<upstream, server, mayRepeat, faults>>

-----------------------------------------------------------------------------
World == Tick \/ \E s \in Sensors : Appear(s) \/ \E t \in Times : Publish(s, t)

StartUp == RegisterEagerly \/ RegisterOnData \/ Seed

Ingest ==
  \/ Discover \/ GoOn \/ TokenFails
  \/ \E s \in Sensors : Fetch(s) \/ FetchFails(s)
  \/ FetchAll \/ FetchAllFails \/ EndFetch
  \/ PushOk \/ PushDeadLetters \/ PushRaises \/ DedupRaises
  \/ Wake

Next == World \/ StartUp \/ Ingest \/ Restart

Spec == Init /\ [][Next]_vars

(* The loop is a task of the event loop, and every request has a timeout.  *)
FairSpec == Spec /\ WF_vars(StartUp \/ Ingest) /\ WF_vars(Tick)

-----------------------------------------------------------------------------
(* Types; the loop never has readings to push while it knows of no sensor, *)
(* so that it has always registered before it pushes.                      *)
TypeOK ==
  /\ kind \in Kinds /\ now \in Times /\ exists \subseteq Sensors
  /\ pub \in [Sensors -> SUBSET Times] /\ known \subseteq Sensors
  /\ blank \subseteq Published
  /\ listed \in [Sensors -> {"unlisted", "listed", "none"}]
  /\ cursor \in [Sensors -> Times \union {None}]
  /\ last \in [Sensors -> Times \union {None}]
  /\ stage \in {"start", "seed", "reseed", "discover", "fetch", "push", "sleep"}
  /\ todo \subseteq Sensors /\ begun \in Times
  /\ fetched \in Seq(Sensors \X Times) /\ registered \in BOOLEAN
  /\ clocked \subseteq DOMAIN fetched /\ zoned \subseteq Sensors
  /\ streams \subseteq Sensors /\ stored \subseteq Sensors \X Times
  /\ parked \subseteq Sensors \X Times /\ mayRepeat \subseteq Sensors
  /\ faults \in 0 .. MaxFaults /\ restarts \in 0 .. MaxRestarts[kind]
  /\ stage = "push" => fetched # <<>> /\ known # {}

(* What the loop is still going to push, if the clock stands still and     *)
(* nothing fails: it is in the list already, or the source will ask for it *)
(* and _dedup_readings() will let it through.                              *)
InFlight(o) == o \in NewReadings

WillKnow(s) == kind \in OneRequest \/ known = {} \/ s \in known

AskedNow(s) == stage = "fetch" /\ s \in todo

IsNewest(s, t) == \A u \in pub[s] : u <= t

WillAsk(s, t) ==
  CASE kind \in {"ohnics", "sensor_community", "buienradar"} -> IsNewest(s, t)
    [] kind = "knmi_weather" -> IsNewest(s, t) /\ t >= Whole(now) - Window
    [] kind \in {"luchtmeetnet", "meet_je_stad"} ->
         \/ t >= Whole(now - Window)
         \/ AskedNow(s) /\ t \in Whole(begun - Window) .. Whole(begun)
    [] kind = "bro_groundwater" ->
         /\ listed[s] # "none"
         /\ t >= Whole(IF stage = "fetch" /\ s \notin todo THEN now
                       ELSE IF cursor[s] # None THEN cursor[s]
                       ELSE (IF stage = "fetch" THEN begun ELSE now) - Window)
    [] kind = "levellog"    -> t >= Whole(From(s))
    [] kind = "samen_meten" -> t > Whole(From(s))

(* A sensor of Meet je Stad or Buienradar whose last timestamp came from   *)
(* the connector's clock stops the source: every later cycle raises, until *)
(* a restart.                                                              *)
Stuck == zoned # {} \/ Incomparable # {}

Wanted(s, t) ==
  /\ ~Stuck
  /\ t \in pub[s] /\ <<s, t>> \notin blank \union Taken
  /\ \/ InFlight(<<s, t>>)
     \/ /\ stage \notin {"start", "seed"}
        /\ WillKnow(s) /\ WillAsk(s, t)
        /\ t > last[s] /\ \A r \in NewReadings : r[1] = s => t > r[2]

(* A sensor that appeared too late, a well that was given no dossiers, a   *)
(* source that is stuck; a loop that has yet to look at what it pushed     *)
(* before.                                                                 *)
Unseen(s) ==
  \/ Stuck
  \/ kind \notin OneRequest /\ known # {} /\ s \notin known
  \/ listed[s] = "none" \/ stage \in {"start", "seed"}

InTime(s, t) ==
  t = now /\ t \in pub'[s] \ pub[s] /\ <<s, t>> \notin blank' /\ ~Unseen(s)

(* What each source can lose.  Levellog and Samen Meten keep a position    *)
(* that no failed request moves.                                           *)
Restarted   == restarts' # restarts
CycleRaised == stage = "push" /\ faults' # faults
Superseded  == kind \in OneRequest /\ pub' # pub
TimePassed(s) ==
  /\ now' # now
  /\ \/ kind \in Windowed \/ cursor[s] = None
     \/ kind = "bro_groundwater" /\ stage = "fetch"
RequestFailed(s) ==
  /\ stage = "fetch" /\ faults' # faults /\ s \in todo
  /\ kind \in Windowed \union {"bro_groundwater"}
Unreadable(s) ==
  /\ stage = "fetch" /\ faults' # faults /\ s \in todo
  /\ \E i \in (Len(fetched) + 1) .. Len(fetched') : fetched'[i][1] = s
GetsStuck == Stuck' /\ ~Stuck
ReadTooFar(s, t) == kind = "samen_meten" /\ cursor[s] = t /\ t \notin pub[s]
SeededAgain(s, t) == stage = "reseed" /\ last'[s] >= t
HalfDiscovered(s) ==
  /\ stage = "discover" /\ s \notin known'
  /\ \/ kind \in {"luchtmeetnet", "samen_meten"} /\ faults' # faults
     \/ kind # "meet_je_stad" /\ Cardinality(Things(exists)) > MaxKnown
AnswerCut(s) ==
  /\ kind = "levellog" /\ stage = "fetch" /\ s \in todo
  /\ Cardinality(Answer(s)) > Cap
Outpaced(s, t) ==
  \E p \in SameKey(s) \ {s} : <<p, last'[s]>> \in Taken' /\ last'[s] >= t

Excused(s, t) ==
  \/ <<s, t>> \in Taken'
  \/ Restarted \/ CycleRaised \/ Superseded \/ SeededAgain(s, t)
  \/ TimePassed(s) \/ RequestFailed(s) \/ Unreadable(s)
  \/ HalfDiscovered(s) \/ GetsStuck \/ ReadTooFar(s, t)
  \/ AnswerCut(s) \/ Outpaced(s, t)

(* An observation that the loop was still going to push, or that is        *)
(* published in time for a sensor the source has seen, is given up only by *)
(* a restart, by a cycle that raises after the fetch, by a page of the     *)
(* discovery that fails or its cap, by a second seed after a first that    *)
(* failed (something later is stored), by a row whose time cannot be read  *)
(* (of some sources, that stops the source), or by what the source is      *)
(* prone to: a newer value where only the newest is read, time passing by  *)
(* a window (or the first look back), a failed request where the position  *)
(* moves on all the same, a position that a row without a time has set to  *)
(* the present moment, an answer that was cut though the position moves to *)
(* the end of it, a later value of another sensor with the same key.       *)
LossNeedsCause ==
  [][\A s \in Sensors, t \in Times :
       (Wanted(s, t) \/ InTime(s, t)) /\ ~Wanted(s, t)' => Excused(s, t)]_vars

(* The loop pushes an observation it has pushed before only of a sensor    *)
(* whose position was lost: the seed did not cover it, a list came newest  *)
(* first, or a push raised after the server had taken it.                  *)
RepeatNeedsCause ==
  stage = "push" /\ registered =>
    {r[1] : r \in NewReadings \intersect Taken} \subseteq mayRepeat

(* The position of Levellog moves only when a value was read, that of Samen *)
(* Meten to the latest value read: they ask again and again for a full     *)
(* answer without a value, or with none after the position, and get to     *)
(* nothing behind it.                                                      *)
StuckAt(s, t) ==
  /\ kind \in {"samen_meten", "levellog"}
  /\ \E A \in Answers(s) :
       t \notin A /\ \A u \in Valued(s, A) : kind = "samen_meten" /\ u <= cursor[s]

(* Failures end: the loop gets to everything it can still get, unless it   *)
(* is stuck before it.                                                     *)
CatchesUp ==
  <>[](\A s \in Sensors, t \in Times : Wanted(s, t) => StuckAt(s, t))

(* main.py:498 "Seed from FROST so we don't re-push observations after a   *)
(* restart".                                                               *)
NoRepeatAfterRestart ==
  stage = "push" /\ registered => NewReadings \intersect stored = {}

(* samen_meten_source.py, _do_fetch_readings: "GET                         *)
(* /Datastreams({id})/Observations filtered to new data".  Asking for what *)
(* is new gets to everything.                                              *)
GetsAllNew == <>[](\A s \in Sensors, t \in Times : ~Wanted(s, t))
=============================================================================
