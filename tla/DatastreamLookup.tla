-------------------------- MODULE DatastreamLookup ---------------------------
(***************************************************************************)
(* Which datastream of a target a reading goes to:                         *)
(* services/sensorthings_client.py (the resolution in push_observations,   *)
(* _resolve_datastream_id_live, warm_datastream_cache), main.py            *)
(* (_resolve_monitoring_datastream_id) and monitoring_mqtt_bridge.py.      *)
(* Ingest threads, one for each source, and those of the MQTT routes       *)
(* resolve concurrently and share the id map and the two caches of the     *)
(* live lookup, without a lock.                                            *)
(*                                                                         *)
(* A datastream and a reading are records of what a lookup can tell them   *)
(* by; "" stands for nothing.                                              *)
(***************************************************************************)
EXTENDS Integers, Sequences, SequencesExt, FiniteSets

CONSTANTS
  Threads,
  Purposes,      \* what they look up for: push, bridge
  Readings,      \* records: sensor, prop, key, thing, device
  Streams,       \* the same, and an id: what the target may store
  TTL,           \* _live_lookup_negative_ttl, in ticks
  Roles,         \* what the target may be: primary, further
  MaxDeletions,  \* bound: datastreams deleted by somebody else
  MaxFaults      \* bound: failed queries

None   == [id |-> 0]
Absent == -1

ASSUME LookupAssumption ==
  /\ \A r \in Readings : (r.device # "" \/ r.thing # "") /\ r.prop # ""
  /\ IsFiniteSet(Streams) /\ None \notin Streams
  /\ TTL \in Nat \ {0} /\ MaxDeletions \in Nat /\ MaxFaults \in Nat
  /\ Roles \subseteq {"primary", "further"}
  /\ Purposes \subseteq {"push", "bridge"}

VARIABLES
  role, live,      \* the target, and what it stores
  warm,            \* startup is over
  idMap,           \* _datastream_ids of the primary, the entity cache else
  hits, misses,    \* positive and negative cache of the live lookup
  job,             \* each thread: what it looks up, how far it is
  soft,            \* history: keys cached when the better query had no answer
  deletions, faults

vars == <<role, live, warm, idMap, hits, misses, job, soft, deletions, faults>>

caches == <<idMap, hits, misses>>

(* The datastream a reading belongs to: of its sensor and property, or of  *)
(* its device and measurement.                                             *)
Own(r) == {s \in Streams : /\ s.prop = r.prop
                           /\ \/ s.sensor = r.sensor
                              \/ r.device # "" /\ s.device = r.device /\ s.key = r.key}

(* Names in the id map: sensor and property, stream key, sensor.           *)
DsKey(x)     == <<x.sensor, x.prop>>
KeyKey(x)    == <<x.key>>
SensorKey(x) == <<x.sensor, "">>
NamesOf(x)   == {DsKey(x), KeyKey(x), SensorKey(x)}

Nameless(n) == n[1] = ""

Names == UNION {NamesOf(x) : x \in Readings \union Streams}

(* What a live lookup asks for: a datastream of the device or of the Thing *)
(* with the stream key (by default the property), or the property.         *)
StreamKey(r) == IF r.key # "" THEN r.key ELSE r.prop

Query(r, of, under, attribute) ==
  LET value == IF under = "key" THEN StreamKey(r) ELSE r.prop
  IN  [of |-> of, name |-> r[of], attribute |-> attribute, value |-> value,
       under |-> <<of, r[of], under, value>>]

(* Fault: the property is tried before the stream key.                     *)
FaultQueries(r) ==
  (IF r.device = "" THEN <<>>
   ELSE <<Query(r, "device", "prop", "prop"), Query(r, "device", "key", "key")>>)
  \o
  (IF r.thing = "" THEN <<>>
   ELSE <<Query(r, "thing", "key", "key"), Query(r, "thing", "key", "prop"),
          Query(r, "thing", "prop", "prop")>>)

Queries(r) ==
  (IF r.device = "" THEN <<>>
   ELSE <<Query(r, "device", "key", "key"), Query(r, "device", "prop", "prop")>>)
  \o
  (IF r.thing = "" THEN <<>>
   ELSE <<Query(r, "thing", "key", "key"), Query(r, "thing", "key", "prop"),
          Query(r, "thing", "prop", "prop")>>)

(* The keys of the caches, the most specific first; a miss is remembered   *)
(* under the first.                                                        *)
KeysOf == [r \in Readings |-> [i \in 1 .. Len(Queries(r)) |-> Queries(r)[i].under]]
MissKey(r) == KeysOf[r][1]
Keys == UNION {Range(KeysOf[r]) : r \in Readings}

Fits(s, q) == s[q.of] = q.name /\ s[q.attribute] = q.value

Matches(q) == {s \in live : Fits(s, q)}

(* What the theorems ask of the data.  A reading's own datastreams belong  *)
(* to its device or to its Thing; further, they bear its stream key there; *)
(* and what bears its stream key there is its own.                         *)
OwnIsNearby ==
  \A r \in Readings : \A s \in Own(r) :
    \/ r.device # "" /\ s.device = r.device
    \/ r.thing # "" /\ s.thing = r.thing

OwnIsKeyed ==
  \A r \in Readings : \A s \in Own(r) :
    \/ r.device # "" /\ s.device = r.device /\ s.key = StreamKey(r)
    \/ r.device = "" /\ s.thing = r.thing /\ StreamKey(r) \in {s.key, s.prop}

KeyedIsOwn ==
  \A r \in Readings, s \in Streams :
    \/ r.device # "" /\ s.device = r.device /\ s.key = StreamKey(r)
    \/ r.thing # "" /\ s.thing = r.thing /\ StreamKey(r) \in {s.key, s.prop}
    => s \in Own(r)

(* A thread: idle, or looking up for a push ("push"), for the monitoring   *)
(* module ("monitor") or for its MQTT bridge ("bridge") the reading r.  id *)
(* is what it has resolved r to, pushed what the push has.  The rest is    *)
(* history: by, where id is from; own, a datastream of the reading was     *)
(* there when the lookup began; failed, a query of it failed; raced,       *)
(* another thread dropped the miss it is about to drop; moved, the target  *)
(* or a cache was changed meanwhile.                                       *)
Idle == [for |-> "nothing", at |-> "idle", r |-> None, n |-> 0, pushed |-> None,
         id |-> None, by |-> <<>>, own |-> FALSE, failed |-> FALSE,
         raced |-> FALSE, moved |-> FALSE]

Init ==
  /\ role \in Roles /\ live \in SUBSET Streams /\ warm = FALSE
  /\ idMap = [n \in Names |-> None]
  /\ hits = [k \in Keys |-> None] /\ misses = [k \in Keys |-> Absent]
  /\ job = [t \in Threads |-> Idle] /\ soft = {}
  /\ deletions = 0 /\ faults = 0

Set(t, j) == job' = [job EXCEPT ![t] = j]

(* History: something is changed under the lookups of these threads.       *)
Moved(threads) ==
  [u \in Threads |-> IF u \in threads /\ job[u] # Idle
                     THEN [job[u] EXCEPT !.moved = TRUE] ELSE job[u]]

-----------------------------------------------------------------------------
(* warm_datastream_cache(), before the ingest starts: the first datastream *)
(* with a name gets it.  It never raises.                                  *)
FirstOf(order, n) ==
  LET i == SelectInSeq(order, LAMBDA s : n \in NamesOf(s))
  IN  IF i = 0 \/ Nameless(n) THEN None ELSE order[i]

WarmUp ==
  /\ ~warm /\ warm' = TRUE
  /\ \/ /\ role = "primary"
        /\ \E order \in SetToSeqs(live) :
             idMap' = [n \in Names |-> IF idMap[n] # None THEN idMap[n]
                                       ELSE FirstOf(order, n)]
        /\ UNCHANGED faults
     \/ role = "further" /\ UNCHANGED <<idMap, faults>>
     \/ /\ role = "primary" /\ faults < MaxFaults
        /\ faults' = faults + 1 /\ UNCHANGED idMap
  /\ UNCHANGED <<role, live, hits, misses, job, soft, deletions>>

(* A registration stores a datastream of its own, and its id.              *)
Register(s) ==
  /\ warm /\ s.sensor # "" /\ s \notin live
  /\ live' = live \union {s}
  /\ idMap' = [idMap EXCEPT ![DsKey(s)] = s]
  /\ job' = Moved(Threads)
  /\ UNCHANGED <<role, warm, hits, misses, soft, deletions, faults>>

(* Somebody else stores one, or deletes one.                               *)
Appear(s) ==
  /\ s.sensor = "" /\ s \notin live
  /\ live' = live \union {s}
  /\ job' = Moved(Threads)
  /\ UNCHANGED <<role, warm, caches, soft, deletions, faults>>

Delete(s) ==
  /\ deletions < MaxDeletions /\ s \in live
  /\ deletions' = deletions + 1
  /\ live' = live \ {s}
  /\ job' = Moved(Threads)
  /\ UNCHANGED <<role, warm, caches, soft, faults>>

Tick ==
  /\ \E k \in Keys : misses[k] > 0
  /\ misses' = [k \in Keys |-> IF misses[k] > 0 THEN misses[k] - 1 ELSE misses[k]]
  /\ UNCHANGED <<role, live, warm, idMap, hits, job, soft, deletions, faults>>

-----------------------------------------------------------------------------
(* What the id map says: for a further target by sensor and property only, *)
(* for the bridge not by the stream key.                                   *)
Lookup(n) == IF Nameless(n) THEN None ELSE idMap[n]

Chain(for, r) == CASE role = "further" -> <<DsKey(r)>>
                   [] for = "bridge"   -> <<DsKey(r), SensorKey(r)>>
                   [] OTHER            -> <<DsKey(r), KeyKey(r), SensorKey(r)>>

Mapped(for, r) ==
  LET i == SelectInSeq(Chain(for, r), LAMBDA n : Lookup(n) # None)
  IN  IF i = 0 THEN None ELSE Lookup(Chain(for, r)[i])

Ended(j, s, by) == [j EXCEPT !.at = "done", !.id = s, !.by = by]

End(t, s, by) == Set(t, Ended(job[t], s, by))

(* After the push of a reading to the primary comes its forwarding to the  *)
(* monitoring module.                                                      *)
Return(t) ==
  /\ job[t].at = "done"
  /\ Set(t, IF role = "primary" /\ job[t].for = "push" /\ job[t].by # <<"raised">>
            THEN [Idle EXCEPT !.for = "monitor", !.at = "begin",
                              !.r = job[t].r, !.pushed = job[t].id,
                              !.moved = job[t].moved]
            ELSE Idle)
  /\ UNCHANGED <<role, live, warm, caches, soft, deletions, faults>>

StartPush(t, r) ==
  /\ warm /\ job[t].at = "idle" /\ "push" \in Purposes
  /\ Set(t, [Idle EXCEPT !.for = "push", !.at = "begin", !.r = r])
  /\ UNCHANGED <<role, live, warm, caches, soft, deletions, faults>>

(* POST /connector/monitoring-mqtt-push, and its preview.                  *)
StartBridge(t, r) ==
  /\ warm /\ job[t].at = "idle" /\ "bridge" \in Purposes /\ role = "primary"
  /\ Set(t, [Idle EXCEPT !.for = "bridge", !.at = "begin", !.r = r])
  /\ UNCHANGED <<role, live, warm, caches, soft, deletions, faults>>

(* Fault: the monitoring module is told of live lookups only.              *)
FaultFromMap(t) ==
  IF job[t].for = "monitor" THEN None ELSE Mapped(job[t].for, job[t].r)

FromMap(t) == Mapped(job[t].for, job[t].r)

BeginMapped(t) ==
  /\ job[t].at = "begin" /\ FromMap(t) # None
  /\ End(t, FromMap(t), <<"map">>)
  /\ UNCHANGED <<role, live, warm, caches, soft, deletions, faults>>

(* While the breaker is open a push does not look anything up.             *)
BeginOpen(t) ==
  /\ job[t].at = "begin" /\ FromMap(t) = None /\ job[t].for = "push"
  /\ End(t, None, <<"open">>)
  /\ UNCHANGED <<role, live, warm, caches, soft, deletions, faults>>

BeginLive(t) ==
  /\ job[t].at = "begin" /\ FromMap(t) = None
  /\ Set(t, [job[t] EXCEPT !.at = "cache",
               !.own = live \intersect Own(job[t].r) # {}])
  /\ UNCHANGED <<role, live, warm, caches, soft, deletions, faults>>

-----------------------------------------------------------------------------
(* _resolve_datastream_id_live()                                           *)

CachedAt(h, r) == SelectInSeq(KeysOf[r], LAMBDA k : h[k] # None)

HitIn(h, r) ==
  LET i == CachedAt(h, r)
  IN  IF i = 0 THEN None ELSE h[KeysOf[r][i]]

Hit(r) == HitIn(hits, r)

LookInHits(t) ==
  /\ job[t].at = "cache"
  /\ LET r == job[t].r
         s == Hit(r)
     IN  IF s # None THEN End(t, s, KeysOf[r][CachedAt(hits, r)])
         ELSE Set(t, [job[t] EXCEPT !.at = "miss"])
  /\ UNCHANGED <<role, live, warm, caches, soft, deletions, faults>>

(* Fault: a miss is in force until it is dropped.                          *)
FaultInForce(k) == misses[k] >= 0

InForce(k) == misses[k] > 0

LookInMisses(t) ==
  LET k == MissKey(job[t].r)
  IN  /\ job[t].at = "miss"
      /\ \/ InForce(k) /\ End(t, None, <<"miss", misses[k]>>)
         \/ /\ ~InForce(k)
            /\ Set(t, IF misses[k] = Absent THEN [job[t] EXCEPT !.at = "ask", !.n = 1]
                      ELSE [job[t] EXCEPT !.at = "drop"])
      /\ UNCHANGED <<role, live, warm, caches, soft, deletions, faults>>

(* History: other threads about to drop the same miss come too late.       *)
Raced(t, jobs) ==
  [u \in Threads |->
     IF u # t /\ jobs[u].at = "drop" /\ MissKey(jobs[u].r) = MissKey(job[t].r)
     THEN [jobs[u] EXCEPT !.raced = TRUE] ELSE jobs[u]]

Drop(t) ==
  LET k == MissKey(job[t].r)
  IN  /\ job[t].at = "drop" /\ misses[k] # Absent
      /\ misses' = [misses EXCEPT ![k] = Absent]
      /\ job' = Raced(t, [job EXCEPT ![t].at = "ask", ![t].n = 1])
      /\ UNCHANGED <<role, live, warm, idMap, hits, soft, deletions, faults>>

(* The del statement raises KeyError: out of the push, with all its        *)
(* readings; the monitoring module goes without the reading.               *)
DropRaises(t) ==
  /\ job[t].at = "drop" /\ misses[MissKey(job[t].r)] = Absent
  /\ End(t, None, <<"raised">>)
  /\ UNCHANGED <<role, live, warm, caches, soft, deletions, faults>>

NextQuery(t) == Queries(job[t].r)[job[t].n]

(* Whatever the server lists first; two threads may find different ones.   *)
AskFinds(t) ==
  /\ job[t].at = "ask"
  /\ \E s \in Matches(NextQuery(t)) :
       LET k == NextQuery(t).under
           j == job[t]
           now  == [hits EXCEPT ![k] = s]
           jobs == Moved({u \in Threads \ {t} :
                            /\ job[u] # Idle
                            /\ Hit(job[u].r) \notin {None, HitIn(now, job[u].r)}})
       IN  /\ hits' = now
           /\ soft' = IF j.failed \/ j.moved \/ ~j.own
                      THEN soft \union {k} ELSE soft
           /\ job' = [jobs EXCEPT ![t] = [Ended(j, s, k) EXCEPT
                                        !.moved = @ \/ HitIn(now, j.r) # s]]
  /\ UNCHANGED <<role, live, warm, idMap, misses, deletions, faults>>

AfterMiss(t, j) ==
  IF j.n < Len(Queries(j.r))
  THEN Set(t, [j EXCEPT !.n = @ + 1]) /\ UNCHANGED misses
  ELSE /\ misses' = [misses EXCEPT ![MissKey(j.r)] = TTL]
       /\ Set(t, Ended(j, None, <<"asked">>))

AskFindsNone(t) ==
  /\ job[t].at = "ask" /\ Matches(NextQuery(t)) = {}
  /\ AfterMiss(t, job[t])
  /\ UNCHANGED <<role, live, warm, idMap, hits, soft, deletions, faults>>

(* find_by_filter() returns None for any error.                            *)
AskFails(t) ==
  /\ job[t].at = "ask" /\ faults < MaxFaults
  /\ faults' = faults + 1
  /\ AfterMiss(t, [job[t] EXCEPT !.failed = TRUE])
  /\ UNCHANGED <<role, live, warm, idMap, hits, soft, deletions>>

Step(t) ==
  \/ \E r \in Readings : StartPush(t, r) \/ StartBridge(t, r)
  \/ Return(t) \/ BeginMapped(t) \/ BeginOpen(t) \/ BeginLive(t)
  \/ LookInHits(t) \/ LookInMisses(t) \/ Drop(t) \/ DropRaises(t)
  \/ AskFinds(t) \/ AskFindsNone(t) \/ AskFails(t)

Next ==
  \/ WarmUp \/ Tick
  \/ \E s \in Streams : Register(s) \/ Appear(s) \/ Delete(s)
  \/ \E t \in Threads : Step(t)

Spec == Init /\ [][Next]_vars

(* Every source is polled again and again, the forwarding to monitoring    *)
(* does not depend on the breaker, the breaker of a target that answers    *)
(* closes, and time passes.                                                *)
FairSpec ==
  /\ Spec
  /\ WF_vars(WarmUp) /\ WF_vars(Tick)
  /\ \A t \in Threads :
       /\ WF_vars(Step(t))
       /\ \A r \in Readings : /\ SF_vars(StartPush(t, r))
                             /\ SF_vars(BeginLive(t) /\ job[t].r = r)

-----------------------------------------------------------------------------
(* Types; a thread asks no query beyond the last of its reading.           *)
TypeOK ==
  /\ role \in Roles /\ live \subseteq Streams /\ warm \in BOOLEAN
  /\ idMap \in [Names -> Streams \union {None}]
  /\ hits \in [Keys -> Streams \union {None}] /\ misses \in [Keys -> Absent .. TTL]
  /\ \A t \in Threads :
       /\ job[t].for \in {"nothing", "push", "monitor", "bridge"}
       /\ job[t].at \in {"idle", "begin", "cache", "miss", "drop", "ask",
                        "done"}
       /\ job[t].r \in Readings \union {None}
       /\ job[t].at = "ask" => job[t].n \in 1 .. Len(Queries(job[t].r))
       /\ job[t].pushed \in Streams \union {None}
  /\ soft \subseteq Keys
  /\ deletions \in 0 .. MaxDeletions /\ faults \in 0 .. MaxFaults

(* A resolution that has ended, with an id or without.                     *)
Done(t)       == job[t].at = "done"
Found(t)      == job[t].id # None
Astray(t)     == Done(t) /\ Found(t) /\ job[t].id \notin Own(job[t].r)
Unresolved(t) == Done(t) /\ ~Found(t)

(* A reading goes to the datastream of another one only because the id map *)
(* has no datastream of its sensor and property and falls back on its      *)
(* stream key or its sensor, or because a live lookup got no answer to its *)
(* better query (it failed, or there was no such datastream yet) and what  *)
(* the next one found is cached for good.                                  *)
AstrayNeedsCause ==
  \A t \in Threads : Astray(t) =>
    IF job[t].by = <<"map">> THEN idMap[DsKey(job[t].r)] = None \/ job[t].moved
    ELSE job[t].by \in soft

(* main.py:257 "so the monitoring push and the FROST push agree on the     *)
(* same id": what was pushed to a datastream of its own is forwarded under *)
(* another id only when a registration, a change on the target or a lookup *)
(* of another thread that the caches prefer came in between.               *)
ForwardedAsPushed ==
  \A t \in Threads :
    Done(t) /\ Found(t) /\ job[t].for = "monitor"
      /\ job[t].pushed \in Own(job[t].r) /\ job[t].id # job[t].pushed
    => job[t].moved

(* A live lookup of a reading whose datastream is there comes back empty   *)
(* only if a query failed, a lookup within the last TTL was in vain, the   *)
(* target changed meanwhile, or another thread dropped the same expired    *)
(* miss first.                                                             *)
UnresolvedNeedsCause ==
  \A t \in Threads : Unresolved(t) /\ job[t].own =>
    \/ job[t].failed \/ job[t].moved \/ job[t].raced
    \/ job[t].by[1] = "miss" /\ job[t].by[2] > 0

(* A reading whose datastream is there to stay gets resolved: no miss      *)
(* stands in the way for ever, whatever the races.                         *)
Resolves ==
  \A r \in Readings :
    <>[](live \intersect Own(r) # {}) => <>(Mapped("push", r) # None \/ Hit(r) # None)
=============================================================================
