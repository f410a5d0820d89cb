--------------------------- MODULE EntityRegistry ---------------------------
(***************************************************************************)
(* Registration of the entities of a site on one SensorThings target, and  *)
(* a task for one of its actuators: services/sensorthings_client.py        *)
(* (register_entity_set, the registration on a further target, sequential  *)
(* and by JSON batch, register_site_tasking, create_task) over             *)
(* frost/entity_manager.py (get_or_create) and frost/cache.py.             *)
(*                                                                         *)
(* The polling loops and the routes register in threads of their own, so   *)
(* registrations overlap.  An entity is its name; the target stores copies *)
(* of it, an id is the number of a copy, None no id.  A site has one       *)
(* sensor with one property.                                               *)
(***************************************************************************)
EXTENDS Integers, Sequences, FiniteSets

CONSTANTS
  Registrars,    \* threads that register
  Purposes,      \* what for: a site, a task
  Roles,         \* what the target may be: primary, sequential, batch
  MaxCopies,     \* bound: copies of one entity ever made
  MaxTasks,      \* bound: tasks ever posted
  MaxRepairs,    \* bound: repairs of missing Locations
  MaxDeletions,  \* bound: entities deleted on the target by somebody else
  MaxFaults      \* bound: failed requests and writes, and restarts

ASSUME RegistryAssumption ==
  /\ Purposes \subseteq {"site", "task"}
  /\ MaxCopies \in Nat /\ MaxTasks \in Nat /\ MaxRepairs \in Nat
  /\ MaxDeletions \in Nat /\ MaxFaults \in Nat
  /\ Roles \subseteq {"primary", "sequential", "batch"}

None == 0
Copies == 1 .. MaxCopies

Entities == {"project", "thing", "location", "sensor", "property", "stream",
             "actuator", "capability", "task"}

(* Names under which ids are cached: a stream has a key that is not its    *)
(* name, a capability is cached for create_task under a key of its own.    *)
Keys == Entities \union {"stream name", "command"}

VARIABLES
  role, honours,   \* the target; it honours a Location's link to its Thing
  made, live,      \* copies ever made, copies stored now
  located,         \* the Things that have a Location
  cache,           \* EntityCache: key -> id
  fresh,           \* keys validated within _VALIDATION_TTL_SECONDS
  batching,        \* it is known to take JSON batches
  reg,             \* each registration: where it is and what it has
  asked,           \* entities_registered of the polling loop of the site
  repair, repairs, \* the repair of missing Locations; those begun
  deletions, faults

client  == <<cache, fresh, batching>>
fixing  == <<repair, repairs>>
vars    == <<role, honours, made, live, located, client, reg, asked, fixing,
             deletions, faults>>

target  == <<role, honours, made, live, located, deletions>>

NoIds == [k \in Keys |-> None]

(* What a payload links to (links to a Project are left out).              *)
Links(e) ==
  CASE e = "location"   -> {"thing"}
    [] e = "stream"     -> {"thing", "sensor", "property"}
    [] e = "capability" -> {"actuator", "thing"}
    [] e = "task"       -> {"capability"}
    [] OTHER            -> {}

(* The ids a registration goes on to use; a PATCH links to the Location.   *)
LinkedTo == {"location"} \union UNION {Links(e) : e \in Entities}

(* The local variables of a registration: the ids it has, what it is to    *)
(* create by a batch (missing), and of what it is about to create how many *)
(* copies there were when it was looked for (seen) and whether that failed *)
(* (blind).  clean is history: no request of it failed, nothing was        *)
(* deleted since it began, and every id it took on trust was that of a     *)
(* stored entity.                                                          *)
Idle == [stage |-> "idle", purpose |-> "site", step |-> 1,
         got |-> [e \in LinkedTo |-> None], missing |-> {},
         seen |-> [e \in Entities |-> 0], blind |-> {}, clean |-> TRUE]

(* Of a repair: Things it has listed, the Location it has for the first.   *)
NoRepair == [stage |-> "idle", todo |-> {}, loc |-> None, seen |-> 0,
             blind |-> FALSE]

(* TargetStack._discover(): what the landing page says of JSON batches, or *)
(* that there are none when it does not answer.  It is read once.          *)
Advertises == role = "batch"
Probed     == {Advertises, FALSE}

Init ==
  /\ role \in Roles /\ honours \in BOOLEAN
  /\ made = [e \in Entities |-> 0] /\ live = [e \in Entities |-> {}]
  /\ located = {}
  /\ cache = NoIds /\ fresh = {}
  /\ batching = Advertises
  /\ reg = [r \in Registrars |-> Idle] /\ asked = FALSE
  /\ repair = NoRepair /\ repairs = 0
  /\ deletions = 0 /\ faults = 0

-----------------------------------------------------------------------------
(* The order in which a registration goes through its entities; only the   *)
(* primary target has Projects.                                            *)
PrimaryPlan == <<"project", "thing", "location", "sensor", "property", "stream">>
FurtherPlan == <<"thing", "location", "sensor", "property", "stream">>
TaskPlan    == <<"actuator", "thing", "capability", "task">>

Plan(r) == CASE reg[r].purpose = "task" -> TaskPlan
             [] role = "primary"        -> PrimaryPlan
             [] OTHER                   -> FurtherPlan

Current(r) == Plan(r)[reg[r].step]
At(r, s)   == reg[r].stage = s

(* _resolve_thing_id() only looks for the Thing and validates it by id.    *)
OnlyLooks(r)   == reg[r].purpose = "task" /\ Current(r) = "thing"
FreshKey(r, e) == IF OnlyLooks(r) THEN "thing by id" ELSE e

(* Without these a registration does not go on (one sensor: nothing is     *)
(* left once its datastreams are skipped).                                 *)
Essential == {"thing", "sensor", "actuator", "capability"}

Ends(r, e, id) ==
  \/ id = None /\ e \in Essential
  \/ reg[r].step = Len(Plan(r))

(* On a further target the Thing is linked to its Location by a PATCH.     *)
MustLink(e, id) == e = "location" /\ id # None /\ role # "primary"

(* get_or_create() has returned id for e.                                  *)
Keep(got, e, id) == IF e \in LinkedTo THEN [got EXCEPT ![e] = id] ELSE got

Return(r, e, id) ==
  IF Ends(r, e, id) THEN Idle
  ELSE [reg[r] EXCEPT !.got = Keep(@, e, id), !.step = @ + 1,
          !.seen = Idle.seen, !.blind = {},
          !.stage = IF MustLink(e, id) THEN "linking"
                    ELSE IF Plan(r)[reg[r].step + 1] = "task" THEN "tasking"
                    ELSE "cached"]

Go(r, s) == reg' = [reg EXCEPT ![r] = s]

Soiled(s) == IF s = Idle THEN Idle ELSE [s EXCEPT !.clean = FALSE]

(* A request or a write of registration r fails, and it goes on with s.    *)
Fail(r, s) ==
  /\ faults < MaxFaults
  /\ faults' = faults + 1
  /\ Go(r, Soiled(s))

(* EntityCache.put(); register_site_tasking() caches a capability once     *)
(* more, for create_task().                                                *)
Put(e, id) ==
  cache' = [cache EXCEPT ![e] = id,
              !["command"] = IF e = "capability" THEN id ELSE @]

-----------------------------------------------------------------------------
RegisterSite(r) ==
  /\ At(r, "idle") /\ "site" \in Purposes
  /\ Go(r, [Idle EXCEPT !.stage = IF batching THEN "batch_find" ELSE "cached"])
  /\ UNCHANGED <<target, client, fixing, faults>>

(* The polling loop registers its sites once, before it fetches or, with   *)
(* sites known only from data, at the first.  A failure does not reach it: *)
(* register_entity_set() logs it and returns, and the loop takes the sites *)
(* for registered.                                                         *)
LoopRegisters(r) ==
  /\ ~asked /\ RegisterSite(r)
  /\ asked' = TRUE

(* A route registers the site, at an operator's request (before the loop's *)
(* it would be the same step).                                             *)
BeginSite(r) ==
  /\ asked /\ RegisterSite(r)
  /\ UNCHANGED asked

(* create_task(), on the primary target, takes a capability id it knows    *)
(* without a look at the target; else it registers the site's tasking.     *)
BeginTask(r) ==
  /\ At(r, "idle") /\ "task" \in Purposes /\ role = "primary"
  /\ made["task"] + 2 <= MaxTasks
  /\ LET task == [Idle EXCEPT !.purpose = "task"] IN
     Go(r, IF cache["command"] = None THEN [task EXCEPT !.stage = "cached"]
           ELSE [task EXCEPT !.stage = "tasking", !.step = 4,
                             !.got["capability"] = cache["command"]])
  /\ UNCHANGED <<target, asked, client, fixing, faults>>

(* get_or_create(), the cache.                                             *)
CacheMiss(r) ==
  /\ At(r, "cached") /\ cache[Current(r)] = None
  /\ Go(r, [reg[r] EXCEPT !.stage = "finding"])
  /\ UNCHANGED <<target, asked, client, fixing, faults>>

(* Fault: a cached id is never checked.                                    *)
FaultTrustsAll(r, e) == TRUE

Trusts(r, e) == FreshKey(r, e) \in fresh

CacheTrusted(r) ==
  LET e == Current(r) IN
  /\ At(r, "cached") /\ cache[e] # None /\ Trusts(r, e)
  /\ Go(r, [Return(r, e, cache[e]) EXCEPT !.clean = @ /\ cache[e] \in live[e]])
  /\ UNCHANGED <<target, asked, client, fixing, faults>>

(* An id validated longer ago is checked on the target.                    *)
CacheValid(r) ==
  LET e == Current(r) IN
  /\ At(r, "cached") /\ cache[e] \in live[e] /\ ~Trusts(r, e)
  /\ fresh' = fresh \union {FreshKey(r, e)}
  /\ Go(r, Return(r, e, cache[e]))
  /\ UNCHANGED <<target, asked, cache, batching, fixing, faults>>

AfterDrop(r, e) == [reg[r] EXCEPT !.stage = "finding"]

(* Its entity is gone, or there is no answer: it is dropped.               *)
CacheInvalid(r) ==
  LET e == Current(r) IN
  /\ At(r, "cached") /\ cache[e] # None /\ ~Trusts(r, e)
  /\ \/ cache[e] \notin live[e] /\ Go(r, AfterDrop(r, e)) /\ UNCHANGED faults
     \/ Fail(r, AfterDrop(r, e))
  /\ cache' = [cache EXCEPT ![e] = None]
  /\ UNCHANGED <<target, asked, fresh, batching, fixing>>

(* find_by_name(), for a stream by its key first, which is nobody's name.  *)
Find(r) ==
  LET e == Current(r) IN
  /\ At(r, "finding")
  /\ \E id \in live[e] : Put(e, id) /\ Go(r, Return(r, e, id))
  /\ UNCHANGED <<target, asked, fresh, batching, fixing, faults>>

(* Fault: a stream is searched by its key only.                            *)
FaultKeyOnly(e) == e = "stream" \/ live[e] = {}

NotStored(e) == live[e] = {}

AfterMiss(r, e) ==
  IF OnlyLooks(r) THEN Return(r, e, None)
  ELSE [reg[r] EXCEPT !.stage = "creating", !.seen[e] = made[e]]

FindMiss(r) ==
  LET e == Current(r) IN
  /\ At(r, "finding") /\ NotStored(e)
  /\ Go(r, AfterMiss(r, e))
  /\ UNCHANGED <<target, asked, client, fixing, faults>>

(* A search that fails, for whatever reason, returns None like one that    *)
(* finds nothing.                                                          *)
FindFails(r) ==
  LET e == Current(r) IN
  /\ At(r, "finding")
  /\ Fail(r, [AfterMiss(r, e) EXCEPT !.blind = {e}])
  /\ UNCHANGED <<target, asked, client, fixing>>

-----------------------------------------------------------------------------
(* The target refuses a link to nothing.                                   *)
Linked(got, e) == \A d \in Links(e) : got[d] \in live[d]

Store(S) ==
  /\ \A e \in S : made[e] < MaxCopies
  /\ made' = [e \in Entities |-> IF e \in S THEN made[e] + 1 ELSE made[e]]
  /\ live' = [e \in Entities |-> IF e \in S THEN live[e] \union {made[e] + 1}
                                 ELSE live[e]]

(* A stored Location is that of its Thing where the target honours it.     *)
Locate(S, thing) ==
  located' = located \union (IF "location" \in S /\ honours THEN {thing} ELSE {})

Create(r) ==
  LET e == Current(r) IN
  /\ At(r, "creating") /\ Linked(reg[r].got, e)
  /\ Store({e}) /\ Locate({e}, reg[r].got["thing"])
  /\ Put(e, made[e] + 1)
  /\ Go(r, Return(r, e, made[e] + 1))
  /\ UNCHANGED <<role, honours, asked, deletions, fresh, batching, fixing, faults>>

(* The answer is lost, or it carries no id: stored, but not known.         *)
CreateLost(r) ==
  LET e == Current(r) IN
  /\ At(r, "creating") /\ Linked(reg[r].got, e)
  /\ Store({e}) /\ Locate({e}, reg[r].got["thing"])
  /\ Fail(r, Return(r, e, None))
  /\ UNCHANGED <<role, honours, asked, deletions, client, fixing>>

CreateFails(r) ==
  LET e == Current(r) IN
  /\ At(r, "creating")
  /\ \/ ~Linked(reg[r].got, e) /\ Go(r, Return(r, e, None)) /\ UNCHANGED faults
     \/ Fail(r, Return(r, e, None))
  /\ UNCHANGED <<target, asked, client, fixing>>

(* The cache file cannot be written after a put: the exception ends the    *)
(* registration on this target.                                            *)
SaveRaises(r) ==
  LET e == Current(r) IN
  /\ At(r, "finding")
  /\ \E id \in live[e] : Put(e, id)
  /\ Fail(r, Idle)
  /\ UNCHANGED <<target, asked, fresh, batching, fixing>>

(* The PATCH that links Thing and Location, if both are still there; a     *)
(* failure is only logged.                                                 *)
AfterLink(r) ==
  IF reg[r].step > Len(Plan(r)) THEN Idle
  ELSE [reg[r] EXCEPT !.stage = "cached", !.got["location"] = None]

Link(r) ==
  LET got   == reg[r].got
      there == got["thing"] \in live["thing"] /\ got["location"] \in live["location"]
  IN  /\ At(r, "linking")
      /\ \/ /\ located' = located \union (IF there THEN {got["thing"]} ELSE {})
            /\ Go(r, AfterLink(r)) /\ UNCHANGED faults
         \/ Fail(r, AfterLink(r)) /\ UNCHANGED located
      /\ UNCHANGED <<role, honours, asked, made, live, deletions, client, fixing>>

-----------------------------------------------------------------------------
(* _register_entity_set_on_stack_batch(): one request looks for every      *)
(* entity, a second creates what the first did not find.  Neither consults *)
(* the cache.                                                              *)
Planned(r) == {Plan(r)[i] : i \in DOMAIN Plan(r)}

(* Of the copies of an entity the batch answers with one, here the oldest. *)
OldestOf(e) ==
  IF live[e] = {} THEN None ELSE CHOOSE i \in live[e] : \A j \in live[e] : i <= j

(* The entities in S are not found.                                        *)
AfterBatchFind(r, S) ==
  [reg[r] EXCEPT !.stage = "batch_create", !.seen = made, !.blind = S,
     !.missing = {e \in Planned(r) : e \in S \/ live[e] = {}},
     !.got = [e \in LinkedTo |-> IF e \in Planned(r) \ S THEN OldestOf(e)
                                ELSE None]]

BatchFind(r) ==
  /\ At(r, "batch_find")
  /\ Go(r, AfterBatchFind(r, {}))
  /\ UNCHANGED <<target, asked, client, fixing, faults>>

(* No usable answer to the batch, or to some of it: taken for not found.   *)
BatchFindFails(r) ==
  /\ At(r, "batch_find")
  /\ \E S \in {Planned(r)} \union {{e} : e \in Planned(r)} :
       Fail(r, AfterBatchFind(r, S))
  /\ UNCHANGED <<target, asked, client, fixing>>

(* Whose links were found, or are created by the same batch.               *)
Supported(r, S) ==
  \A e \in S : \A d \in Links(e) : d \in S \/ reg[r].got[d] \in live[d]

(* Fault: a stream is looked for but not created.                          *)
FaultNoStream(r) == reg[r].missing \ {"stream"}

ToCreate(r) == reg[r].missing

(* batch_create() caches under the payload's name, a stream not under the  *)
(* key a push looks it up by.                                              *)
BatchKey(e) == IF e = "stream" THEN "stream name" ELSE e

(* The target creates the entities one by one, in S those that succeed;    *)
(* then Thing and Location are linked.                                     *)
AfterBatch(r, known) ==
  LET id(e) == IF e \in known THEN made[e] + 1 ELSE reg[r].got[e]
  IN  IF None \in {id("thing"), id("location")} THEN Idle
      ELSE [reg[r] EXCEPT !.got["thing"] = id("thing"),
              !.got["location"] = id("location"), !.stage = "linking",
              !.step = Len(Plan(r)) + 1, !.missing = {}]

PutAll(known) ==
  cache' = [k \in Keys |->
              IF \E e \in known : BatchKey(e) = k
              THEN made[CHOOSE e \in known : BatchKey(e) = k] + 1
              ELSE cache[k]]

BatchEffect(r, S) ==
  /\ Supported(r, S) /\ Store(S)
  /\ Locate(S, IF "thing" \in S THEN made["thing"] + 1 ELSE reg[r].got["thing"])

BatchCreate(r) ==
  LET S == ToCreate(r) IN
  /\ At(r, "batch_create")
  /\ BatchEffect(r, S) /\ PutAll(S)
  /\ Go(r, AfterBatch(r, S))
  /\ UNCHANGED <<role, honours, asked, deletions, fresh, batching, fixing, faults>>

(* Some of it fails, or the whole answer is lost.  Anything that is raised *)
(* falls back to the sequential path.                                      *)
BatchCreateFails(r) ==
  /\ At(r, "batch_create")
  /\ \E S \in SUBSET ToCreate(r) :
       /\ BatchEffect(r, S)
       /\ \/ PutAll(S) /\ Fail(r, AfterBatch(r, S))
          \/ PutAll({}) /\ Fail(r, AfterBatch(r, {}))
          \/ PutAll(S) /\ Fail(r, [Idle EXCEPT !.stage = "cached"])
  /\ UNCHANGED <<role, honours, asked, deletions, fresh, batching, fixing>>

(* A link of it died since it was found: refused, with what depends on it. *)
BatchRefused(r) ==
  /\ At(r, "batch_create") /\ ~Supported(r, ToCreate(r))
  /\ \E S \in SUBSET ToCreate(r) :
       /\ \A T \in SUBSET ToCreate(r) : Supported(r, T) => T \subseteq S
       /\ BatchEffect(r, S) /\ PutAll(S)
       /\ Go(r, AfterBatch(r, S))
  /\ UNCHANGED <<role, honours, asked, deletions, fresh, batching, fixing, faults>>

-----------------------------------------------------------------------------
(* create_task(): POST to the capability, and if that answer is not ok to  *)
(* the collection.                                                         *)
(* Fault: the second POST follows an answer that was ok.                   *)
FaultPostsAgain(r) ==
  IF At(r, "tasking") THEN [reg[r] EXCEPT !.stage = "fallback"] ELSE Idle

AfterPost(r) == IF At(r, "tasking") THEN [reg[r] EXCEPT !.stage = "fallback"] ELSE Idle

AfterOk(r) == Idle

PostTask(r) ==
  /\ reg[r].stage \in {"tasking", "fallback"}
  /\ Linked(reg[r].got, "task") /\ Store({"task"})
  /\ \/ Go(r, AfterOk(r)) /\ UNCHANGED faults
     \/ Fail(r, AfterPost(r))
  /\ UNCHANGED <<role, honours, asked, located, deletions, client, fixing>>

PostTaskRefused(r) ==
  /\ reg[r].stage \in {"tasking", "fallback"}
  /\ \/ ~Linked(reg[r].got, "task") /\ Go(r, AfterPost(r)) /\ UNCHANGED faults
     \/ Fail(r, AfterPost(r))
  /\ UNCHANGED <<target, asked, client, fixing>>

-----------------------------------------------------------------------------
(* collaborall_fix_locations(): an operator has every Thing of a further   *)
(* target that has no Location linked to the one it has on the primary     *)
(* target, which is created here unless a search finds it.                 *)
RepairAt(s) == repair.stage = s

Fix(x) == repair' = x /\ UNCHANGED <<client, reg, repairs>>

FixFails(x) == Fix(x) /\ faults < MaxFaults /\ faults' = faults + 1

(* The Thing that is its turn, and what follows it.                        *)
Turn == CHOOSE i \in repair.todo : \A j \in repair.todo : i <= j

NextThing ==
  IF repair.todo = {Turn} THEN NoRepair
  ELSE [NoRepair EXCEPT !.stage = "finding", !.todo = repair.todo \ {Turn}]

RepairList ==
  /\ RepairAt("idle") /\ role # "primary" /\ repairs < MaxRepairs
  /\ live["thing"] \ located # {}
  /\ repair' = [NoRepair EXCEPT !.stage = "finding",
                               !.todo = live["thing"] \ located]
  /\ repairs' = repairs + 1
  /\ UNCHANGED <<target, asked, client, reg, faults>>

(* The primary has no Location for it, or does not answer.                 *)
RepairSkip ==
  /\ RepairAt("finding")
  /\ Fix(NextThing)
  /\ UNCHANGED <<target, asked, faults>>

RepairFind ==
  /\ RepairAt("finding")
  /\ \E id \in live["location"] :
       Fix([repair EXCEPT !.stage = "linking", !.loc = id])
  /\ UNCHANGED <<target, asked, faults>>

(* Nothing is found, or the search fails, which is taken for the same.     *)
RepairMiss ==
  /\ RepairAt("finding")
  /\ LET missed == [repair EXCEPT !.stage = "creating", !.seen = made["location"]]
     IN  \/ NotStored("location") /\ Fix(missed) /\ UNCHANGED faults
         \/ FixFails([missed EXCEPT !.blind = TRUE])
  /\ UNCHANGED <<target, asked>>

RepairCreate ==
  /\ RepairAt("creating") /\ Store({"location"})
  /\ \/ /\ Fix([repair EXCEPT !.stage = "linking", !.loc = made["location"] + 1])
        /\ UNCHANGED faults
     \/ FixFails(NextThing)
  /\ UNCHANGED <<role, honours, asked, located, deletions>>

RepairCreateFails ==
  /\ RepairAt("creating")
  /\ FixFails(NextThing)
  /\ UNCHANGED <<target, asked>>

(* The PATCH that links the two: refused if one is gone.                   *)
RepairLink ==
  /\ RepairAt("linking")
  /\ \/ /\ Turn \in live["thing"] /\ repair.loc \in live["location"]
        /\ located' = located \union {Turn}
        /\ Fix(NextThing) /\ UNCHANGED faults
     \/ /\ Turn \notin live["thing"] \/ repair.loc \notin live["location"]
        /\ Fix(NextThing) /\ UNCHANGED <<located, faults>>
     \/ FixFails(NextThing) /\ UNCHANGED located
  /\ UNCHANGED <<role, honours, asked, made, live, deletions>>

Repair ==
  \/ RepairList \/ RepairSkip \/ RepairFind \/ RepairMiss
  \/ RepairCreate \/ RepairCreateFails \/ RepairLink

-----------------------------------------------------------------------------
(* _VALIDATION_TTL_SECONDS pass.                                           *)
Expire ==
  /\ fresh # {}
  /\ fresh' = {}
  /\ UNCHANGED <<target, asked, cache, reg, batching, fixing, faults>>

(* Somebody deletes an entity on the target.                               *)
Delete(e) ==
  /\ deletions < MaxDeletions
  /\ deletions' = deletions + 1
  /\ \E id \in live[e] :
       /\ live' = [live EXCEPT ![e] = @ \ {id}]
       /\ located' = IF e = "thing" THEN located \ {id} ELSE located
  /\ reg' = [r \in Registrars |-> Soiled(reg[r])]
  /\ UNCHANGED <<role, honours, asked, made, client, fixing, faults>>

(* What _load() makes of the file: the text of the last put or drop, that  *)
(* of one before it when two threads wrote at once or the process ended    *)
(* before the write, nothing if it ended within it.                        *)
Loaded ==
  {cache, NoIds} \union
  {[cache EXCEPT ![k] = id] : k \in Keys, id \in {None} \union Copies}

(* A restart loads the file and validates everything anew.                 *)
Known(c) == \A k \in Keys : c[k] <= made[IF k = "stream name" THEN "stream"
                                         ELSE IF k = "command" THEN "capability"
                                         ELSE k]

Restart ==
  /\ faults < MaxFaults
  /\ faults' = faults + 1
  /\ \E c \in Loaded : Known(c) /\ cache' = c
  /\ fresh' = {} /\ batching' \in Probed
  /\ reg' = [r \in Registrars |-> Idle] /\ repair' = NoRepair
  /\ asked' = FALSE
  /\ UNCHANGED <<target, repairs>>

Step(r) ==
  \/ CacheMiss(r) \/ CacheTrusted(r) \/ CacheValid(r) \/ CacheInvalid(r)
  \/ Find(r) \/ FindMiss(r) \/ FindFails(r)
  \/ Create(r) \/ CreateLost(r) \/ CreateFails(r) \/ SaveRaises(r) \/ Link(r)
  \/ BatchFind(r) \/ BatchFindFails(r)
  \/ BatchCreate(r) \/ BatchCreateFails(r) \/ BatchRefused(r)
  \/ PostTask(r) \/ PostTaskRefused(r)

Next ==
  \/ \E r \in Registrars : LoopRegisters(r) \/ BeginSite(r)
  \/ \E r \in Registrars : BeginTask(r) \/ Step(r)
  \/ Repair
  \/ Expire
  \/ \E e \in Entities \ {"task"} : Delete(e)
  \/ Restart

Spec == Init /\ [][Next]_vars

(* Every request has a timeout, validations grow old, and the polling loop *)
(* comes to its registration, in a thread of its own.  No operator has to  *)
(* ask for one.                                                            *)
FairSpec ==
  /\ Spec
  /\ \A r \in Registrars : WF_vars(Step(r))
  /\ WF_vars(Expire)
  /\ SF_vars(\E r \in Registrars : LoopRegisters(r))

-----------------------------------------------------------------------------
(* Types; one server has made what is in its tables, and the caches only   *)
(* hold what the server has made.                                          *)
TypeOK ==
  /\ role \in Roles /\ honours \in BOOLEAN
  /\ deletions \in 0 .. MaxDeletions /\ faults \in 0 .. MaxFaults
  /\ made \in [Entities -> 0 .. MaxCopies]
  /\ \A e \in Entities : live[e] \subseteq 1 .. made[e]
  /\ located \subseteq live["thing"]
  /\ fresh \subseteq Keys \union {"thing by id"}
  /\ cache \in [Keys -> 0 .. MaxCopies] /\ Known(cache)
  /\ DOMAIN reg = Registrars
  /\ batching \in Probed /\ repairs \in 0 .. MaxRepairs
  /\ repair.todo \subseteq 1 .. made["thing"]

(* Whatever overlaps or fails, a second copy of a stored entity is only    *)
(* made by a registration (or, of a Location, by a repair) whose search    *)
(* failed, or that searched before the stored one was made.                *)
DuplicateNeedsCause ==
  [][\A e \in Entities \ {"task"} :
       (made[e] < made'[e] /\ live[e] # {}) =>
         \/ \E r \in Registrars :
              /\ reg'[r] # reg[r]
              /\ e \in reg[r].blind \/ \A id \in live[e] : id > reg[r].seen[e]
         \/ /\ e = "location" /\ repair' # repair
            /\ repair.blind \/ \A id \in live[e] : id > repair.seen]_vars

(* A registration that nothing went wrong for leaves every entity of the   *)
(* site on the target, and its Thing with a Location where the code sees   *)
(* to that.                                                                *)
LeavesSiteComplete ==
  [][\A r \in Registrars :
       ~At(r, "idle") /\ reg'[r].stage = "idle" /\ reg[r].purpose = "site"
         /\ reg[r].clean /\ reg'[r].clean /\ faults' = faults =>
           /\ \A e \in Planned(r) : live'[e] # {}
           /\ role = "primary" \/ reg[r].got["thing"] \in located']_vars

(* An actuator gets the command of one request twice only if an answer was *)
(* lost: the second POST follows the first only then.                      *)
TaskedOnce ==
  [][\A r \in Registrars :
       At(r, "fallback") /\ reg[r].clean => made'["task"] = made["task"]
                                            \/ reg'[r] = reg[r]]_vars

(* What a registration is for; on a target not known to take batches its   *)
(* stream is then known by its key.                                        *)
SiteKnown ==
  /\ \A e \in {"thing", "location", "sensor", "property", "stream"} : live[e] # {}
  /\ ~batching => cache["stream"] \in live["stream"]

(* Once nothing fails any more, an operator who goes on registering brings *)
(* the site back for good, through losses of the cache and ids of deleted  *)
(* entities.                                                               *)
RegisteringHeals ==
  []<><<\E r \in Registrars : BeginSite(r)>>_vars => <>[]SiteKnown

-----------------------------------------------------------------------------
(* What the documents say, checked by an expected violation.               *)

(* entity_manager.py: "idempotent get-or-create semantics".  One           *)
(* registration at a time leaves one copy of an entity.                    *)
GetOrCreateIdempotent ==
  \A e \in Entities \ {"task"} : Cardinality(live[e]) <= 1

(* main.py, _polling_ingest_loop: "If eager registration failed, retry on  *)
(* data arrival".  Without an operator, once nothing fails any more.       *)
FailedIsRetried == <>[]SiteKnown
=============================================================================
