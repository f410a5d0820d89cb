--------------------------- MODULE CircuitBreaker ---------------------------
(***************************************************************************)
(* The per-target breaker of app/frost/circuit_breaker.py and the two      *)
(* kinds of thread that drive it: push cycles (one thread per cycle and    *)
(* target, push_observations) and dead-letter replay passes, which ask for *)
(* admission but report nothing back.                                      *)
(*                                                                         *)
(* opened_at is kept as the time since the breaker opened, saturating at   *)
(* the cooldown because allow() and snapshot() only compare it with that.  *)
(***************************************************************************)
EXTENDS Integers, Sequences

CONSTANTS
  Targets,            \* normalised target URLs
  Pushers,            \* concurrent push cycles: worker, polling loops, routes
  Replayers,          \* concurrent replay passes: the loop and the route
  DefaultThreshold,   \* failure_threshold
  DefaultCooldown,    \* cooldown_seconds, in ticks
  Overrides,          \* the override patterns in order, each with the targets
                      \* it matches and its two settings
  Unset               \* a setting that an override does not give

NotOpen == -1         \* opened_at is None

(* The first matching override wins; a missing key falls back to the       *)
(* default of the breaker.                                                 *)
Setting(t, key, default) ==
  LET hits  == {i \in DOMAIN Overrides : t \in Overrides[i].matches}
      first == CHOOSE i \in hits : \A j \in hits : i <= j
  IN  IF hits = {} \/ Overrides[first][key] = Unset
        THEN default ELSE Overrides[first][key]

Threshold ==
  [t \in Targets |-> Setting(t, "failure_threshold", DefaultThreshold)]
Cooldown  ==
  [t \in Targets |-> Setting(t, "cooldown_seconds", DefaultCooldown)]

(* int() and float() make the resolved settings numbers; nothing stops an  *)
(* override from setting the threshold to zero or below.                   *)
ASSUME ThresholdsResolve ==
  Threshold \in [Targets -> Int] /\ Cooldown \in [Targets -> Nat]

ASSUME CallersDistinct == Pushers \intersect Replayers = {}

Callers == Pushers \union Replayers

(* The failures at which a closed breaker opens: a failure is counted      *)
(* before it is compared, so a threshold of zero opens at the first one.   *)
Limit == [t \in Targets |-> IF Threshold[t] > 1 THEN Threshold[t] ELSE 1]

PushStages ==
  {"idle", "skipped", "admitted", "nothing_sent", "some_sent",
   "was_open", "was_closed", "opened", "closed"}
ReplayStages == {"idle", "replaying"}

VARIABLES
  failures,    \* consecutive_failures of each target
  openFor,     \* time since opened_at, NotOpen for None
  stage,       \* where each caller's thread for each target is
  answers,     \* environment: the target accepts observations
  journal,     \* the last breaker incident written for the target
  streak,      \* history: failures recorded since the last success
  trial        \* history: callers admitted since the breaker went half-open,
               \* empty again once one of them (or another) reports

breaker == <<failures, openFor, streak, trial>>
vars    == <<failures, openFor, stage, answers, journal, streak, trial>>

Init ==
  /\ failures = [t \in Targets |-> 0]
  /\ openFor  = [t \in Targets |-> NotOpen]
  /\ stage    = [c \in Callers |-> [t \in Targets |-> "idle"]]
  /\ answers  = [t \in Targets |-> TRUE]
  /\ journal  = [t \in Targets |-> "none"]
  /\ streak   = [t \in Targets |-> 0]
  /\ trial    = [t \in Targets |-> {}]

Open(t)         == openFor[t] # NotOpen
CooledDown(t)   == Open(t) /\ openFor[t] >= Cooldown[t]
(* Fault: no half-open state, an open target waits for a success.          *)
FaultNoHalfOpen(t) == ~Open(t)

Admits(t)       == ~Open(t) \/ CooledDown(t)
SnapshotOpen(t) == Open(t) /\ openFor[t] < Cooldown[t]

Goto(c, t, s) == stage' = [stage EXCEPT ![c][t] = s]

-----------------------------------------------------------------------------
(* Bodies of the breaker's methods, each one critical section.             *)

(* Fault: half-open clears the failure count like a success.               *)
FaultForgetsFailures(t) == 0

(* Fault: the count is left where it was, at the threshold or above.       *)
FaultKeepsCount(t) == failures[t]

(* The count a half-open target restarts from, one failure short of open.  *)
OneShort(t) == IF Threshold[t] > 1 THEN Threshold[t] - 1 ELSE 0

HalfOpen(c, t) ==
  /\ openFor'  = [openFor  EXCEPT ![t] = NotOpen]
  /\ failures' = [failures EXCEPT ![t] = OneShort(t)]
  /\ trial'    = [trial    EXCEPT ![t] = {c}]
  /\ UNCHANGED streak

StayClosed(c, t) ==
  /\ trial' = [trial EXCEPT ![t] = IF @ = {} THEN {} ELSE @ \union {c}]
  /\ UNCHANGED <<failures, openFor, streak>>

AllowEffect(c, t) == IF CooledDown(t) THEN HalfOpen(c, t) ELSE StayClosed(c, t)

(* Fault: every failure past the threshold restarts the cooldown.          *)
FaultReopens(t) == failures[t] + 1 >= Threshold[t]

FailureOpens(t) == failures[t] + 1 >= Threshold[t] /\ ~Open(t)

FailureEffect(t) ==
  /\ failures' = [failures EXCEPT ![t] = @ + 1]
  /\ openFor'  = [openFor  EXCEPT ![t] = IF FailureOpens(t) THEN 0 ELSE @]
  /\ streak'   = [streak   EXCEPT ![t] = IF @ < Limit[t] THEN @ + 1 ELSE @]
  /\ trial'    = [trial    EXCEPT ![t] = {}]

(* Fault: success closes the breaker but keeps the failure count.          *)
FaultCountSurvives(t) ==
  /\ openFor' = [openFor EXCEPT ![t] = NotOpen]
  /\ streak'  = [streak EXCEPT ![t] = 0] /\ trial' = [trial EXCEPT ![t] = {}]
  /\ UNCHANGED failures

SuccessEffect(t) ==
  /\ failures' = [failures EXCEPT ![t] = 0]
  /\ openFor'  = [openFor  EXCEPT ![t] = NotOpen]
  /\ streak'   = [streak   EXCEPT ![t] = 0]
  /\ trial'    = [trial    EXCEPT ![t] = {}]

-----------------------------------------------------------------------------
(* One push cycle against one target: _push_target of push_observations.   *)

StartCycle(p, t) ==
  /\ stage[p][t] = "idle"
  /\ Admits(t)
  /\ AllowEffect(p, t)
  /\ Goto(p, t, "admitted")
  /\ UNCHANGED <<answers, journal>>

SkipCycle(p, t) ==
  /\ stage[p][t] = "idle"
  /\ ~Admits(t)
  /\ Goto(p, t, "skipped")
  /\ UNCHANGED <<breaker, answers, journal>>

(* The whole batch goes to the dead-letter file.                           *)
DeadLetter(p, t) ==
  /\ stage[p][t] = "skipped"
  /\ Goto(p, t, "idle")
  /\ UNCHANGED <<breaker, answers, journal>>

(* No reading resolved to a datastream: nothing is posted or recorded.     *)
NothingToSend(p, t) ==
  /\ stage[p][t] = "admitted"
  /\ Goto(p, t, "idle")
  /\ UNCHANGED <<breaker, answers, journal>>

Exchange(p, t) ==
  /\ stage[p][t] = "admitted"
  /\ Goto(p, t, IF answers[t] THEN "some_sent" ELSE "nothing_sent")
  /\ UNCHANGED <<breaker, answers, journal>>

RecordFailure(p, t) ==
  /\ stage[p][t] = "nothing_sent"
  /\ FailureEffect(t)
  /\ Goto(p, t, IF FailureOpens(t) THEN "opened" ELSE "idle")
  /\ UNCHANGED <<answers, journal>>

ReadSnapshot(p, t) ==
  /\ stage[p][t] = "some_sent"
  /\ Goto(p, t, IF SnapshotOpen(t) THEN "was_open" ELSE "was_closed")
  /\ UNCHANGED <<breaker, answers, journal>>

RecordSuccess(p, t) ==
  /\ stage[p][t] \in {"was_open", "was_closed"}
  /\ SuccessEffect(t)
  /\ Goto(p, t, IF stage[p][t] = "was_open" THEN "closed" ELSE "idle")
  /\ UNCHANGED <<answers, journal>>

JournalIncident(p, t) ==
  /\ stage[p][t] \in {"opened", "closed"}
  /\ journal' = [journal EXCEPT ![t] =
       IF stage[p][t] = "opened" THEN "circuit_open" ELSE "circuit_close"]
  /\ Goto(p, t, "idle")
  /\ UNCHANGED <<breaker, answers>>

-----------------------------------------------------------------------------
(* replay_failed_observations: allow() before each record, no outcome      *)
(* reported.  A refusal keeps the record and changes nothing here.         *)

StartReplay(r, t) ==
  /\ stage[r][t] = "idle"
  /\ Admits(t)
  /\ AllowEffect(r, t)
  /\ Goto(r, t, "replaying")
  /\ UNCHANGED <<answers, journal>>

FinishReplay(r, t) ==
  /\ stage[r][t] = "replaying"
  /\ Goto(r, t, "idle")
  /\ UNCHANGED <<breaker, answers, journal>>

-----------------------------------------------------------------------------
(* Environment: time passes, targets go down and come back.                *)

Cooling == {t \in Targets : Open(t) /\ openFor[t] < Cooldown[t]}

Tick ==
  /\ Cooling # {}
  /\ openFor' = [t \in Targets |->
                   IF t \in Cooling THEN openFor[t] + 1 ELSE openFor[t]]
  /\ UNCHANGED <<failures, stage, answers, journal, streak, trial>>

TargetChanges(t) ==
  /\ answers' = [answers EXCEPT ![t] = ~@]
  /\ UNCHANGED <<breaker, stage, journal>>

PushStep(p, t) ==
  \/ StartCycle(p, t)
  \/ SkipCycle(p, t)
  \/ DeadLetter(p, t)
  \/ NothingToSend(p, t)
  \/ Exchange(p, t)
  \/ RecordFailure(p, t)
  \/ ReadSnapshot(p, t)
  \/ RecordSuccess(p, t)
  \/ JournalIncident(p, t)

ReplayStep(r, t) == StartReplay(r, t) \/ FinishReplay(r, t)

Next ==
  \/ \E p \in Pushers, t \in Targets : PushStep(p, t)
  \/ \E r \in Replayers, t \in Targets : ReplayStep(r, t)
  \/ Tick
  \/ \E t \in Targets : TargetChanges(t)

Spec == Init /\ [][Next]_vars

(* Every ingest loop keeps cycling over every target, and requests time    *)
(* out, so each thread keeps taking steps; time passes.                    *)
FairSpec ==
  /\ Spec
  /\ WF_vars(Tick)
  /\ \A p \in Pushers, t \in Targets : WF_vars(PushStep(p, t))

-----------------------------------------------------------------------------
TypeOK ==
  /\ failures \in [Targets -> Nat]
  /\ openFor \in [Targets -> Nat \union {NotOpen}]
  /\ stage \in [Callers -> [Targets -> PushStages \union ReplayStages]]
  /\ answers \in [Targets -> BOOLEAN]
  /\ journal \in [Targets -> {"none", "circuit_open", "circuit_close"}]
  /\ streak \in [Targets -> Nat]
  /\ trial \in [Targets -> SUBSET Callers]

(* The failure count and opened_at, written by four methods from several   *)
(* threads, always agree: a target is skipped exactly when its count has   *)
(* reached the limit, whatever the threshold override (zero included).     *)
OpenIffThreshold == \A t \in Targets : Open(t) <=> failures[t] >= Limit[t]

(* A target is only ever open after that many failed cycles with no        *)
(* successful cycle in between, half-open episodes included.               *)
OpensOnlyAfterStreak == \A t \in Targets : Open(t) => streak[t] = Limit[t]

(* Late failures of cycles admitted before the breaker opened do not       *)
(* postpone the next attempt: while open, the cooldown only runs down.     *)
CooldownNeverExtended ==
  [][\A t \in Targets : Open(t) /\ Open(t)' => openFor'[t] >= openFor[t]]_vars

(* "failure re-opens": the first failure recorded after a half-open        *)
(* admission opens the breaker again, with a full cooldown.                *)
HalfOpenFailureReopens ==
  [][\A t \in Targets :
       trial[t] # {} /\ failures'[t] = failures[t] + 1 => openFor'[t] = 0]_vars

(* An open target does not stay open for ever: the ingest loops probe it   *)
(* again even when it is still down.                                       *)
OpenIsReprobed == \A t \in Targets : Open(t) ~> ~Open(t)

(* A target that comes back for good is eventually never skipped again,    *)
(* whatever stale outcomes were still to be recorded.                      *)
Recovers == \A t \in Targets : <>[]answers[t] => <>[]~Open(t)

-----------------------------------------------------------------------------
(* What two comments of the code say, checked by the expected violations.  *)

(* circuit_breaker.py, allow(): "Half-open: allow one attempt; success     *)
(* closes, failure re-opens."  Of the callers admitted since the cooldown  *)
(* ended, at most one is attempting before an outcome is recorded.         *)
Attempting(c, t) == stage[c][t] \in {"admitted", "replaying"}

HalfOpenAllowsOneAttempt ==
  \A t \in Targets : \A c, d \in trial[t] :
    Attempting(c, t) /\ Attempting(d, t) => c = d

(* sensorthings_client.py, _push_target: a half-open -> closed transition  *)
(* is "worth recording".  With no cycle under way, a target whose failure  *)
(* count is back to zero is not journalled as open.                        *)
CloseIsJournalled ==
  \A t \in Targets :
    (failures[t] = 0 /\ \A c \in Callers : stage[c][t] = "idle")
      => journal[t] # "circuit_open"
=============================================================================
