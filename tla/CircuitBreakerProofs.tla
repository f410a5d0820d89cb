------------------------ MODULE CircuitBreakerProofs ------------------------
(***************************************************************************)
(* What CircuitBreaker guarantees for every set of targets and callers and *)
(* every threshold and cooldown, whichever way the threads interleave.     *)
(***************************************************************************)
EXTENDS CircuitBreaker, TLAPS

(* The settings as the steps use them.  The limit is positive whatever the *)
(* override.                                                               *)
LEMMA Settings ==
  /\ Threshold \in [Targets -> Int] /\ Cooldown \in [Targets -> Nat]
  /\ Limit \in [Targets -> Nat]
  /\ \A t \in Targets :
       /\ Limit[t] >= 1
       /\ Threshold[t] > 1    => Limit[t] = Threshold[t]
       /\ ~(Threshold[t] > 1) => Limit[t] = 1
  BY ThresholdsResolve DEF Limit

LEMMA LimitType ==
  \A t \in Targets : Limit[t] \in Nat /\ Limit[t] >= 1
  BY Settings

(* The typing of the breaker's own state, and of everything around it.     *)
BreakerType ==
  /\ failures \in [Targets -> Nat]
  /\ openFor \in [Targets -> Nat \union {NotOpen}]
  /\ streak \in [Targets -> Nat]
  /\ trial \in [Targets -> SUBSET Callers]

CallerType ==
  /\ stage \in [Callers -> [Targets -> PushStages \union ReplayStages]]
  /\ answers \in [Targets -> BOOLEAN]
  /\ journal \in [Targets -> {"none", "circuit_open", "circuit_close"}]

(* While a half-open attempt is under way the breaker is closed and one    *)
(* failure short of opening.                                               *)
TrialIsOneShort ==
  \A t \in Targets : trial[t] # {} => ~Open(t) /\ failures[t] + 1 = Limit[t]

(* The history of failures covers the count, saturating at the limit.      *)
StreakCoversCount ==
  \A t \in Targets :
    /\ streak[t] <= Limit[t]
    /\ failures[t] <= streak[t] \/ streak[t] = Limit[t]

(* The inductive invariant of the breaker's state.                         *)
BreakerInv ==
  BreakerType /\ OpenIffThreshold /\ StreakCoversCount /\ TrialIsOneShort

LEMMA InvGivesStreak ==
  ASSUME BreakerInv
  PROVE  OpensOnlyAfterStreak
  BY Settings
  DEF BreakerInv, BreakerType, OpenIffThreshold, StreakCoversCount,
      OpensOnlyAfterStreak

-----------------------------------------------------------------------------
(* Each method of the breaker preserves the invariant.                     *)

LEMMA AllowKeepsInv ==
  ASSUME BreakerInv, NEW c \in Callers, NEW t \in Targets,
         Admits(t), AllowEffect(c, t)
  PROVE  BreakerInv'
<1> USE Settings
<1>1. CASE CooledDown(t)
  <2>1. HalfOpen(c, t) /\ Open(t)
    BY <1>1 DEF AllowEffect, CooledDown
  <2>2. failures' = [failures EXCEPT ![t] = Limit[t] - 1]
    <3>1. (IF Threshold[t] > 1 THEN Threshold[t] - 1 ELSE 0) = Limit[t] - 1
      <4>1. CASE Threshold[t] > 1
        BY <4>1, Settings
      <4>2. CASE ~(Threshold[t] > 1)
        BY <4>2, Settings
      <4> QED
        BY <4>1, <4>2
    <3> QED
      BY <2>1, <3>1 DEF HalfOpen, OneShort
  <2>3. BreakerType'
    BY <2>1, <2>2 DEF HalfOpen, OneShort, BreakerInv, BreakerType
  <2>4. OpenIffThreshold'
    BY <2>1, <2>2
    DEF HalfOpen, OneShort, BreakerInv, BreakerType, OpenIffThreshold, Open, NotOpen
  <2>5. StreakCoversCount'
    BY <2>1, <2>2
    DEF HalfOpen, OneShort, BreakerInv, BreakerType, OpenIffThreshold,
        StreakCoversCount, Open, NotOpen
  <2>6. TrialIsOneShort'
    <3> SUFFICES ASSUME NEW u \in Targets, trial'[u] # {}
                 PROVE  (~Open(u))' /\ failures'[u] + 1 = Limit[u]
      BY DEF TrialIsOneShort
    <3> QED
      BY <2>1, <2>2
      DEF HalfOpen, OneShort, BreakerInv, BreakerType, TrialIsOneShort, Open, NotOpen
  <2> QED
    BY <2>3, <2>4, <2>5, <2>6 DEF BreakerInv
<1>2. CASE ~CooledDown(t)
  <2>1. StayClosed(c, t) /\ ~Open(t)
    BY <1>2 DEF AllowEffect, Admits
  <2> QED
    BY <2>1
    DEF StayClosed, BreakerInv, BreakerType, OpenIffThreshold,
        StreakCoversCount, TrialIsOneShort, Open, NotOpen
<1> QED
  BY <1>1, <1>2

LEMMA FailureKeepsInv ==
  ASSUME BreakerInv, NEW t \in Targets, FailureEffect(t)
  PROVE  BreakerInv'
<1>1. BreakerType'
  BY Settings DEF FailureEffect, BreakerInv, BreakerType
<1>2. FailureOpens(t) <=> failures[t] + 1 >= Limit[t] /\ ~Open(t)
  BY Settings DEF FailureOpens, BreakerInv, BreakerType
<1>3. ASSUME NEW u \in Targets, u # t
      PROVE  /\ failures'[u] = failures[u] /\ openFor'[u] = openFor[u]
             /\ streak'[u] = streak[u]     /\ trial'[u] = trial[u]
  BY <1>3 DEF FailureEffect, BreakerInv, BreakerType
<1>4. /\ failures'[t] = failures[t] + 1
      /\ openFor'[t] = IF FailureOpens(t) THEN 0 ELSE openFor[t]
      /\ streak'[t] = IF streak[t] < Limit[t] THEN streak[t] + 1 ELSE streak[t]
      /\ trial'[t] = {}
  BY DEF FailureEffect, BreakerInv, BreakerType
<1>5. OpenIffThreshold'
  <2>1. openFor'[t] # NotOpen <=> failures'[t] >= Limit[t]
    BY <1>2, <1>4, LimitType
    DEF BreakerInv, BreakerType, OpenIffThreshold, Open, NotOpen
  <2> QED
    BY <1>3, <2>1 DEF BreakerInv, OpenIffThreshold, Open
<1>6. StreakCoversCount'
  <2>1. /\ streak'[t] <= Limit[t]
        /\ failures'[t] <= streak'[t] \/ streak'[t] = Limit[t]
    BY <1>4, LimitType DEF BreakerInv, BreakerType, StreakCoversCount
  <2> QED
    BY <1>3, <2>1 DEF BreakerInv, StreakCoversCount
<1>7. TrialIsOneShort'
  BY <1>3, <1>4 DEF BreakerInv, TrialIsOneShort, Open
<1> QED
  BY <1>1, <1>5, <1>6, <1>7 DEF BreakerInv

LEMMA SuccessKeepsInv ==
  ASSUME BreakerInv, NEW t \in Targets, SuccessEffect(t)
  PROVE  BreakerInv'
<1>1. BreakerType'
  BY DEF SuccessEffect, BreakerInv, BreakerType
<1>2. ASSUME NEW u \in Targets, u # t
      PROVE  /\ failures'[u] = failures[u] /\ openFor'[u] = openFor[u]
             /\ streak'[u] = streak[u]     /\ trial'[u] = trial[u]
  BY <1>2 DEF SuccessEffect, BreakerInv, BreakerType
<1>3. /\ failures'[t] = 0 /\ openFor'[t] = NotOpen
      /\ streak'[t] = 0   /\ trial'[t] = {}
  BY DEF SuccessEffect, BreakerInv, BreakerType
<1>4. OpenIffThreshold'
  <2>1. openFor'[t] # NotOpen <=> failures'[t] >= Limit[t]
    BY <1>3, LimitType
  <2> QED
    BY <1>2, <2>1 DEF BreakerInv, OpenIffThreshold, Open
<1>5. StreakCoversCount'
  <2>1. /\ streak'[t] <= Limit[t]
        /\ failures'[t] <= streak'[t] \/ streak'[t] = Limit[t]
    BY <1>3, LimitType
  <2> QED
    BY <1>2, <2>1 DEF BreakerInv, StreakCoversCount
<1>6. TrialIsOneShort'
  BY <1>2, <1>3 DEF BreakerInv, TrialIsOneShort, Open
<1> QED
  BY <1>1, <1>4, <1>5, <1>6 DEF BreakerInv

LEMMA TickKeepsInv ==
  ASSUME BreakerInv, Tick
  PROVE  BreakerInv'
  BY Settings
  DEF Tick, Cooling, BreakerInv, BreakerType, OpenIffThreshold,
      StreakCoversCount, TrialIsOneShort, Open, NotOpen

LEMMA IdleBreakerKeepsInv ==
  ASSUME BreakerInv, UNCHANGED breaker
  PROVE  BreakerInv'
  BY DEF breaker, BreakerInv, BreakerType, OpenIffThreshold,
         StreakCoversCount, TrialIsOneShort, Open

-----------------------------------------------------------------------------
(* Every step around the breaker keeps the callers, the environment and    *)
(* the journal well typed.                                                 *)

LEMMA MoveKeepsStages ==
  ASSUME CallerType, NEW c \in Callers, NEW t \in Targets,
         NEW s \in PushStages \union ReplayStages, Goto(c, t, s)
  PROVE  stage' \in [Callers -> [Targets -> PushStages \union ReplayStages]]
  BY DEF CallerType, Goto

LEMMA PushKeepsCallers ==
  ASSUME CallerType, NEW p \in Pushers, NEW t \in Targets, PushStep(p, t)
  PROVE  CallerType'
<1> p \in Callers
  BY DEF Callers
<1>1. PICK s \in PushStages : Goto(p, t, s)
  <2>1. CASE StartCycle(p, t) \/ SkipCycle(p, t) \/ DeadLetter(p, t)
             \/ NothingToSend(p, t) \/ JournalIncident(p, t)
    BY <2>1
    DEF StartCycle, SkipCycle, DeadLetter, NothingToSend, JournalIncident,
        PushStages
  <2>2. CASE Exchange(p, t)
    BY <2>2 DEF Exchange, PushStages
  <2>3. CASE RecordFailure(p, t)
    BY <2>3 DEF RecordFailure, PushStages
  <2>4. CASE ReadSnapshot(p, t)
    BY <2>4 DEF ReadSnapshot, PushStages
  <2>5. CASE RecordSuccess(p, t)
    BY <2>5 DEF RecordSuccess, PushStages
  <2> QED
    BY <2>1, <2>2, <2>3, <2>4, <2>5 DEF PushStep
<1>2. stage' \in [Callers -> [Targets -> PushStages \union ReplayStages]]
  BY <1>1, MoveKeepsStages
<1>3. answers' \in [Targets -> BOOLEAN]
  BY DEF PushStep, StartCycle, SkipCycle, DeadLetter, NothingToSend, Exchange,
         RecordFailure, ReadSnapshot, RecordSuccess, JournalIncident, CallerType
<1>4. journal' \in [Targets -> {"none", "circuit_open", "circuit_close"}]
  <2>1. CASE JournalIncident(p, t)
    BY <2>1 DEF JournalIncident, CallerType
  <2>2. CASE ~JournalIncident(p, t)
    BY <2>2
    DEF PushStep, StartCycle, SkipCycle, DeadLetter, NothingToSend, Exchange,
        RecordFailure, ReadSnapshot, RecordSuccess, CallerType
  <2> QED
    BY <2>1, <2>2
<1> QED
  BY <1>2, <1>3, <1>4 DEF CallerType

LEMMA ReplayKeepsCallers ==
  ASSUME CallerType, NEW r \in Replayers, NEW t \in Targets, ReplayStep(r, t)
  PROVE  CallerType'
<1> r \in Callers
  BY DEF Callers
<1>1. PICK s \in ReplayStages : Goto(r, t, s)
  BY DEF ReplayStep, StartReplay, FinishReplay, ReplayStages
<1>2. stage' \in [Callers -> [Targets -> PushStages \union ReplayStages]]
  BY <1>1, MoveKeepsStages
<1> QED
  BY <1>2 DEF CallerType, ReplayStep, StartReplay, FinishReplay

-----------------------------------------------------------------------------
(* The whole invariant is inductive.                                       *)

Inv == BreakerInv /\ CallerType

LEMMA InitInv == Init => Inv
<1> SUFFICES ASSUME Init PROVE Inv
  OBVIOUS
<1>1. BreakerType
  BY DEF Init, BreakerType
<1>2. OpenIffThreshold /\ StreakCoversCount /\ TrialIsOneShort
  BY LimitType DEF Init, OpenIffThreshold, StreakCoversCount, TrialIsOneShort, Open
<1>3. CallerType
  BY DEF Init, CallerType, PushStages
<1> QED
  BY <1>1, <1>2, <1>3 DEF Inv, BreakerInv

LEMMA NextInv == Inv /\ [Next]_vars => Inv'
<1> SUFFICES ASSUME Inv, [Next]_vars PROVE Inv'
  OBVIOUS
<1> BreakerInv /\ CallerType
  BY DEF Inv
<1>1. ASSUME NEW p \in Pushers, NEW t \in Targets, PushStep(p, t)
      PROVE  Inv'
  <2> p \in Callers
    BY DEF Callers
  <2>1. CallerType'
    BY <1>1, PushKeepsCallers
  <2>2. CASE StartCycle(p, t)
    BY <2>1, <2>2, AllowKeepsInv DEF StartCycle, Inv
  <2>3. CASE RecordFailure(p, t)
    BY <2>1, <2>3, FailureKeepsInv DEF RecordFailure, Inv
  <2>4. CASE RecordSuccess(p, t)
    BY <2>1, <2>4, SuccessKeepsInv DEF RecordSuccess, Inv
  <2>5. CASE UNCHANGED breaker
    BY <2>1, <2>5, IdleBreakerKeepsInv DEF Inv
  <2> QED
    BY <1>1, <2>2, <2>3, <2>4, <2>5
    DEF PushStep, SkipCycle, DeadLetter, NothingToSend, Exchange, ReadSnapshot,
        JournalIncident
<1>2. ASSUME NEW r \in Replayers, NEW t \in Targets, ReplayStep(r, t)
      PROVE  Inv'
  <2> r \in Callers
    BY DEF Callers
  <2>1. CallerType'
    BY <1>2, ReplayKeepsCallers
  <2>2. CASE StartReplay(r, t)
    BY <2>1, <2>2, AllowKeepsInv DEF StartReplay, Inv
  <2>3. CASE FinishReplay(r, t)
    BY <2>1, <2>3, IdleBreakerKeepsInv DEF FinishReplay, Inv
  <2> QED
    BY <1>2, <2>2, <2>3 DEF ReplayStep
<1>3. CASE Tick
  BY <1>3, TickKeepsInv DEF Tick, CallerType, Inv
<1>4. ASSUME NEW t \in Targets, TargetChanges(t)
      PROVE  Inv'
  BY <1>4, IdleBreakerKeepsInv DEF TargetChanges, CallerType, Inv
<1>5. CASE UNCHANGED vars
  BY <1>5, IdleBreakerKeepsInv DEF vars, breaker, CallerType, Inv
<1> QED
  BY <1>1, <1>2, <1>3, <1>4, <1>5 DEF Next

LEMMA SpecInv == Spec => []Inv
  BY InitInv, NextInv, PTL DEF Spec

-----------------------------------------------------------------------------
(* Type correctness: every reachable state of the breaker, its callers and *)
(* its journal is well formed, for every number of callers and targets.    *)
THEOREM TypeCorrect == Spec => []TypeOK
<1>1. Inv => TypeOK
  BY DEF Inv, BreakerInv, BreakerType, CallerType, TypeOK
<1> QED
  BY <1>1, SpecInv, PTL

(* A target is skipped exactly when its failure count has reached its      *)
(* limit, however the threads interleave and whatever the override is.     *)
THEOREM OpenIffThresholdHolds == Spec => []OpenIffThreshold
<1>1. Inv => OpenIffThreshold
  BY DEF Inv, BreakerInv
<1> QED
  BY <1>1, SpecInv, PTL

(* The breaker never opens on fewer failures since the last success than   *)
(* the target's limit.                                                     *)
THEOREM OpensOnlyAfterStreakHolds == Spec => []OpensOnlyAfterStreak
<1>1. Inv => OpensOnlyAfterStreak
  BY InvGivesStreak DEF Inv
<1> QED
  BY <1>1, SpecInv, PTL

-----------------------------------------------------------------------------
(* The two action properties, target by target.                            *)

CooldownKept(t) == Open(t) /\ Open(t)' => openFor'[t] >= openFor[t]

TrialReopens(t) ==
  trial[t] # {} /\ failures'[t] = failures[t] + 1 => openFor'[t] = 0

LEMMA BreakerSteps ==
  ASSUME Inv, [Next]_vars
  PROVE  \/ \E c \in Callers, t \in Targets : Admits(t) /\ AllowEffect(c, t)
         \/ \E t \in Targets : FailureEffect(t)
         \/ \E t \in Targets : SuccessEffect(t)
         \/ Tick
         \/ UNCHANGED breaker
<1>1. ASSUME NEW p \in Pushers, NEW t \in Targets, PushStep(p, t)
      PROVE  \/ \E c \in Callers : Admits(t) /\ AllowEffect(c, t)
             \/ FailureEffect(t) \/ SuccessEffect(t) \/ UNCHANGED breaker
  <2> p \in Callers
    BY DEF Callers
  <2>1. CASE StartCycle(p, t)
    BY <2>1 DEF StartCycle
  <2>2. CASE RecordFailure(p, t) \/ RecordSuccess(p, t)
    BY <2>2 DEF RecordFailure, RecordSuccess
  <2>3. CASE UNCHANGED breaker
    BY <2>3
  <2> QED
    BY <1>1, <2>1, <2>2, <2>3
    DEF PushStep, SkipCycle, DeadLetter, NothingToSend, Exchange, ReadSnapshot,
        JournalIncident
<1>2. ASSUME NEW r \in Replayers, NEW t \in Targets, ReplayStep(r, t)
      PROVE  \/ \E c \in Callers : Admits(t) /\ AllowEffect(c, t)
             \/ UNCHANGED breaker
  BY <1>2 DEF ReplayStep, StartReplay, FinishReplay, Callers
<1> QED
  BY <1>1, <1>2 DEF Next, TargetChanges, vars, breaker

LEMMA EffectsRespectCooldown ==
  ASSUME Inv, NEW u \in Targets,
         \/ \E c \in Callers, t \in Targets : Admits(t) /\ AllowEffect(c, t)
         \/ \E t \in Targets : FailureEffect(t)
         \/ \E t \in Targets : SuccessEffect(t)
         \/ Tick
         \/ UNCHANGED breaker
  PROVE  CooldownKept(u) /\ TrialReopens(u)
<1> BreakerInv /\ BreakerType
  BY DEF Inv, BreakerInv
<1> USE LimitType
<1>1. ASSUME NEW c \in Callers, NEW t \in Targets, Admits(t), AllowEffect(c, t)
      PROVE  CooldownKept(u) /\ TrialReopens(u)
  <2>1. CASE HalfOpen(c, t) /\ Open(t)
    <3>1. CASE u = t
      BY <2>1, <3>1
      DEF HalfOpen, OneShort, CooldownKept, TrialReopens, BreakerInv, BreakerType,
          TrialIsOneShort, Open
    <3>2. CASE u # t
      BY <2>1, <3>2
      DEF HalfOpen, OneShort, CooldownKept, TrialReopens, BreakerType, Open, NotOpen
    <3> QED
      BY <3>1, <3>2
  <2>2. CASE StayClosed(c, t)
    BY <2>2
    DEF StayClosed, CooldownKept, TrialReopens, BreakerType, Open, NotOpen
  <2> QED
    BY <1>1, <2>1, <2>2 DEF AllowEffect, CooledDown
<1>2. ASSUME NEW t \in Targets, FailureEffect(t)
      PROVE  CooldownKept(u) /\ TrialReopens(u)
  <2>1. CASE u = t
    <3>1. trial[u] # {} => FailureOpens(u)
      BY Settings
      DEF FailureOpens, BreakerInv, BreakerType, TrialIsOneShort
    <3>2. TrialReopens(u)
      BY <1>2, <2>1, <3>1 DEF FailureEffect, TrialReopens, BreakerType
    <3>3. CooldownKept(u)
      BY <1>2, <2>1
      DEF FailureEffect, FailureOpens, CooldownKept, BreakerType, Open, NotOpen
    <3> QED
      BY <3>2, <3>3
  <2>2. CASE u # t
    BY <1>2, <2>2
    DEF FailureEffect, CooldownKept, TrialReopens, BreakerType, Open, NotOpen
  <2> QED
    BY <2>1, <2>2
<1>3. ASSUME NEW t \in Targets, SuccessEffect(t)
      PROVE  CooldownKept(u) /\ TrialReopens(u)
  <2>1. CASE u = t
    BY <1>3, <2>1
    DEF SuccessEffect, CooldownKept, TrialReopens, BreakerType, Open, NotOpen
  <2>2. CASE u # t
    BY <1>3, <2>2
    DEF SuccessEffect, CooldownKept, TrialReopens, BreakerType, Open, NotOpen
  <2> QED
    BY <2>1, <2>2
<1>4. CASE Tick
  BY <1>4
  DEF Tick, Cooling, CooldownKept, TrialReopens, BreakerType, Open, NotOpen
<1>5. CASE UNCHANGED breaker
  BY <1>5
  DEF breaker, CooldownKept, TrialReopens, BreakerType, Open, NotOpen
<1> QED
  BY <1>1, <1>2, <1>3, <1>4, <1>5

(* While a target is open its cooldown only runs down: late failures of    *)
(* cycles admitted earlier cannot postpone the next attempt.               *)
THEOREM CooldownNeverExtendedHolds == Spec => CooldownNeverExtended
<1>1. Inv /\ [Next]_vars =>
        \A t \in Targets : Open(t) /\ Open(t)' => openFor'[t] >= openFor[t]
  BY BreakerSteps, EffectsRespectCooldown DEF CooldownKept
<1> QED
  BY <1>1, SpecInv, PTL DEF Spec, CooldownNeverExtended

(* The first failure recorded after a half-open admission re-opens the     *)
(* breaker with a full cooldown.                                           *)
THEOREM HalfOpenFailureReopensHolds == Spec => HalfOpenFailureReopens
<1>1. Inv /\ [Next]_vars =>
        \A t \in Targets :
          trial[t] # {} /\ failures'[t] = failures[t] + 1 => openFor'[t] = 0
  BY BreakerSteps, EffectsRespectCooldown DEF TrialReopens
<1> QED
  BY <1>1, SpecInv, PTL DEF Spec, HalfOpenFailureReopens

=============================================================================
