-------------------------- MODULE MonitoringProofs --------------------------
(***************************************************************************)
(* What Monitoring guarantees for every number of threads that push, size  *)
(* of a log and number of its generations, and bounds.                     *)
(***************************************************************************)
EXTENDS Monitoring, FiniteSetTheorems, SequenceTheorems, WellFoundedInduction,
        NaturalsInduction, TLAPS

-----------------------------------------------------------------------------
(* The larger of two numbers, the least of many.                           *)
LEMMA MaxOfTwo ==
  ASSUME NEW a \in Int, NEW b \in Int
  PROVE  Max({a, b}) = IF a >= b THEN a ELSE b
<1>1. PICK m \in {a, b} : \A y \in {a, b} : m >= y
  OBVIOUS
<1>2. Max({a, b}) \in {a, b} /\ \A y \in {a, b} : Max({a, b}) >= y
  BY <1>1 DEF Max
<1>3. QED
  BY <1>2

-----------------------------------------------------------------------------
(* The counters.  The window, the windows on file and the one in hand add  *)
(* up, or fall short of the total if one is lost.                          *)
InHandSum == IF inHand = None THEN 0 ELSE inHand

CountersOK ==
  /\ total \in 0 .. MaxAttempts /\ window \in Nat /\ reported \in Nat
  /\ inHand \in {None} \union Nat
  /\ reported + InHandSum + window <= total
  /\ unwritten \in BOOLEAN
  /\ unwritten \/ total = reported + InHandSum + window

LEMMA NoCounts ==
  ASSUME total = 0, window = 0, reported = 0, inHand = None, unwritten = FALSE
  PROVE  CountersOK
<1>1. InHandSum = 0
  BY DEF InHandSum
<1>2. 0 \in 0 .. MaxAttempts
  BY MonitoringAssumption
<1>3. /\ total \in 0 .. MaxAttempts /\ window \in Nat /\ reported \in Nat
      /\ inHand \in {None} \union Nat
  BY <1>2
<1>4. reported + InHandSum + window <= total /\ total = reported + InHandSum + window
  BY <1>1
<1>5. unwritten \in BOOLEAN
  OBVIOUS
<1>6. QED
  BY <1>3, <1>4, <1>5, Zenon DEF CountersOK

LEMMA InitCounters == Init => CountersOK
BY NoCounts DEF Init

LEMMA NextCounters == CountersOK /\ [Next]_vars => CountersOK'
<1> SUFFICES ASSUME CountersOK, [Next]_vars PROVE CountersOK'
  OBVIOUS
<1>1. ASSUME NEW w \in Pushers, Attempt(w) PROVE CountersOK'
  BY <1>1, MonitoringAssumption DEF Attempt, CountersOK, InHandSum, None
<1>2. CASE TakeSnapshot
  BY <1>2 DEF TakeSnapshot, Reset, CountersOK, InHandSum, None
<1>3. CASE WriteSnapshot
  <2>1. /\ UNCHANGED <<window, total>> /\ inHand \in Nat /\ inHand' = None
        /\ InHandSum = inHand /\ InHandSum' = 0
    BY <1>3 DEF WriteSnapshot, CountersOK, InHandSum, None
  <2>2. CASE reported' = reported + inHand /\ unwritten' = unwritten
    BY <2>1, <2>2 DEF CountersOK
  <2>3. CASE reported' = reported /\ unwritten' = TRUE
    BY <2>1, <2>3 DEF CountersOK
  <2>4. QED
    BY <1>3, <2>2, <2>3 DEF WriteSnapshot, WithSnapshot
<1>4. CASE Restart
  <2>1. /\ total' = 0 /\ window' = 0 /\ reported' = 0 /\ inHand' = None
        /\ unwritten' = FALSE
    BY <1>4 DEF Restart
  <2>2. InHandSum' = 0 /\ 0 \in 0 .. MaxAttempts
    BY <2>1, MonitoringAssumption DEF InHandSum
  <2>3. /\ total' \in 0 .. MaxAttempts /\ window' \in Nat /\ reported' \in Nat
        /\ inHand' \in {None} \union Nat
    BY <2>1, <2>2
  <2>4. /\ reported' + InHandSum' + window' <= total'
        /\ total' = reported' + InHandSum' + window'
    BY <2>1, <2>2
  <2>5. unwritten' \in BOOLEAN
    BY <2>1
  <2>6. QED
    BY <2>3, <2>4, <2>5, Zenon DEF CountersOK
<1>5. CASE UNCHANGED counts
  BY <1>5 DEF counts, CountersOK, InHandSum
<1>6. ASSUME \/ LogStep \/ \E n \in 0 .. AlertDepth : ReplayPass(n)
             \/ PollNew \/ PollNothingNew \/ Watch \/ Gate \/ Post \/ Tick
             \/ UNCHANGED vars
      PROVE  UNCHANGED counts
  BY <1>6 DEF LogStep, LogStepOf, ReplayPass, PollNew, PollNothingNew, Watch, Gate, Post, Tick, vars
<1>7. QED
  BY <1>1, <1>2, <1>3, <1>4, <1>5, <1>6 DEF Next

(* record_push_attempt and snapshot_targets: every attempt is counted in   *)
(* one window, and the windows on file add up to the total of the process, *)
(* unless one could not be written.                                        *)
THEOREM WindowsSum == Spec => []WindowsAddUp
<1>1. CountersOK => WindowsAddUp
  <2> SUFFICES ASSUME CountersOK PROVE WindowsAddUp
    OBVIOUS
  <2>1. Max({inHand, 0}) = InHandSum
    BY MaxOfTwo DEF CountersOK, InHandSum, None
  <2>2. QED
    BY <2>1 DEF CountersOK, WindowsAddUp
<1>2. QED
  BY <1>1, InitCounters, NextCounters, PTL DEF Spec

-----------------------------------------------------------------------------
(* The loops and the webhook.  Between the decision to alert and the       *)
(* answer of the webhook, the alert in hand is what the loop remembers.    *)
Sending == at \in {"mirror", "post"}

NoticeOnItsWay == Sending /\ topic = "drained"

LoopsOK ==
  /\ setup \in Setups
  /\ at \in {"between", "mirror", "post", "watch"}
  /\ alerting \in BOOLEAN /\ excused \in BOOLEAN /\ told \in BOOLEAN
  /\ shown \in {"nothing", "backlog", "drained"}
  /\ Sending => topic \in {"backlog", "drained", "stall"}
  /\ ~Sending => topic = "none"
  /\ Sending /\ topic = "backlog" => alerting
  /\ shown = "backlog" => alerting \/ excused \/ NoticeOnItsWay
  /\ ~webhook => shown = "nothing" /\ at # "post"

LEMMA InitLoops == Init => LoopsOK
BY DEF Init, LoopsOK, Sending, NoticeOnItsWay

LEMMA NextLoops == LoopsOK /\ [Next]_vars => LoopsOK'
<1> SUFFICES ASSUME LoopsOK, [Next]_vars PROVE LoopsOK'
  OBVIOUS
<1> USE DEF LoopsOK, Sending, NoticeOnItsWay, webhook
<1>1. ASSUME NEW n \in 0 .. AlertDepth, ReplayPass(n) PROVE LoopsOK'
  BY <1>1 DEF ReplayPass, Alert, channel
<1>2. CASE PollNew
  BY <1>2 DEF PollNew
<1>3. CASE PollNothingNew
  BY <1>3 DEF PollNothingNew, channel
<1>4. CASE Watch
  BY <1>4 DEF Watch, Alert, channel
<1>5. CASE Gate
  BY <1>5 DEF Gate, Return, Forced
<1>6. CASE Post
  BY <1>6 DEF Post, Return, Delivered
<1>7. CASE Tick
  BY <1>7 DEF Tick
<1>8. CASE Restart
  BY <1>8 DEF Restart
<1>9. CASE (\E w \in Pushers : Attempt(w)) \/ TakeSnapshot \/ WriteSnapshot \/ LogStep
           \/ UNCHANGED vars
  BY <1>9 DEF Attempt, TakeSnapshot, WriteSnapshot, LogStep, LogStepOf, vars, loops, channel
<1>10. QED
  BY <1>1, <1>2, <1>3, <1>4, <1>5, <1>6, <1>7, <1>8, <1>9 DEF Next

(* _failed_replay_loop and send_alert: while the operators were last told  *)
(* that the queue does not drain, the loop still owes them the notice that *)
(* takes it back, unless it was lost on the way or a restart forgot it.    *)
THEOREM BacklogIsRemembered == Spec => []StandingIsRemembered
<1>1. LoopsOK => StandingIsRemembered
  BY DEF LoopsOK, Sending, NoticeOnItsWay, StandingIsRemembered
<1>2. QED
  BY <1>1, InitLoops, NextLoops, PTL DEF Spec

-----------------------------------------------------------------------------
(* The log.  A file that nobody has open and that has no name is empty; a  *)
(* writer has a file open only while it writes.                            *)
Stages == {"idle", "unlink", "move", "open", "write"}

LogType ==
  /\ name \in [Slots -> Files \union {None}]
  /\ body \in [Files -> Seq(Nat)]
  /\ lines \in Nat
  /\ writer \in [Writers -> Stages]
  /\ moves \in [Writers -> 0 .. KeepMax]
  /\ handle \in [Writers -> Files \union {None}]
  /\ disturbed \in BOOLEAN /\ incomplete \in Nat
  /\ \A w \in Writers : writer[w] = "move" => moves[w] \in 1 .. KeepMax
  /\ \A w \in Writers : handle[w] # None <=> writer[w] = "write"
  /\ \A f \in Files : f \notin InUse(name, handle) => body[f] = <<>>

(* Who will add a line to a file, and who is in _append at all.            *)
Heading(f) == {w \in Writers : handle[w] = f \/ (writer[w] = "open" /\ name[0] = f)}
Active     == {w \in Writers : writer[w] # "idle"}

SizesOK == \A f \in Files :
             Len(body[f]) + Cardinality(Heading(f))
               <= MaxBytes - 1 + Cardinality(Writers) + incomplete

LinesOK == lines + Cardinality(Active) <= MaxLines + Cardinality(Writers) - 1

LogInv == LogType /\ SizesOK /\ LinesOK

(* The steps that touch the log.                                           *)
Interrupted ==
  /\ writer' = [w \in Writers |-> "idle"] /\ moves' = [w \in Writers |-> 0]
  /\ handle' = [w \in Writers |-> None]
  /\ incomplete' = incomplete + (IF \E w \in Writers : writer[w] = "move" THEN 1 ELSE 0)
  /\ body' = Kept(body, name, [w \in Writers |-> None])
  /\ UNCHANGED <<name, lines, disturbed>>

LEMMA LogSteps ==
  ASSUME [Next]_vars
  PROVE  \/ UNCHANGED log
         \/ \E w \in Writers : BeginAppend(w) \/ AppendStep(w)
         \/ Interrupted
<1>1. ASSUME NEW w \in Pushers, Attempt(w)
      PROVE  UNCHANGED log \/ \E v \in Writers : BeginAppend(v)
  BY <1>1 DEF Attempt, Writers
<1>2. ASSUME NEW t, Alert(t) PROVE UNCHANGED log \/ \E v \in Writers : BeginAppend(v)
  BY <1>2 DEF Alert, Writers
<1>3. ASSUME NEW n \in 0 .. AlertDepth, ReplayPass(n)
      PROVE  UNCHANGED log \/ \E v \in Writers : BeginAppend(v)
  BY <1>2, <1>3 DEF ReplayPass
<1>4. Watch => UNCHANGED log \/ \E v \in Writers : BeginAppend(v)
  BY <1>2 DEF Watch
<1>5. Restart => Interrupted
  BY DEF Restart, Interrupted
<1>6. LogStep => \E w \in Writers : AppendStep(w)
  BY DEF LogStep, LogStepOf
<1>7. TakeSnapshot \/ WriteSnapshot \/ PollNew \/ PollNothingNew \/ Gate \/ Post \/ Tick
        \/ UNCHANGED vars => UNCHANGED log
  BY DEF TakeSnapshot, WriteSnapshot, PollNew, PollNothingNew, Gate, Post, Tick, vars
<1>8. QED
  BY <1>1, <1>3, <1>4, <1>5, <1>6, <1>7 DEF Next

LEMMA WritersAreFinite ==
  /\ IsFiniteSet(Writers) /\ Cardinality(Writers) \in Nat /\ Cardinality(Writers) > 0
  /\ \A B \in SUBSET Writers : IsFiniteSet(B) /\ Cardinality(B) \in Nat
                               /\ Cardinality(B) <= Cardinality(Writers)
  /\ \A B \in SUBSET Writers : \A w \in B : Cardinality(B \ {w}) = Cardinality(B) - 1
  /\ \A B, C \in SUBSET Writers : B \subseteq C => Cardinality(B) <= Cardinality(C)
<1>1. IsFiniteSet(Writers)
  BY MonitoringAssumption, FS_Singleton, FS_Union DEF Writers
<1>2. \A B \in SUBSET Writers : IsFiniteSet(B) /\ Cardinality(B) \in Nat
                                /\ Cardinality(B) <= Cardinality(Writers)
  BY <1>1, FS_Subset, FS_CardinalityType
<1>3. Cardinality(Writers) \in Nat /\ Cardinality(Writers) # 0
  <2>1. "loop" \in Writers
    BY DEF Writers
  <2>2. QED
    BY <1>1, <2>1, FS_EmptySet, FS_CardinalityType
<1>4. \A B \in SUBSET Writers : \A w \in B : Cardinality(B \ {w}) = Cardinality(B) - 1
  BY <1>2, FS_RemoveElement
<1>5. \A B, C \in SUBSET Writers : B \subseteq C => Cardinality(B) <= Cardinality(C)
  BY <1>2, FS_Subset
<1>6. QED
  BY <1>1, <1>2, <1>3, <1>4, <1>5

LEMMA LeastNumber ==
  ASSUME NEW T, T \subseteq Nat, T # {}
  PROVE  Min(T) \in T
<1> DEFINE R == OpToRel(<, Nat)
<1>1. IsWellFoundedOn(R, Nat)
  BY NatLessThanWellFounded
<1>2. \A a \in Nat, b \in Nat : a < b => <<a, b>> \in R
  BY DEF OpToRel
<1> HIDE DEF R
<1>3. PICK n \in T : \A k \in T : ~ (<<k, n>> \in R)
  BY <1>1, WFMin
<1>4. \A k \in T : ~(k < n)
  BY <1>2, <1>3
<1>5. \A k \in T : n <= k
  BY <1>4
<1>6. QED
  BY <1>5 DEF Min

LEMMA ImageIsSmall ==
  ASSUME NEW S, IsFiniteSet(S), NEW f, f = [x \in S |-> f[x]]
  PROVE  /\ IsFiniteSet({f[x] : x \in S})
         /\ Cardinality({f[x] : x \in S}) <= Cardinality(S)
         /\ Cardinality({f[x] : x \in S}) \in Nat
<1>1. f \in Surjection(S, {f[x] : x \in S})
  BY DEF Surjection
<1>2. QED
  BY <1>1, FS_Surjection, FS_CardinalityType

(* A writer that opens the log always finds a file of its own: the others  *)
(* and the names do not take up all of them.                               *)
LEMMA NewFile ==
  ASSUME LogType, NEW w \in Writers, handle[w] = None
  PROVE  /\ Min(Files \ InUse(name, handle)) \in Files
         /\ Min(Files \ InUse(name, handle)) \notin InUse(name, handle)
<1> DEFINE others == Writers \ {w}
           N == {name[s] : s \in Slots}
           H == {handle[v] : v \in others}
           nW == Cardinality(Writers)
<1>1. /\ IsFiniteSet(others) /\ Cardinality(others) = nW - 1 /\ nW \in Nat
      /\ others \in SUBSET Writers
  BY WritersAreFinite
<1>2. IsFiniteSet(N) /\ Cardinality(N) <= KeepMax + 1 /\ Cardinality(N) \in Nat
  <2>1. IsFiniteSet(Slots) /\ Cardinality(Slots) = KeepMax + 1
    BY FS_Interval, MonitoringAssumption DEF Slots
  <2>2. name = [s \in Slots |-> name[s]]
    BY DEF LogType
  <2> HIDE DEF N
  <2>3. QED
    BY <2>1, <2>2, ImageIsSmall DEF N
<1>3. IsFiniteSet(H) /\ Cardinality(H) <= nW - 1 /\ Cardinality(H) \in Nat
  <2> DEFINE f == [v \in others |-> handle[v]]
  <2>1. {f[v] : v \in others} = H
    OBVIOUS
  <2>2. f = [v \in others |-> f[v]]
    OBVIOUS
  <2> HIDE DEF f, H, others
  <2>3. QED
    BY <1>1, <2>1, <2>2, ImageIsSmall
<1>4. InUse(name, handle) \subseteq N \union H
  BY DEF InUse
<1>5. /\ IsFiniteSet(N \union H) /\ Cardinality(N \union H) \in Nat
      /\ Cardinality(N \union H) <= KeepMax + nW
  <2> HIDE DEF N, H, nW
  <2>1. /\ IsFiniteSet(N \union H) /\ IsFiniteSet(N \cap H)
        /\ Cardinality(N \union H) = Cardinality(N) + Cardinality(H) - Cardinality(N \cap H)
    BY <1>2, <1>3, FS_Union, FS_Intersection
  <2>2. Cardinality(N \union H) \in Nat /\ Cardinality(N \cap H) \in Nat
    BY <2>1, FS_CardinalityType
  <2>3. QED
    BY <1>1, <1>2, <1>3, <2>1, <2>2, MonitoringAssumption
<1>6. Cardinality(Files) = KeepMax + 1 + nW /\ IsFiniteSet(Files)
  <2> DEFINE m == KeepMax + 1 + nW
  <2>1. m \in Nat /\ m >= 1
    BY <1>1, MonitoringAssumption
  <2>2. Files = 1 .. m
    BY DEF Files
  <2> HIDE DEF m
  <2>3. IsFiniteSet(1 .. m) /\ Cardinality(1 .. m) = m
    BY <2>1, FS_Interval
  <2>4. QED
    BY <2>2, <2>3 DEF m
<1>7. ~ (Files \subseteq N \union H)
  <2> HIDE DEF N, H, nW
  <2>1. SUFFICES ASSUME Files \subseteq N \union H PROVE FALSE
    OBVIOUS
  <2>2. Cardinality(Files) <= Cardinality(N \union H)
    BY <1>5, <2>1, FS_Subset
  <2>3. QED
    BY <1>1, <1>5, <1>6, <2>2, MonitoringAssumption
<1>8. Files \ InUse(name, handle) # {} /\ Files \ InUse(name, handle) \subseteq Nat
  BY <1>4, <1>7 DEF Files
<1>9. QED
  BY <1>8, LeastNumber

LEMMA KeptProperties ==
  ASSUME NEW bs \in [Files -> Seq(Nat)], NEW nm, NEW hd
  PROVE  /\ Kept(bs, nm, hd) \in [Files -> Seq(Nat)]
         /\ \A f \in Files : f \in InUse(nm, hd) => Kept(bs, nm, hd)[f] = bs[f]
         /\ \A f \in Files : f \notin InUse(nm, hd) => Kept(bs, nm, hd)[f] = <<>>
         /\ \A f \in Files : Len(Kept(bs, nm, hd)[f]) \in Nat
         /\ \A f \in Files : Len(bs[f]) \in Nat
         /\ \A f \in Files : Len(Kept(bs, nm, hd)[f]) <= Len(bs[f])
<1> DEFINE ks == Kept(bs, nm, hd)
<1>1. /\ ks \in [Files -> Seq(Nat)]
      /\ \A f \in Files : f \in InUse(nm, hd) => ks[f] = bs[f]
      /\ \A f \in Files : f \notin InUse(nm, hd) => ks[f] = <<>>
  BY EmptySeq DEF Kept
<1> HIDE DEF ks
<1>2. \A f \in Files : Len(ks[f]) \in Nat /\ Len(bs[f]) \in Nat
  BY <1>1, LenProperties
<1>3. \A f \in Files : Len(ks[f]) <= Len(bs[f])
  <2> SUFFICES ASSUME NEW f \in Files PROVE Len(ks[f]) <= Len(bs[f])
    OBVIOUS
  <2>1. Len(<<>>) = 0
    OBVIOUS
  <2>2. ks[f] = bs[f] \/ ks[f] = <<>>
    BY <1>1
  <2>3. QED
    BY <1>2, <2>1, <2>2
<1>4. QED
  BY <1>1, <1>2, <1>3 DEF ks

LEMMA FilesAreNotNone == None \notin Files /\ 0 \in Slots /\ KeepMax \in Slots
BY MonitoringAssumption DEF Files, None, Slots

LEMMA HeadingIsFinite ==
  /\ \A f \in Files : Heading(f) \subseteq Writers
  /\ Active \subseteq Writers
  /\ \A f \in Files : Cardinality(Heading(f)) \in Nat
                      /\ Cardinality(Heading(f)) <= Cardinality(Writers)
  /\ Cardinality(Active) \in Nat /\ Cardinality(Active) <= Cardinality(Writers)
<1>1. (\A f \in Files : Heading(f) \subseteq Writers) /\ Active \subseteq Writers
  BY DEF Heading, Active
<1>2. QED
  BY <1>1, WritersAreFinite

LEMMA InitLog == Init => LogInv
<1> SUFFICES ASSUME Init PROVE LogInv
  OBVIOUS
<1>1. LogType
  <2>1. /\ writer \in [Writers -> Stages] /\ moves \in [Writers -> 0 .. KeepMax]
        /\ handle \in [Writers -> Files \union {None}]
        /\ name \in [Slots -> Files \union {None}]
        /\ lines \in Nat /\ disturbed \in BOOLEAN /\ incomplete \in Nat
    <3>1. 0 \in 0 .. KeepMax /\ "idle" \in Stages
      BY MonitoringAssumption DEF Stages
    <3>2. /\ name = [x \in Slots |-> None] /\ writer = [x \in Writers |-> "idle"]
          /\ moves = [x \in Writers |-> 0] /\ handle = [x \in Writers |-> None]
          /\ lines = 0 /\ disturbed = FALSE /\ incomplete = 0
      BY DEF Init
    <3>3. QED
      BY <3>1, <3>2
  <2>2. /\ \A w \in Writers : writer[w] = "move" => moves[w] \in 1 .. KeepMax
        /\ \A w \in Writers : handle[w] # None <=> writer[w] = "write"
        /\ \A f \in Files : body[f] = <<>>
    BY DEF Init
  <2>3. body \in [Files -> Seq(Nat)]
    BY EmptySeq DEF Init
  <2>4. QED
    BY <2>1, <2>2, <2>3 DEF LogType
<1>2. SizesOK
  <2>1. incomplete = 0 /\ \A f \in Files : Heading(f) = {} /\ Len(body[f]) = 0
    BY FilesAreNotNone DEF Init, Heading
  <2>2. QED
    BY <2>1, FS_EmptySet, WritersAreFinite, MonitoringAssumption DEF SizesOK
<1>3. LinesOK
  <2>1. Active = {} /\ lines = 0
    BY DEF Init, Active
  <2>2. QED
    BY <2>1, FS_EmptySet, WritersAreFinite, MonitoringAssumption DEF LinesOK
<1>4. QED
  BY <1>1, <1>2, <1>3 DEF LogInv

(* A step after which the files in use keep their lines.                   *)
LEMMA KeptFiles ==
  ASSUME LogType, body' = Kept(body, name', handle')
  PROVE  /\ body' \in [Files -> Seq(Nat)]
         /\ \A f \in Files : Len(body'[f]) \in Nat /\ Len(body'[f]) <= Len(body[f])
         /\ \A f \in Files : f \notin InUse(name', handle') => body'[f] = <<>>
<1>1. body \in [Files -> Seq(Nat)]
  BY DEF LogType
<1>2. \A nm, hd : /\ Kept(body, nm, hd) \in [Files -> Seq(Nat)]
                  /\ \A f \in Files : /\ Len(Kept(body, nm, hd)[f]) \in Nat
                                      /\ Len(Kept(body, nm, hd)[f]) <= Len(body[f])
                  /\ \A f \in Files : f \notin InUse(nm, hd) => Kept(body, nm, hd)[f] = <<>>
  BY <1>1, KeptProperties
<1>3. QED
  BY <1>2, Zenon

(* A step after which no file has more lines or writers heading for it,    *)
(* and no line more has been or will be written.                           *)
LEMMA LogShrinks ==
  ASSUME LogInv, LogType', lines' = lines, Active' \subseteq Active,
         incomplete' >= incomplete,
         \A f \in Files : \/ Len(body'[f]) <= Len(body[f]) /\ Heading(f)' \subseteq Heading(f)
                          \/ Len(body'[f]) = 0
  PROVE  LogInv'
<1>1. SizesOK'
  <2> SUFFICES ASSUME NEW f \in Files
               PROVE  Len(body'[f]) + Cardinality(Heading(f)')
                        <= MaxBytes - 1 + Cardinality(Writers) + incomplete'
    BY DEF SizesOK
  <2>1. Len(body[f]) \in Nat /\ Len(body'[f]) \in Nat
    BY LenProperties DEF LogInv, LogType
  <2>2. /\ Heading(f) \subseteq Writers /\ Heading(f)' \subseteq Writers
    BY DEF Heading
  <2>3. /\ Cardinality(Heading(f)) \in Nat /\ Cardinality(Heading(f)') \in Nat
        /\ Cardinality(Heading(f)') <= Cardinality(Writers)
        /\ Heading(f)' \subseteq Heading(f) => Cardinality(Heading(f)') <= Cardinality(Heading(f))
    BY <2>2, WritersAreFinite
  <2>4. /\ Len(body[f]) + Cardinality(Heading(f))
             <= MaxBytes - 1 + Cardinality(Writers) + incomplete
        /\ incomplete \in Nat /\ incomplete' \in Nat
    BY DEF LogInv, LogType, SizesOK
  <2>5. MaxBytes - 1 + Cardinality(Writers) \in Int
    BY WritersAreFinite, MonitoringAssumption
  <2>6. CASE Len(body'[f]) = 0
    <3>1. Cardinality(Writers) \in Nat /\ MaxBytes \in Nat \ {0}
      BY WritersAreFinite, MonitoringAssumption
    <3>2. QED
      BY <2>3, <2>4, <2>6, <3>1
  <2>7. CASE Len(body'[f]) <= Len(body[f]) /\ Heading(f)' \subseteq Heading(f)
    BY <2>1, <2>3, <2>4, <2>5, <2>7
  <2>8. QED
    BY <2>6, <2>7
<1>2. LinesOK'
  <2>1. Active \subseteq Writers /\ Active' \subseteq Writers
    BY DEF Active
  <2>2. /\ Cardinality(Active) \in Nat /\ Cardinality(Active') \in Nat
        /\ Cardinality(Active') <= Cardinality(Active)
    BY <2>1, WritersAreFinite
  <2>3. QED
    BY <2>2, WritersAreFinite, MonitoringAssumption DEF LogInv, LogType, LinesOK
<1>3. QED
  BY <1>1, <1>2 DEF LogInv

LEMMA BeginAppendLog ==
  ASSUME LogInv, NEW w \in Writers, BeginAppend(w)
  PROVE  LogInv'
<1>0. LogType /\ SizesOK /\ LinesOK
  BY DEF LogInv
<1> DEFINE st == IF Full(name[0]) THEN "unlink" ELSE "open"
<1>1. /\ UNCHANGED <<name, body, lines, moves, handle, disturbed, incomplete>>
      /\ writer[w] = "idle" /\ lines < MaxLines
      /\ writer' = [writer EXCEPT ![w] = st]
  BY DEF BeginAppend
<1>2. LogType'
  BY <1>0, <1>1 DEF LogType, Stages
<1>3. SizesOK'
  <2> SUFFICES ASSUME NEW f \in Files
               PROVE  Len(body'[f]) + Cardinality(Heading(f)')
                        <= MaxBytes - 1 + Cardinality(Writers) + incomplete'
    BY DEF SizesOK
  <2>1. Len(body[f]) \in Nat /\ incomplete \in Nat
    BY <1>0, LenProperties DEF LogType
  <2>2. Heading(f)' \subseteq Writers /\ Heading(f) \subseteq Writers
    BY DEF Heading
  <2>3. /\ Cardinality(Heading(f)') \in Nat /\ Cardinality(Heading(f)') <= Cardinality(Writers)
        /\ Cardinality(Writers) \in Nat
    BY <2>2, WritersAreFinite
  <2>4. CASE st = "open" /\ name[0] = f
    <3>1. ~ (Len(body[f]) >= MaxBytes)
      BY <2>4, FilesAreNotNone DEF Full, Size
    <3>2. QED
      BY <1>1, <2>1, <2>3, <3>1, MonitoringAssumption
  <2>5. CASE ~ (st = "open" /\ name[0] = f)
    <3>1. Heading(f)' \subseteq Heading(f)
      BY <1>0, <1>1, <2>5 DEF Heading, LogType
    <3>2. /\ Cardinality(Heading(f)') <= Cardinality(Heading(f))
          /\ Cardinality(Heading(f)) \in Nat
      BY <2>2, <3>1, WritersAreFinite
    <3>3. Len(body[f]) + Cardinality(Heading(f))
            <= MaxBytes - 1 + Cardinality(Writers) + incomplete
      BY <1>0 DEF SizesOK
    <3>4. QED
      BY <1>1, <2>1, <2>3, <3>2, <3>3, MonitoringAssumption
  <2>6. QED
    BY <2>4, <2>5
<1>4. LinesOK'
  <2>1. Active' \subseteq Writers
    BY DEF Active
  <2>2. /\ Cardinality(Active') \in Nat /\ Cardinality(Active') <= Cardinality(Writers)
        /\ Cardinality(Writers) \in Nat
    BY <2>1, WritersAreFinite
  <2>3. QED
    BY <1>0, <1>1, <2>2, MonitoringAssumption DEF LinesOK, LogType
<1>5. QED
  BY <1>2, <1>3, <1>4 DEF LogInv

LEMMA UnlinkLog ==
  ASSUME LogInv, NEW w \in Writers, Unlink(w)
  PROVE  LogInv'
<1>0. LogType
  BY DEF LogInv
<1>1. /\ UNCHANGED <<lines, handle, incomplete>> /\ writer[w] = "unlink"
      /\ name' = [name EXCEPT ![KeepMax] = None] \/ name' = name
      /\ body' = Kept(body, name', handle)
      /\ moves' = [moves EXCEPT ![w] = 1]
      /\ writer' = [writer EXCEPT ![w] = "move"]
      /\ disturbed' \in BOOLEAN
  BY <1>0 DEF Unlink, LogType, Overlaps
<1>2. /\ body' \in [Files -> Seq(Nat)]
      /\ \A f \in Files : Len(body'[f]) <= Len(body[f])
      /\ \A f \in Files : f \notin InUse(name', handle') => body'[f] = <<>>
  <2>1. body' = Kept(body, name', handle')
    BY <1>1
  <2>2. QED
    BY <1>0, <2>1, KeptFiles
<1>3. LogType'
  <2>1. name' \in [Slots -> Files \union {None}]
    <3>1. None \in Files \union {None}
      OBVIOUS
    <3>2. QED
      BY <1>0, <1>1, <3>1 DEF LogType
  <2>2. moves' \in [Writers -> 0 .. KeepMax] /\ 1 \in 1 .. KeepMax
    BY <1>0, <1>1, MonitoringAssumption DEF LogType
  <2>3. QED
    BY <1>0, <1>1, <1>2, <2>1, <2>2 DEF LogType, Stages
<1>4. Active' \subseteq Active /\ \A f \in Files : Heading(f)' \subseteq Heading(f)
  BY <1>0, <1>1, FilesAreNotNone DEF Active, Heading, LogType
<1>5. QED
  BY <1>0, <1>1, <1>2, <1>3, <1>4, LogShrinks DEF LogType

LEMMA MovedName ==
  ASSUME LogType, NEW m \in 1 .. KeepMax
  PROVE  /\ Moving(m) \in Slots /\ Moving(m) + 1 \in Slots /\ Moving(m) + 1 # 0
         /\ Moving(m) \in Nat
         /\ Moved(Moving(m)) \in [Slots -> Files \union {None}]
         /\ Moved(Moving(m))[0] \in {name[0], None}
         /\ Moving(m) = 0 => Moved(Moving(m))[0] = None
<1>1. /\ Moving(m) \in Slots /\ Moving(m) + 1 \in Slots /\ Moving(m) + 1 # 0
      /\ Moving(m) \in Nat /\ Moving(m) + 1 # Moving(m)
  BY MonitoringAssumption DEF Moving, Slots
<1>2. QED
  BY <1>1, FilesAreNotNone DEF Moved, LogType

LEMMA MoveLog ==
  ASSUME LogInv, NEW w \in Writers, Move(w)
  PROVE  LogInv'
<1>0. LogType
  BY DEF LogInv
<1> DEFINE last == moves[w] = KeepMax
           done == name' = Moved(Moving(moves[w])) /\ incomplete' = incomplete
           kept == name' = name /\ incomplete' = incomplete + 1
<1>1. /\ UNCHANGED <<lines, handle>> /\ writer[w] = "move" /\ (done \/ kept)
      /\ body' = Kept(body, name', handle')
      /\ moves' = [moves EXCEPT ![w] = IF last THEN 0 ELSE @ + 1]
      /\ writer' = [writer EXCEPT ![w] = IF last THEN "open" ELSE @]
      /\ disturbed' \in BOOLEAN
  BY <1>0 DEF Move, LogType, Overlaps
<1>2. moves[w] \in 1 .. KeepMax
  BY <1>0, <1>1 DEF LogType
<1>3. /\ name' \in [Slots -> Files \union {None}] /\ name'[0] \in {name[0], None}
      /\ last /\ done => name'[0] = None
      /\ incomplete' \in Nat
  <2>1. last => Moving(moves[w]) = 0
    BY MonitoringAssumption DEF Moving
  <2>2. CASE done
    BY <1>0, <1>2, <2>1, <2>2, MovedName DEF LogType
  <2>3. CASE kept /\ ~done
    BY <1>0, <2>3 DEF LogType
  <2>4. QED
    BY <1>1, <2>2, <2>3
<1>4. LogType'
  <2>1. /\ moves' \in [Writers -> 0 .. KeepMax]
        /\ \A v \in Writers : writer'[v] = "move" => moves'[v] \in 1 .. KeepMax
    BY <1>0, <1>1, <1>2, MonitoringAssumption DEF LogType
  <2>2. /\ writer' \in [Writers -> Stages]
        /\ \A v \in Writers : writer'[v] = "write" <=> writer[v] = "write"
    BY <1>0, <1>1 DEF LogType, Stages
  <2>3. /\ body' \in [Files -> Seq(Nat)]
        /\ \A f \in Files : f \notin InUse(name', handle') => body'[f] = <<>>
    BY <1>0, <1>1, KeptFiles
  <2>4. QED
    BY <1>0, <1>1, <1>3, <2>1, <2>2, <2>3 DEF LogType
<1>5. Active' \subseteq Active
  BY <1>0, <1>1 DEF Active, LogType
<1>6. \A v \in Writers : writer'[v] = writer[v] \/ (v = w /\ last)
  BY <1>0, <1>1 DEF LogType
<1>7. CASE done \/ ~last
  <2>1. \A f \in Files : Heading(f)' \subseteq Heading(f)
    BY <1>1, <1>3, <1>6, <1>7, FilesAreNotNone DEF Heading
  <2>2. incomplete' >= incomplete /\ lines' = lines
    BY <1>0, <1>1 DEF LogType
  <2>3. \A f \in Files : Len(body'[f]) <= Len(body[f])
    BY <1>0, <1>1, KeptFiles
  <2>4. QED
    BY <1>4, <1>5, <2>1, <2>2, <2>3, LogShrinks
<1>8. CASE kept /\ last
  <2>1. SizesOK'
    <3> SUFFICES ASSUME NEW f \in Files
                 PROVE  Len(body'[f]) + Cardinality(Heading(f)')
                          <= MaxBytes - 1 + Cardinality(Writers) + incomplete'
      BY DEF SizesOK
    <3> HIDE DEF last, done
    <3>1. Heading(f)' \ {w} \subseteq Heading(f)
      BY <1>1, <1>6, <1>8, FilesAreNotNone DEF Heading
    <3>2. Heading(f)' \subseteq Writers /\ Heading(f) \subseteq Writers
      BY DEF Heading
    <3>3. /\ Cardinality(Heading(f)' \ {w}) <= Cardinality(Heading(f))
          /\ Cardinality(Heading(f)') \in Nat /\ Cardinality(Heading(f)) \in Nat
          /\ Cardinality(Heading(f)' \ {w}) \in Nat
      BY <3>1, <3>2, WritersAreFinite
    <3>4. Cardinality(Heading(f)') <= Cardinality(Heading(f)) + 1
      <4>1. CASE w \in Heading(f)'
        BY <3>2, <3>3, <4>1, WritersAreFinite
      <4>2. CASE w \notin Heading(f)'
        <5>1. Heading(f)' \ {w} = Heading(f)'
          BY <4>2
        <5>2. QED
          BY <3>3, <5>1
      <4>3. QED
        BY <4>1, <4>2
    <3>5. /\ Len(body'[f]) <= Len(body[f]) /\ Len(body[f]) \in Nat /\ Len(body'[f]) \in Nat
          /\ Len(body[f]) + Cardinality(Heading(f))
               <= MaxBytes - 1 + Cardinality(Writers) + incomplete
          /\ incomplete \in Nat
      BY <1>0, <1>1, KeptFiles, LenProperties DEF LogInv, LogType, SizesOK
    <3>6. MaxBytes - 1 + Cardinality(Writers) \in Int /\ incomplete' = incomplete + 1
      BY <1>8, WritersAreFinite, MonitoringAssumption
    <3>7. QED
      BY <3>3, <3>4, <3>5, <3>6
  <2>2. LinesOK'
    <3>1. Active \subseteq Writers /\ Active' \subseteq Writers
      BY DEF Active
    <3>2. /\ Cardinality(Active) \in Nat /\ Cardinality(Active') \in Nat
          /\ Cardinality(Active') <= Cardinality(Active)
      BY <1>5, <3>1, WritersAreFinite
    <3>3. QED
      BY <1>0, <1>1, <3>2, WritersAreFinite, MonitoringAssumption
      DEF LogInv, LogType, LinesOK
  <2>3. QED
    BY <1>4, <2>1, <2>2 DEF LogInv
<1>9. QED
  BY <1>1, <1>7, <1>8

LEMMA OpenLog ==
  ASSUME LogInv, NEW w \in Writers, Open(w)
  PROVE  LogInv'
<1> DEFINE new == Min(Files \ InUse(name, handle))
           f0  == IF name[0] = None THEN new ELSE name[0]
<1>0. LogType
  BY DEF LogInv
<1>1. /\ UNCHANGED <<body, lines, moves, disturbed, incomplete>> /\ writer[w] = "open"
      /\ name' = [name EXCEPT ![0] = f0]
      /\ handle' = [handle EXCEPT ![w] = f0]
      /\ writer' = [writer EXCEPT ![w] = "write"]
  BY DEF Open
<1>2. handle[w] = None
  BY <1>0, <1>1 DEF LogType
<1>3. new \in Files /\ new \notin InUse(name, handle) /\ body[new] = <<>>
  BY <1>0, <1>2, NewFile DEF LogType
<1> HIDE DEF new
<1>4. f0 \in Files /\ f0 # None
  BY <1>0, <1>3, FilesAreNotNone DEF LogType
<1>5. LogType'
  <2>1. InUse(name, handle) \subseteq InUse(name', handle')
    <3>1. name[0] # None => name' = name
      BY <1>0, <1>1 DEF LogType
    <3>2. \A s \in Slots : name[s] # None => name'[s] = name[s]
      BY <1>0, <1>1 DEF LogType
    <3>3. \A v \in Writers : handle[v] # None => handle'[v] = handle[v]
      BY <1>0, <1>1, <1>2 DEF LogType
    <3>4. QED
      BY <3>2, <3>3 DEF InUse
  <2>2. /\ name' \in [Slots -> Files \union {None}]
        /\ handle' \in [Writers -> Files \union {None}]
        /\ writer' \in [Writers -> Stages]
        /\ \A v \in Writers : writer'[v] = "move" => writer[v] = "move"
        /\ \A v \in Writers : handle'[v] # None <=> writer'[v] = "write"
    BY <1>0, <1>1, <1>4 DEF LogType, Stages
  <2>3. QED
    BY <1>0, <1>1, <2>1, <2>2 DEF LogType
<1>6. Active' \subseteq Active
  BY <1>0, <1>1 DEF Active, LogType
<1>7. SizesOK'
  <2> SUFFICES ASSUME NEW f \in Files
               PROVE  Len(body'[f]) + Cardinality(Heading(f)')
                        <= MaxBytes - 1 + Cardinality(Writers) + incomplete'
    BY DEF SizesOK
  <2>1. Heading(f)' \subseteq Writers /\ Heading(f) \subseteq Writers
    BY DEF Heading
  <2>2. /\ Cardinality(Heading(f)') \in Nat /\ Cardinality(Heading(f)') <= Cardinality(Writers)
        /\ Cardinality(Heading(f)) \in Nat /\ Cardinality(Writers) \in Nat
        /\ Heading(f)' \subseteq Heading(f) => Cardinality(Heading(f)') <= Cardinality(Heading(f))
    BY <2>1, WritersAreFinite
  <2>3. Len(body[f]) \in Nat /\ incomplete \in Nat
    BY <1>0, LenProperties DEF LogType
  <2>4. Len(body[f]) + Cardinality(Heading(f))
          <= MaxBytes - 1 + Cardinality(Writers) + incomplete
    BY DEF LogInv, SizesOK
  <2>5. CASE f = new
    <3>1. Len(body[f]) = 0
      BY <1>3, <2>5
    <3>2. QED
      BY <1>1, <2>2, <2>3, <3>1, MonitoringAssumption
  <2>6. CASE f # new
    <3>1. Heading(f)' \subseteq Heading(f)
      BY <1>0, <1>1, <2>6, FilesAreNotNone DEF Heading, LogType
    <3>2. QED
      BY <1>1, <2>2, <2>3, <2>4, <3>1, MonitoringAssumption
  <2>7. QED
    BY <2>5, <2>6
<1>8. LinesOK'
  <2>1. Active \subseteq Writers /\ Active' \subseteq Writers
    BY DEF Active
  <2>2. /\ Cardinality(Active) \in Nat /\ Cardinality(Active') \in Nat
        /\ Cardinality(Active') <= Cardinality(Active)
    BY <1>6, <2>1, WritersAreFinite
  <2>3. QED
    BY <1>0, <1>1, <2>2, WritersAreFinite, MonitoringAssumption DEF LogInv, LogType, LinesOK
<1>9. QED
  BY <1>5, <1>7, <1>8 DEF LogInv

LEMMA WriteLog ==
  ASSUME LogInv, NEW w \in Writers, Write(w)
  PROVE  LogInv'
<1>0. LogType /\ SizesOK /\ LinesOK
  BY DEF LogInv
<1> DEFINE g  == handle[w]
           bs == [body EXCEPT ![g] = Append(@, lines + 1)]
<1>1. /\ UNCHANGED <<name, moves, incomplete>> /\ disturbed' \in BOOLEAN /\ writer[w] = "write"
      /\ lines' = lines + 1
      /\ handle' = [handle EXCEPT ![w] = None]
      /\ body' = Kept(bs, name, handle')
      /\ writer' = [writer EXCEPT ![w] = "idle"]
  BY <1>0 DEF Write, LogType
<1>2. g \in Files /\ body[g] \in Seq(Nat) /\ lines + 1 \in Nat
  BY <1>0, <1>1 DEF LogType
<1>3. /\ Append(body[g], lines + 1) \in Seq(Nat)
      /\ Len(Append(body[g], lines + 1)) = Len(body[g]) + 1
  BY <1>2, AppendProperties
<1>4. /\ bs \in [Files -> Seq(Nat)] /\ Len(bs[g]) = Len(body[g]) + 1
      /\ \A f \in Files : f # g => bs[f] = body[f]
  BY <1>0, <1>2, <1>3 DEF LogType
<1> HIDE DEF bs
<1>5. /\ body' \in [Files -> Seq(Nat)]
      /\ \A f \in Files : Len(body'[f]) \in Nat /\ Len(body'[f]) <= Len(bs[f])
      /\ \A f \in Files : f \notin InUse(name', handle') => body'[f] = <<>>
  <2>1. body' = Kept(bs, name', handle')
    BY <1>1
  <2>2. \A nm, hd : /\ Kept(bs, nm, hd) \in [Files -> Seq(Nat)]
                    /\ \A f \in Files : /\ Len(Kept(bs, nm, hd)[f]) \in Nat
                                        /\ Len(Kept(bs, nm, hd)[f]) <= Len(bs[f])
                    /\ \A f \in Files : f \notin InUse(nm, hd) => Kept(bs, nm, hd)[f] = <<>>
    BY <1>4, KeptProperties
  <2>3. QED
    BY <2>1, <2>2, Zenon
<1>6. LogType'
  <2>1. /\ handle' \in [Writers -> Files \union {None}]
        /\ writer' \in [Writers -> Stages]
        /\ \A v \in Writers : writer'[v] = "move" => writer[v] = "move"
        /\ \A v \in Writers : handle'[v] # None <=> writer'[v] = "write"
    BY <1>0, <1>1 DEF LogType, Stages
  <2>2. QED
    BY <1>0, <1>1, <1>2, <1>5, <2>1 DEF LogType
<1>7. SizesOK'
  <2> SUFFICES ASSUME NEW f \in Files
               PROVE  Len(body'[f]) + Cardinality(Heading(f)')
                        <= MaxBytes - 1 + Cardinality(Writers) + incomplete'
    BY DEF SizesOK
  <2>1. Heading(f)' \subseteq Heading(f) \ {w} /\ Heading(f) \subseteq Writers
    BY <1>0, <1>1, FilesAreNotNone DEF Heading, LogType
  <2>2. f = g => w \in Heading(f)
    BY DEF Heading
  <2>3. /\ Cardinality(Heading(f)') <= Cardinality(Heading(f) \ {w})
        /\ Cardinality(Heading(f) \ {w}) <= Cardinality(Heading(f))
        /\ Cardinality(Heading(f)') \in Nat /\ Cardinality(Heading(f)) \in Nat
        /\ Cardinality(Heading(f) \ {w}) \in Nat
    <3>1. Heading(f)' \subseteq Writers /\ Heading(f) \ {w} \subseteq Writers
      BY <2>1
    <3>2. QED
      BY <2>1, <3>1, WritersAreFinite
  <2>4. f = g => Cardinality(Heading(f) \ {w}) = Cardinality(Heading(f)) - 1
    BY <2>1, <2>2, WritersAreFinite
  <2>5. /\ Len(body[f]) + Cardinality(Heading(f))
             <= MaxBytes - 1 + Cardinality(Writers) + incomplete'
        /\ Len(body[f]) \in Nat /\ Len(body'[f]) \in Nat
    BY <1>0, <1>1, <1>5, LenProperties DEF SizesOK, LogType
  <2>6. Len(body'[f]) <= IF f = g THEN Len(body[f]) + 1 ELSE Len(body[f])
    BY <1>4, <1>5
  <2> HIDE DEF g
  <2>7. MaxBytes - 1 + Cardinality(Writers) + incomplete' \in Int
    BY <1>0, <1>1, WritersAreFinite, MonitoringAssumption DEF LogType
  <2>8. CASE f = g
    BY <2>3, <2>4, <2>5, <2>6, <2>7, <2>8
  <2>9. CASE f # g
    BY <2>3, <2>5, <2>6, <2>7, <2>9
  <2>10. QED
    BY <2>8, <2>9
<1>8. LinesOK'
  <2>1. Active' = Active \ {w} /\ w \in Active /\ Active \subseteq Writers
    BY <1>0, <1>1 DEF Active, LogType
  <2>2. Cardinality(Active') = Cardinality(Active) - 1 /\ Cardinality(Active) \in Nat
    BY <2>1, WritersAreFinite
  <2>3. QED
    BY <1>0, <1>1, <2>2, WritersAreFinite, MonitoringAssumption DEF LogType, LinesOK
<1>9. QED
  BY <1>6, <1>7, <1>8 DEF LogInv

LEMMA InterruptedLog ==
  ASSUME LogInv, Interrupted
  PROVE  LogInv'
<1>0. LogType
  BY DEF LogInv
<1>1. /\ UNCHANGED <<name, lines>>
      /\ writer' = [w \in Writers |-> "idle"] /\ moves' = [w \in Writers |-> 0]
      /\ handle' = [w \in Writers |-> None]
      /\ body' = Kept(body, name, handle')
      /\ disturbed' \in BOOLEAN /\ incomplete' \in Nat /\ incomplete' >= incomplete
  BY <1>0 DEF Interrupted, LogType
<1>2. /\ body' \in [Files -> Seq(Nat)]
      /\ \A f \in Files : Len(body'[f]) <= Len(body[f])
      /\ \A f \in Files : f \notin InUse(name', handle') => body'[f] = <<>>
  BY <1>0, <1>1, KeptFiles
<1>3. LogType'
  <2>1. /\ writer' \in [Writers -> Stages] /\ moves' \in [Writers -> 0 .. KeepMax]
        /\ handle' \in [Writers -> Files \union {None}]
    BY <1>1, MonitoringAssumption DEF Stages
  <2>2. /\ \A w \in Writers : writer'[w] = "move" => moves'[w] \in 1 .. KeepMax
        /\ \A w \in Writers : handle'[w] # None <=> writer'[w] = "write"
    BY <1>1
  <2>3. name' \in [Slots -> Files \union {None}] /\ lines' \in Nat
    BY <1>0, <1>1 DEF LogType
  <2>4. QED
    BY <1>1, <1>2, <2>1, <2>2, <2>3 DEF LogType
<1>4. Active' \subseteq Active /\ \A f \in Files : Heading(f)' \subseteq Heading(f)
  BY <1>1, FilesAreNotNone DEF Active, Heading
<1>5. QED
  BY <1>1, <1>2, <1>3, <1>4, LogShrinks

LEMMA NextLog == LogInv /\ [Next]_vars => LogInv'
<1> SUFFICES ASSUME LogInv, [Next]_vars PROVE LogInv'
  OBVIOUS
<1>1. ASSUME NEW w \in Writers, BeginAppend(w) \/ AppendStep(w) PROVE LogInv'
  BY <1>1, BeginAppendLog, UnlinkLog, MoveLog, OpenLog, WriteLog DEF AppendStep
<1>2. CASE UNCHANGED log
  BY <1>2 DEF log, LogInv, LogType, SizesOK, LinesOK, Heading, Active, InUse
<1>3. CASE Interrupted
  BY <1>3, InterruptedLog
<1>4. QED
  BY <1>1, <1>2, <1>3, LogSteps

-----------------------------------------------------------------------------
(* What is on file, unless two were in a rotation or one wrote past one:   *)
(* the lines stand in the order of their generations, and whatever is gone *)
(* is older than a full generation.  If every rename succeeded, whatever   *)
(* is gone is older than all that is held, and the generations are closed  *)
(* up: one name at most is vacant among those that must be taken, that of  *)
(* the log when nobody rotates, that of the generation to be filled next   *)
(* otherwise.                                                              *)
Content(s) == IF name[s] = None THEN <<>> ELSE body[name[s]]

LinesAt(s) == ToSet(Content(s))

Gone == (1 .. lines) \ Held

ToFill(w) == KeepMax + 1 - moves[w]

Rotating == {w \in Writers : writer[w] = "move"}

Vacant(s) == \/ Rotating = {} /\ s = 0
             \/ \E w \in Rotating : s = ToFill(w)

NamesOK == \A s, t \in Slots : name[s] # None /\ name[s] = name[t] => s = t

ContentsOK ==
  \A s \in Slots : \A i, j \in 1 .. Len(Content(s)) :
    /\ Content(s)[i] \in 1 .. lines
    /\ Content(s)[i] = Content(s)[j] => i = j

OrderOK ==
  \A s, t \in Slots : s < t => \A l \in LinesAt(s), k \in LinesAt(t) : k < l

GenerationsOK ==
  \A s \in Slots : s # 0 /\ name[s] # None => Len(Content(s)) >= MaxBytes

RotationOK ==
  /\ \A w \in Writers : writer[w] \in {"unlink", "move"} => Len(Content(0)) >= MaxBytes
  /\ \A v, w \in Rotating : v = w

OneFullYounger(l) ==
  \E s \in Slots : Len(Content(s)) >= MaxBytes /\ \A k \in LinesAt(s) : l < k

OneIsLeft == \A l \in Gone : OneFullYounger(l)

Orderly ==
  NamesOK /\ ContentsOK /\ OrderOK /\ GenerationsOK /\ RotationOK /\ OneIsLeft

GoneOK == \A l \in Gone, k \in Held : l < k

ClosedUp ==
  /\ \A s, t \in Slots : s < t /\ name[t] # None => name[s] # None \/ Vacant(s)
  /\ Gone # {} => \A s \in Slots : name[s] # None \/ Vacant(s)

HoleOK == \A w \in Rotating : name[ToFill(w)] = None \/ ToFill(w) = KeepMax

Complete == GoneOK /\ ClosedUp /\ HoleOK

InOrder == disturbed \/ (Orderly /\ (incomplete = 0 => Complete))

LEMMA AppendAddsOne ==
  ASSUME NEW q \in Seq(Nat), NEW x \in Nat
  PROVE  ToSet(Append(q, x)) = ToSet(q) \union {x}
<1>1. /\ Len(Append(q, x)) = Len(q) + 1 /\ Len(q) \in Nat
      /\ \A i \in 1 .. Len(q) : Append(q, x)[i] = q[i]
      /\ Append(q, x)[Len(q) + 1] = x
  OBVIOUS
<1>2. DOMAIN q = 1 .. Len(q) /\ DOMAIN Append(q, x) = 1 .. Len(q) + 1
  OBVIOUS
<1>3. \A i \in 1 .. Len(q) + 1 : i \in 1 .. Len(q) \/ i = Len(q) + 1
  BY <1>1
<1>4. 1 .. Len(q) \subseteq 1 .. Len(q) + 1 /\ Len(q) + 1 \in 1 .. Len(q) + 1
  BY <1>1
<1>5. ToSet(q) = {q[i] : i \in 1 .. Len(q)}
  BY <1>2 DEF ToSet
<1>6. ToSet(Append(q, x)) = {Append(q, x)[i] : i \in 1 .. Len(q) + 1}
  BY <1>2 DEF ToSet
<1>7. QED
  BY <1>1, <1>3, <1>4, <1>5, <1>6

LEMMA NothingAtEmpty == ToSet(<<>>) = {}
BY DEF ToSet

LEMMA ContentProperties ==
  ASSUME LogType
  PROVE  /\ \A s \in Slots : Content(s) \in Seq(Nat) /\ Len(Content(s)) \in Nat
         /\ \A s \in Slots : name[s] = None => Content(s) = <<>> /\ LinesAt(s) = {}
         /\ \A s \in Slots : name[s] # None => Content(s) = body[name[s]]
         /\ \A s \in Slots : LinesAt(s) \subseteq Nat
         /\ Held = UNION {LinesAt(s) : s \in Slots}
<1>1. \A s \in Slots : Content(s) \in Seq(Nat)
  BY EmptySeq DEF LogType, Content
<1>2. \A s \in Slots : Len(Content(s)) \in Nat
  BY <1>1, LenProperties
<1>3. \A s \in Slots : name[s] = None => Content(s) = <<>> /\ LinesAt(s) = {}
  BY NothingAtEmpty DEF Content, LinesAt
<1>4. \A s \in Slots : LinesAt(s) \subseteq Nat
  <2> SUFFICES ASSUME NEW s \in Slots PROVE LinesAt(s) \subseteq Nat
    OBVIOUS
  <2>1. \A i \in DOMAIN Content(s) : Content(s)[i] \in Nat
    BY <1>1
  <2>2. QED
    BY <2>1 DEF LinesAt, ToSet
<1>5. Held = UNION {LinesAt(s) : s \in Slots}
  BY NothingAtEmpty DEF Held, LinesAt, Content
<1>6. QED
  BY <1>1, <1>2, <1>3, <1>4, <1>5 DEF Content

(* The files with a name keep their lines.                                 *)
LEMMA NamedAreKept ==
  ASSUME NEW bs \in [Files -> Seq(Nat)], NEW nm \in [Slots -> Files \union {None}], NEW hd
  PROVE  \A s \in Slots : nm[s] # None => Kept(bs, nm, hd)[nm[s]] = bs[nm[s]]
<1> SUFFICES ASSUME NEW s \in Slots, nm[s] # None
             PROVE  Kept(bs, nm, hd)[nm[s]] = bs[nm[s]]
  OBVIOUS
<1>1. nm[s] \in Files /\ nm[s] \in InUse(nm, hd)
  BY DEF InUse
<1>2. QED
  BY <1>1, KeptProperties

LEMMA NamesKeepTheirLines ==
  ASSUME LogType, LogType', body' = Kept(body, name', handle')
  PROVE  \A s \in Slots : name'[s] # None => body'[name'[s]] = body[name'[s]]
<1>1. body \in [Files -> Seq(Nat)] /\ name' \in [Slots -> Files \union {None}]
  BY DEF LogType
<1>2. \A nm \in [Slots -> Files \union {None}] : \A hd :
        \A s \in Slots : nm[s] # None => Kept(body, nm, hd)[nm[s]] = body[nm[s]]
  BY <1>1, NamedAreKept
<1>3. QED
  BY <1>1, <1>2, Zenon

LEMMA LinesOfTheLog ==
  ASSUME LogType, Orderly
  PROVE  /\ \A s \in Slots : LinesAt(s) \subseteq 1 .. lines
         /\ Held \subseteq 1 .. lines
         /\ \A s \in Slots : \A i \in 1 .. Len(Content(s)) : Content(s)[i] \in LinesAt(s)
<1>1. \A s \in Slots : DOMAIN Content(s) = 1 .. Len(Content(s))
  BY ContentProperties
<1>2. \A s \in Slots : LinesAt(s) \subseteq 1 .. lines
  BY <1>1 DEF Orderly, ContentsOK, LinesAt, ToSet
<1>3. \A s \in Slots : \A i \in 1 .. Len(Content(s)) : Content(s)[i] \in LinesAt(s)
  BY <1>1 DEF LinesAt, ToSet
<1>4. QED
  BY <1>2, <1>3, ContentProperties

(* All that is gone, or will be, is older than the log.                    *)
LEMMA LogIsYoungest ==
  ASSUME LogType, Orderly, NEW l,
         l \in Gone \/ \E s \in Slots : s # 0 /\ l \in LinesAt(s)
  PROVE  \A k \in LinesAt(0) : l < k
<1>0. \A s \in Slots : s # 0 => 0 < s
  BY DEF Slots
<1>1. \A s \in Slots : s # 0 => \A m \in LinesAt(s), k \in LinesAt(0) : m < k
  BY <1>0, FilesAreNotNone DEF Orderly, OrderOK
<1>2. CASE l \in Gone
  <2>1. PICK s \in Slots : Len(Content(s)) >= MaxBytes /\ \A k \in LinesAt(s) : l < k
    BY <1>2 DEF Orderly, OneIsLeft, OneFullYounger
  <2>2. CASE s # 0
    <3>1. Content(s)[1] \in LinesAt(s)
      <4>1. 1 \in 1 .. Len(Content(s))
        BY <2>1, ContentProperties, MonitoringAssumption
      <4>2. QED
        BY <4>1, LinesOfTheLog
    <3>2. /\ l \in Nat /\ LinesAt(s) \subseteq Nat /\ LinesAt(0) \subseteq Nat
      BY <1>2, ContentProperties, FilesAreNotNone DEF Gone
    <3>3. PICK m \in LinesAt(s) : l < m
      BY <2>1, <3>1
    <3>4. QED
      BY <1>1, <2>2, <3>2, <3>3
  <2>3. QED
    BY <2>1, <2>2
<1>3. QED
  BY <1>1, <1>2

(* A step that leaves every generation as it is.                           *)
LEMMA SameLines ==
  ASSUME LogType, LogType', Orderly, lines' = lines,
         \A s \in Slots : Content(s)' = Content(s)
  PROVE  /\ ContentsOK' /\ OrderOK' /\ OneIsLeft'
         /\ Held' = Held /\ Gone' = Gone /\ (GoneOK => GoneOK')
<1>1. \A s \in Slots : LinesAt(s)' = LinesAt(s)
  BY DEF LinesAt
<1>2. Held = UNION {LinesAt(s) : s \in Slots}
  BY ContentProperties
<1>3. Held' = UNION {LinesAt(s)' : s \in Slots}
  BY NothingAtEmpty DEF Held, LinesAt, Content
<1>4. Held' = Held /\ Gone' = Gone
  BY <1>1, <1>2, <1>3 DEF Gone
<1>5. ContentsOK'
  BY DEF Orderly, ContentsOK
<1>6. OrderOK'
  BY <1>1 DEF Orderly, OrderOK
<1>7. OneIsLeft' /\ (GoneOK => GoneOK')
  BY <1>1, <1>4 DEF Orderly, OneIsLeft, OneFullYounger, GoneOK
<1>8. QED
  BY <1>4, <1>5, <1>6, <1>7

LEMMA BeginAppendOrder ==
  ASSUME LogType, LogType', Orderly, NEW w \in Writers, BeginAppend(w)
  PROVE  Orderly' /\ (Complete => Complete')
<1>1. /\ UNCHANGED <<name, body, lines, moves, handle, disturbed>> /\ writer[w] = "idle"
      /\ writer' = [writer EXCEPT ![w] = IF Full(name[0]) THEN "unlink" ELSE "open"]
  BY DEF BeginAppend
<1>2. \A s \in Slots : Content(s)' = Content(s)
  BY <1>1 DEF Content
<1>3. /\ \A v \in Writers : writer'[v] = "move" <=> writer[v] = "move"
      /\ \A v \in Writers : writer'[v] = "unlink" =>
           writer[v] = "unlink" \/ Full(name[0])
  BY <1>1 DEF LogType
<1>4. Rotating' = Rotating
  BY <1>3 DEF Rotating
<1>5. Full(name[0]) => Len(Content(0)) >= MaxBytes
  BY FilesAreNotNone, MonitoringAssumption DEF Full, Size, Content
<1>6. RotationOK'
  <2>1. \A v \in Writers : writer'[v] \in {"unlink", "move"} => Len(Content(0)') >= MaxBytes
    BY <1>2, <1>3, <1>5, FilesAreNotNone DEF Orderly, RotationOK
  <2>2. QED
    BY <1>4, <2>1 DEF Orderly, RotationOK
<1>7. /\ \A s \in Slots : Vacant(s)' <=> Vacant(s)
      /\ HoleOK' <=> HoleOK
  BY <1>1, <1>4 DEF Vacant, ToFill, HoleOK
<1>8. ContentsOK' /\ OrderOK' /\ OneIsLeft' /\ Gone' = Gone /\ (GoneOK => GoneOK')
  BY <1>1, <1>2, SameLines
<1>9. NamesOK' /\ GenerationsOK' /\ (ClosedUp => ClosedUp')
  BY <1>1, <1>2, <1>7, <1>8 DEF Orderly, NamesOK, GenerationsOK, ClosedUp
<1>10. QED
  BY <1>6, <1>7, <1>8, <1>9 DEF Orderly, Complete

(* The steps of a rotation with nobody else in one.                        *)
LEMMA OnlyOne ==
  ASSUME LogType, NEW w \in Writers, ~Overlaps(w)
  PROVE  /\ \A v \in Writers : v # w => writer[v] \notin {"unlink", "move"}
         /\ Rotating \subseteq {w}
         /\ writer[w] # "move" => Rotating = {}
         /\ writer[w] = "move" => Rotating = {w}
BY DEF Overlaps, Rotating

LEMMA UnlinkOrder ==
  ASSUME LogType, LogType', Orderly, NEW w \in Writers, Unlink(w), ~Overlaps(w)
  PROVE  Orderly' /\ (Complete => Complete')
<1>1. /\ UNCHANGED <<lines, handle>> /\ writer[w] = "unlink"
      /\ name' = [name EXCEPT ![KeepMax] = None] \/ name' = name
      /\ body' = Kept(body, name', handle')
      /\ moves' = [moves EXCEPT ![w] = 1]
      /\ writer' = [writer EXCEPT ![w] = "move"]
  BY DEF Unlink
<1>2. /\ Rotating = {} /\ Rotating' = {w} /\ ToFill(w)' = KeepMax
      /\ \A v \in Writers : v # w => writer'[v] \notin {"unlink", "move"}
      /\ writer'[w] = "move"
  <2>1. moves'[w] = 1 /\ KeepMax + 1 - 1 = KeepMax
    BY <1>1, MonitoringAssumption DEF LogType
  <2>2. /\ writer'[w] = "move" /\ Rotating = {}
        /\ \A v \in Writers : v # w => writer'[v] \notin {"unlink", "move"}
    BY <1>1, OnlyOne DEF LogType
  <2>3. QED
    BY <2>1, <2>2 DEF Rotating, ToFill
<1>3. Len(Content(0)) >= MaxBytes /\ name[0] # None /\ KeepMax # 0
  <2>1. Len(Content(0)) >= MaxBytes
    BY <1>1 DEF Orderly, RotationOK
  <2>2. Len(<<>>) = 0
    OBVIOUS
  <2>3. QED
    BY <2>1, <2>2, FilesAreNotNone, MonitoringAssumption DEF Content
<1>4. \A s \in Slots : Vacant(s)' <=> s = KeepMax
  BY <1>2 DEF Vacant
<1>5. HoleOK'
  BY <1>2 DEF HoleOK
<1>6. Complete => \A s, t \in Slots : s < t /\ name[t] # None => name[s] # None
  BY <1>2, <1>3 DEF Complete, ClosedUp, Vacant
<1>7. \A s \in Slots : name'[s] # None => body'[name'[s]] = body[name'[s]]
  BY <1>1, NamesKeepTheirLines
<1>8. CASE name' = name
  <2>1. \A s \in Slots : Content(s)' = Content(s)
    BY <1>7, <1>8 DEF Content
  <2>2. ContentsOK' /\ OrderOK' /\ OneIsLeft' /\ Gone' = Gone /\ (GoneOK => GoneOK')
    BY <1>1, <2>1, SameLines
  <2>3. NamesOK' /\ GenerationsOK'
    BY <1>8, <2>1 DEF Orderly, NamesOK, GenerationsOK
  <2>4. RotationOK'
    BY <1>2, <1>3, <2>1, FilesAreNotNone DEF RotationOK
  <2>5. Complete => ClosedUp'
    BY <1>2, <1>3, <1>6, <1>8, <2>2 DEF Complete, ClosedUp, Vacant
  <2>6. QED
    BY <1>5, <2>2, <2>3, <2>4, <2>5 DEF Orderly, Complete
<1>9. CASE name' = [name EXCEPT ![KeepMax] = None]
  <2>1. /\ \A s \in Slots : s # KeepMax => name'[s] = name[s] /\ Content(s)' = Content(s)
        /\ name'[KeepMax] = None /\ Content(KeepMax)' = <<>>
    <3>1. /\ \A s \in Slots : s # KeepMax => name'[s] = name[s]
          /\ name'[KeepMax] = None
      BY <1>9, FilesAreNotNone DEF LogType
    <3>2. QED
      BY <1>7, <3>1, FilesAreNotNone DEF Content
  <2>2. /\ \A s \in Slots : s # KeepMax => LinesAt(s)' = LinesAt(s)
        /\ LinesAt(KeepMax)' = {}
    BY <2>1, NothingAtEmpty DEF LinesAt
  <2>3. Held = UNION {LinesAt(s) : s \in Slots} /\ Held' = UNION {LinesAt(s)' : s \in Slots}
    BY NothingAtEmpty DEF Held, LinesAt, Content
  <2>4. \A l \in Gone' : l \in Gone \/ l \in LinesAt(KeepMax)
    BY <1>1, <2>2, <2>3 DEF Gone
  <2>5. NamesOK' /\ GenerationsOK'
    BY <2>1 DEF Orderly, NamesOK, GenerationsOK
  <2>6. ContentsOK'
    <3>1. ~ \E i \in 1 .. Len(<<>>) : TRUE
      OBVIOUS
    <3>2. QED
      BY <1>1, <2>1, <3>1 DEF Orderly, ContentsOK
  <2>7. OrderOK'
    BY <2>2 DEF Orderly, OrderOK
  <2>8. RotationOK'
    BY <1>2, <1>3, <2>1, FilesAreNotNone DEF RotationOK
  <2>9. OneIsLeft'
    <3>1. \A l \in Gone' : \A k \in LinesAt(0) : l < k
      BY <1>3, <2>4, LogIsYoungest, FilesAreNotNone
    <3>2. LinesAt(0)' = LinesAt(0) /\ Content(0)' = Content(0)
      BY <1>3, <2>1, <2>2, FilesAreNotNone
    <3>3. QED
      BY <1>3, <3>1, <3>2, FilesAreNotNone DEF OneIsLeft, OneFullYounger
  <2>10. ASSUME Complete PROVE GoneOK'
    <3> SUFFICES ASSUME NEW l \in Gone', NEW k \in Held' PROVE l < k
      BY DEF GoneOK
    <3>1. PICK t \in Slots : t # KeepMax /\ k \in LinesAt(t)
      BY <2>2, <2>3
    <3>2. k \in Held /\ t < KeepMax
      BY <2>3, <3>1, MonitoringAssumption DEF Slots
    <3>3. CASE l \in Gone
      BY <2>10, <3>2, <3>3 DEF Complete, GoneOK
    <3>4. CASE l \in LinesAt(KeepMax)
      BY <3>1, <3>2, <3>4, FilesAreNotNone DEF Orderly, OrderOK
    <3>5. QED
      BY <2>4, <3>3, <3>4
  <2>11. ASSUME Complete PROVE ClosedUp'
    <3>1. ASSUME Gone' # {} PROVE \A s \in Slots : name[s] # None \/ s = KeepMax
      <4>1. CASE Gone # {}
        BY <1>2, <1>3, <2>11, <4>1 DEF Complete, ClosedUp, Vacant
      <4>2. CASE Gone = {}
        <5>1. PICK l \in Gone' : l \in LinesAt(KeepMax)
          BY <2>4, <3>1, <4>2
        <5>2. name[KeepMax] # None
          BY <5>1, FilesAreNotNone, ContentProperties
        <5>3. \A s \in Slots : s # KeepMax => s < KeepMax
          BY MonitoringAssumption DEF Slots
        <5>4. QED
          BY <1>6, <2>11, <5>2, <5>3, FilesAreNotNone
      <4>3. QED
        BY <4>1, <4>2
    <3>2. QED
      BY <1>4, <1>6, <2>1, <2>11, <3>1 DEF ClosedUp
  <2>12. QED
    BY <1>5, <2>5, <2>6, <2>7, <2>8, <2>9, <2>10, <2>11 DEF Orderly, Complete
<1>10. QED
  BY <1>1, <1>8, <1>9

LEMMA MoveOrder ==
  ASSUME LogType, LogType', Orderly, NEW w \in Writers, Move(w), ~Overlaps(w)
  PROVE  Orderly' /\ (Complete /\ incomplete' = incomplete => Complete')
<1> DEFINE last == moves[w] = KeepMax
<1>0. moves[w] \in 1 .. KeepMax /\ KeepMax \in Nat
  BY MonitoringAssumption DEF Move, LogType
<1> PICK i \in Slots : i = Moving(moves[w])
  BY <1>0 DEF Moving, Slots
<1>1. /\ UNCHANGED <<lines, handle>> /\ writer[w] = "move"
      /\ \/ name' = Moved(i)
         \/ name' = name /\ name[i] # None /\ incomplete' = incomplete + 1
      /\ body' = Kept(body, name', handle')
      /\ moves' = [moves EXCEPT ![w] = IF last THEN 0 ELSE @ + 1]
      /\ writer' = [writer EXCEPT ![w] = IF last THEN "open" ELSE @]
  BY DEF Move
<1>2. /\ i + 1 \in Slots /\ i \in Nat /\ i + 1 # 0 /\ i # i + 1
      /\ ToFill(w) = i + 1 /\ (last <=> i = 0)
      /\ KeepMax + 1 - (moves[w] + 1) = i
  BY <1>0 DEF Moving, ToFill, Slots
<1>3. /\ Rotating = {w} /\ Len(Content(0)) >= MaxBytes /\ name[0] # None
      /\ \A v \in Writers : v # w => writer'[v] \notin {"unlink", "move"}
  <2>1. Rotating = {w} /\ \A v \in Writers : v # w => writer[v] \notin {"unlink", "move"}
    BY <1>1, OnlyOne
  <2>2. Len(Content(0)) >= MaxBytes /\ Len(<<>>) = 0
    BY <1>1 DEF Orderly, RotationOK
  <2>3. QED
    BY <1>1, <2>1, <2>2, FilesAreNotNone, MonitoringAssumption DEF LogType, Content
<1>4. /\ last => Rotating' = {} /\ writer'[w] = "open"
      /\ ~last => Rotating' = {w} /\ ToFill(w)' = i /\ writer'[w] = "move"
  <2>1. /\ last => writer'[w] = "open"
        /\ ~last => writer'[w] = "move" /\ moves'[w] = moves[w] + 1
    BY <1>1 DEF LogType
  <2>2. QED
    BY <1>2, <1>3, <2>1 DEF Rotating, ToFill
<1> HIDE DEF last
<1>5. \A s \in Slots : (Vacant(s) <=> s = i + 1) /\ (Vacant(s)' <=> s = i)
  BY <1>2, <1>3, <1>4 DEF Vacant
<1>6. \A s \in Slots : name'[s] # None => body'[name'[s]] = body[name'[s]]
  BY <1>1, NamesKeepTheirLines
<1>7. (~last => Content(0)' = Content(0)) => RotationOK'
  <2>1. \A v \in Writers : writer'[v] \in {"unlink", "move"} => v = w /\ ~last
    BY <1>3, <1>4
  <2>2. \A v, u \in Rotating' : v = u
    BY <1>4
  <2>3. QED
    BY <1>3, <2>1, <2>2 DEF RotationOK
<1>8. /\ name'[i] = None => HoleOK'
      /\ Complete => \A s, t \in Slots : s < t /\ name[t] # None => name[s] # None \/ s = i + 1
      /\ Complete /\ Gone # {} => \A s \in Slots : name[s] # None \/ s = i + 1
      /\ Complete => name[i + 1] = None \/ i + 1 = KeepMax
  BY <1>2, <1>3, <1>4, <1>5 DEF Complete, HoleOK, ClosedUp
<1>9. CASE name' = name /\ (name[i] # None => incomplete' = incomplete + 1)
  <2>1. \A s \in Slots : Content(s)' = Content(s)
    BY <1>6, <1>9 DEF Content
  <2>2. ContentsOK' /\ OrderOK' /\ OneIsLeft' /\ Gone' = Gone /\ (GoneOK => GoneOK')
    BY <1>1, <2>1, SameLines
  <2>3. NamesOK' /\ GenerationsOK' /\ RotationOK'
    BY <1>7, <1>9, <2>1, FilesAreNotNone DEF Orderly, NamesOK, GenerationsOK
  <2>4. ASSUME Complete, incomplete' = incomplete PROVE HoleOK' /\ ClosedUp'
    <3>1. name[i] = None
      BY <1>9, <2>4 DEF LogType
    <3>2. Gone = {}
      BY <1>2, <1>8, <2>4, <3>1
    <3>3. \A s \in Slots : s \in Nat
      BY DEF Slots
    <3>4. ASSUME NEW s \in Slots, NEW t \in Slots, s < t, name[t] # None, name[s] = None
          PROVE  s = i
      <4>1. s = i + 1
        BY <1>8, <2>4, <3>4
      <4>2. i < t
        BY <1>2, <3>3, <3>4, <4>1
      <4>3. QED
        BY <1>2, <1>8, <2>4, <3>1, <3>4, <4>2
    <3>5. ClosedUp'
      BY <1>5, <1>9, <2>2, <3>2, <3>4 DEF ClosedUp
    <3>6. QED
      BY <1>8, <1>9, <3>1, <3>5
  <2>5. QED
    BY <2>2, <2>3, <2>4 DEF Orderly, Complete
<1>10. CASE name' = Moved(i) /\ name[i] # None
  <2>1. /\ name'[i + 1] = name[i] /\ name'[i] = None
        /\ \A s \in Slots : s # i /\ s # i + 1 => name'[s] = name[s]
    BY <1>2, <1>10 DEF Moved, LogType
  <2>2. /\ Content(i + 1)' = Content(i) /\ Content(i)' = <<>>
        /\ \A s \in Slots : s # i /\ s # i + 1 => Content(s)' = Content(s)
    BY <1>2, <1>6, <1>10, <2>1 DEF Content
  <2>3. /\ LinesAt(i + 1)' = LinesAt(i) /\ LinesAt(i)' = {}
        /\ \A s \in Slots : s # i /\ s # i + 1 => LinesAt(s)' = LinesAt(s)
    BY <2>2, NothingAtEmpty DEF LinesAt
  <2>4. Held = UNION {LinesAt(s) : s \in Slots} /\ Held' = UNION {LinesAt(s)' : s \in Slots}
    BY NothingAtEmpty DEF Held, LinesAt, Content
  <2>5. \A l \in Gone' : l \in Gone \/ l \in LinesAt(i + 1)
    <3> SUFFICES ASSUME NEW s \in Slots, s # i + 1, NEW l \in LinesAt(s) PROVE l \in Held'
      BY <1>1, <2>4 DEF Gone
    <3>1. CASE s = i
      BY <1>2, <2>3, <2>4, <3>1
    <3>2. CASE s # i
      BY <2>3, <2>4, <3>2
    <3>3. QED
      BY <3>1, <3>2
  <2>6. \A k \in Held' : \E t \in Slots : t # i + 1 /\ k \in LinesAt(t)
    <3> SUFFICES ASSUME NEW s \in Slots, NEW k \in LinesAt(s)'
                 PROVE  \E t \in Slots : t # i + 1 /\ k \in LinesAt(t)
      BY <2>4
    <3>1. s # i
      BY <2>3
    <3>2. CASE s = i + 1
      BY <1>2, <2>3, <3>2
    <3>3. CASE s # i + 1
      BY <2>3, <3>1, <3>3
    <3>4. QED
      BY <3>2, <3>3
  <2>7. NamesOK'
    BY <1>2, <1>10, <2>1 DEF Orderly, NamesOK
  <2>8. ContentsOK'
    <3>1. ~ \E j \in 1 .. Len(<<>>) : TRUE
      OBVIOUS
    <3>2. QED
      BY <1>1, <1>2, <2>2, <3>1 DEF Orderly, ContentsOK
  <2>9. OrderOK'
    <3> SUFFICES ASSUME NEW s \in Slots, NEW t \in Slots, s < t,
                        NEW l \in LinesAt(s)', NEW k \in LinesAt(t)'
                 PROVE  k < l
      BY DEF OrderOK
    <3>1. s # i /\ t # i
      BY <2>3
    <3>2. s \in Nat /\ t \in Nat
      BY DEF Slots
    <3>3. CASE s = i + 1
      <4>1. i < t /\ t # i + 1
        BY <1>2, <3>2, <3>3
      <4>2. QED
        BY <1>2, <2>3, <3>1, <3>3, <4>1 DEF Orderly, OrderOK
    <3>4. CASE t = i + 1
      <4>1. s < i /\ s # i + 1
        BY <1>2, <3>1, <3>2, <3>4
      <4>2. QED
        BY <1>2, <2>3, <3>1, <3>4, <4>1 DEF Orderly, OrderOK
    <3>5. CASE s # i + 1 /\ t # i + 1
      BY <2>3, <3>1, <3>5 DEF Orderly, OrderOK
    <3>6. QED
      BY <3>3, <3>4, <3>5
  <2>10. GenerationsOK'
    <3> SUFFICES ASSUME NEW s \in Slots, s # 0, name'[s] # None
                 PROVE  Len(Content(s)') >= MaxBytes
      BY DEF GenerationsOK
    <3>1. s # i
      BY <2>1
    <3>2. CASE s = i + 1
      <4>1. Len(Content(i)) >= MaxBytes
        BY <1>2, <1>3, <1>10, <3>2 DEF Orderly, GenerationsOK
      <4>2. QED
        BY <2>2, <3>2, <4>1
    <3>3. CASE s # i + 1
      BY <2>1, <2>2, <3>1, <3>3 DEF Orderly, GenerationsOK
    <3>4. QED
      BY <3>2, <3>3
  <2>11. RotationOK'
    BY <1>2, <1>7, <2>2, FilesAreNotNone
  <2>12. OneIsLeft'
    <3> DEFINE z == IF i = 0 THEN 1 ELSE 0
    <3>1. \A l \in Gone' : \A k \in LinesAt(0) : l < k
      BY <1>2, <2>5, LogIsYoungest
    <3>2. z \in Slots /\ LinesAt(z)' = LinesAt(0) /\ Content(z)' = Content(0)
      BY <1>2, <2>2, <2>3, FilesAreNotNone
    <3>3. QED
      BY <1>3, <3>1, <3>2 DEF OneIsLeft, OneFullYounger
  <2>13. ASSUME Complete PROVE GoneOK'
    <3> SUFFICES ASSUME NEW l \in Gone', NEW k \in Held' PROVE l < k
      BY DEF GoneOK
    <3>1. PICK t \in Slots : t # i + 1 /\ k \in LinesAt(t)
      BY <2>6
    <3>2. CASE l \in Gone
      BY <2>4, <2>13, <3>1, <3>2 DEF Complete, GoneOK
    <3>3. CASE l \in LinesAt(i + 1)
      <4>1. i + 1 = KeepMax
        BY <1>2, <1>8, <2>13, <3>3, ContentProperties
      <4>2. t < i + 1
        BY <1>0, <3>1, <4>1 DEF Slots
      <4>3. QED
        BY <1>2, <3>1, <3>3, <4>2 DEF Orderly, OrderOK
    <3>4. QED
      BY <2>5, <3>2, <3>3
  <2>14. ASSUME Complete PROVE ClosedUp'
    <3>1. \A s \in Slots : s \in Nat
      BY DEF Slots
    <3>2. ASSUME NEW s \in Slots, NEW t \in Slots, s < t, name'[t] # None, name'[s] = None
          PROVE  s = i
      <4> SUFFICES ASSUME s # i PROVE FALSE
        OBVIOUS
      <4>1. t # i /\ s # i + 1
        BY <1>10, <2>1, <3>2
      <4>2. name[s] = None
        BY <2>1, <3>2, <4>1
      <4>3. CASE t = i + 1
        <5>1. s < i
          BY <1>2, <3>1, <3>2, <4>3
        <5>2. QED
          BY <1>8, <1>10, <2>14, <4>1, <4>2, <5>1
      <4>4. CASE t # i + 1
        BY <1>8, <2>1, <2>14, <3>2, <4>1, <4>2, <4>4
      <4>5. QED
        BY <4>3, <4>4
    <3>3. ASSUME Gone' # {} PROVE \A s \in Slots : name[s] # None \/ s = i + 1
      <4>1. CASE Gone # {}
        BY <1>8, <2>14, <4>1
      <4>2. CASE Gone = {}
        <5>1. PICK l \in Gone' : l \in LinesAt(i + 1)
          BY <2>5, <3>3, <4>2
        <5>2. name[i + 1] # None /\ i + 1 = KeepMax
          BY <1>2, <1>8, <2>14, <5>1, ContentProperties
        <5>3. \A s \in Slots : s # i + 1 => s < i + 1
          BY <1>0, <5>2 DEF Slots
        <5>4. QED
          BY <1>2, <1>8, <2>14, <5>2, <5>3
      <4>3. QED
        BY <4>1, <4>2
    <3>4. Gone' # {} => \A s \in Slots : name'[s] # None \/ s = i
      BY <1>2, <1>10, <2>1, <3>3
    <3>5. QED
      BY <1>5, <3>2, <3>4 DEF ClosedUp
  <2>15. QED
    BY <1>8, <2>1, <2>7, <2>8, <2>9, <2>10, <2>11, <2>12, <2>13, <2>14
    DEF Orderly, Complete
<1>11. name[i] = None => Moved(i) = name
  BY DEF Moved
<1>12. QED
  BY <1>1, <1>9, <1>10, <1>11

LEMMA InterruptedOrder ==
  ASSUME LogType, LogType', Orderly, Interrupted
  PROVE  Orderly' /\ (Complete /\ incomplete' = 0 => Complete')
<1>1. /\ UNCHANGED <<name, lines>> /\ body' = Kept(body, name', handle')
      /\ \A w \in Writers : writer'[w] = "idle"
      /\ incomplete' = 0 => \A w \in Writers : writer[w] # "move"
  BY DEF Interrupted, LogType
<1>2. (incomplete' = 0 => Rotating = {}) /\ Rotating' = {}
  BY <1>1 DEF Rotating
<1>3. \A s \in Slots : Content(s)' = Content(s)
  <2>1. \A s \in Slots : name'[s] # None => body'[name'[s]] = body[name'[s]]
    BY <1>1, NamesKeepTheirLines
  <2>2. QED
    BY <1>1, <2>1 DEF Content
<1>4. RotationOK' /\ HoleOK'
  BY <1>1, <1>2 DEF RotationOK, HoleOK
<1>5. ContentsOK' /\ OrderOK' /\ OneIsLeft' /\ Gone' = Gone /\ (GoneOK => GoneOK')
  BY <1>1, <1>3, SameLines
<1>6. incomplete' = 0 => \A s \in Slots : Vacant(s)' <=> Vacant(s)
  BY <1>2 DEF Vacant
<1>7. NamesOK' /\ GenerationsOK' /\ (ClosedUp /\ incomplete' = 0 => ClosedUp')
  BY <1>1, <1>3, <1>5, <1>6 DEF Orderly, NamesOK, GenerationsOK, ClosedUp
<1>8. QED
  BY <1>4, <1>5, <1>7 DEF Orderly, Complete

LEMMA OpenOrder ==
  ASSUME LogType, LogType', Orderly, NEW w \in Writers, Open(w)
  PROVE  Orderly' /\ (Complete => Complete')
<1>0. writer[w] = "open" /\ handle[w] = None
  BY DEF Open, LogType
<1> PICK new \in Files : /\ new = Min(Files \ InUse(name, handle))
                         /\ new \notin InUse(name, handle)
  BY <1>0, NewFile
<1>1. /\ UNCHANGED <<body, lines, moves>>
      /\ name' = [name EXCEPT ![0] = IF @ = None THEN new ELSE @]
      /\ handle' = [handle EXCEPT ![w] = IF name[0] = None THEN new ELSE name[0]]
      /\ writer' = [writer EXCEPT ![w] = "write"]
  BY DEF Open
<1>2. /\ \A s \in Slots : s # 0 => name'[s] = name[s]
      /\ name'[0] = IF name[0] = None THEN new ELSE name[0]
      /\ name'[0] # None
  BY <1>1, FilesAreNotNone DEF LogType
<1>3. body[new] = <<>> /\ \A s \in Slots : name[s] # new
  BY FilesAreNotNone DEF LogType, InUse
<1>4. \A s \in Slots : Content(s)' = Content(s)
  <2>1. Content(0)' = Content(0)
    BY <1>1, <1>2, <1>3, FilesAreNotNone DEF Content
  <2>2. QED
    BY <1>1, <1>2, <2>1 DEF Content
<1>5. /\ \A v \in Writers : v # w => writer'[v] = writer[v] /\ handle'[v] = handle[v]
      /\ writer'[w] = "write" /\ handle'[w] = name'[0]
  BY <1>1, <1>2 DEF LogType
<1>6. Rotating' = Rotating /\ w \notin Rotating
  BY <1>0, <1>5 DEF Rotating
<1>7. \A s \in Slots : Vacant(s)' <=> Vacant(s)
  BY <1>1, <1>6 DEF Vacant, ToFill
<1>8. \A v \in Rotating : ToFill(v)' = ToFill(v) /\ ToFill(v) \in Slots /\ ToFill(v) # 0
  BY <1>1, MonitoringAssumption DEF Rotating, ToFill, LogType, Slots
<1>9. RotationOK' /\ (HoleOK => HoleOK')
  <2>1. \A v \in Writers : writer'[v] \in {"unlink", "move"} => Len(Content(0)') >= MaxBytes
    BY <1>4, <1>5, FilesAreNotNone DEF Orderly, RotationOK
  <2>2. HoleOK => HoleOK'
    BY <1>2, <1>6, <1>8 DEF HoleOK
  <2>3. \A u, v \in Rotating' : u = v
    BY <1>6 DEF Orderly, RotationOK
  <2>4. QED
    BY <2>1, <2>2, <2>3 DEF RotationOK
<1>10. ContentsOK' /\ OrderOK' /\ OneIsLeft' /\ Gone' = Gone /\ (GoneOK => GoneOK')
  BY <1>1, <1>4, SameLines
<1>11. NamesOK'
  BY <1>2, <1>3 DEF Orderly, NamesOK
<1>12. GenerationsOK'
  BY <1>2, <1>4 DEF Orderly, GenerationsOK
<1>13. ClosedUp => ClosedUp'
  <2>1. \A s \in Slots : s \in Nat
    BY DEF Slots
  <2>2. \A s, t \in Slots : s < t => t # 0
    BY <2>1
  <2>3. QED
    BY <1>2, <1>7, <1>10, <2>2 DEF ClosedUp
<1>14. QED
  BY <1>9, <1>10, <1>11, <1>12, <1>13 DEF Orderly, Complete

LEMMA WriteOrder ==
  ASSUME LogType, LogType', Orderly, NEW w \in Writers, Write(w), ~disturbed'
  PROVE  Orderly' /\ (Complete => Complete')
<1>0. /\ writer[w] = "write" /\ handle[w] = name[0] /\ name[0] # None
      /\ lines \in Nat /\ lines + 1 \in Nat
  BY DEF Write, LogType
<1> PICK f \in Files : f = name[0]
  BY <1>0, FilesAreNotNone DEF LogType
<1> DEFINE bs == [body EXCEPT ![f] = Append(@, lines + 1)]
<1>1. /\ UNCHANGED <<name, moves>> /\ lines' = lines + 1
      /\ handle' = [handle EXCEPT ![w] = None]
      /\ body' = Kept(bs, name', handle')
      /\ writer' = [writer EXCEPT ![w] = "idle"]
  BY <1>0 DEF Write
<1>2. bs \in [Files -> Seq(Nat)] /\ bs[f] = Append(body[f], lines + 1)
      /\ \A g \in Files : g # f => bs[g] = body[g]
  BY <1>0, AppendProperties DEF LogType
<1> HIDE DEF bs
<1>3. \A s \in Slots : name'[s] # None => body'[name'[s]] = bs[name'[s]]
  <2>1. name' \in [Slots -> Files \union {None}]
    BY DEF LogType
  <2>2. \A nm \in [Slots -> Files \union {None}] : \A hd :
          \A s \in Slots : nm[s] # None => Kept(bs, nm, hd)[nm[s]] = bs[nm[s]]
    BY <1>2, NamedAreKept
  <2>3. QED
    BY <1>1, <2>1, <2>2, Zenon
<1>4. /\ Content(0)' = Append(Content(0), lines + 1)
      /\ \A s \in Slots : s # 0 => Content(s)' = Content(s)
  <2>1. Content(0)' = bs[f] /\ Content(0) = body[f]
    BY <1>0, <1>1, <1>3, FilesAreNotNone DEF Content
  <2>2. \A s \in Slots : s # 0 /\ name[s] # None => name[s] # f /\ name[s] \in Files
    BY <1>0, FilesAreNotNone DEF Orderly, NamesOK, LogType
  <2>3. \A s \in Slots : s # 0 => Content(s)' = Content(s)
    BY <1>1, <1>2, <1>3, <2>2 DEF Content
  <2>4. QED
    BY <1>2, <2>1, <2>3
<1>5. /\ Content(0) \in Seq(Nat) /\ Len(Content(0)) \in Nat
      /\ Len(Content(0)') = Len(Content(0)) + 1
      /\ \A i \in 1 .. Len(Content(0)) : Content(0)'[i] = Content(0)[i]
      /\ Content(0)'[Len(Content(0)) + 1] = lines + 1
  <2> PICK q \in Seq(Nat) : q = Content(0)
    BY ContentProperties, FilesAreNotNone
  <2> PICK x \in Nat : x = lines + 1
    BY <1>0
  <2>1. /\ Len(q) \in Nat /\ Len(Append(q, x)) = Len(q) + 1
        /\ \A i \in 1 .. Len(q) : Append(q, x)[i] = q[i]
        /\ Append(q, x)[Len(q) + 1] = x
    OBVIOUS
  <2>2. Content(0)' = Append(q, x)
    BY <1>4
  <2>3. QED
    BY <2>1, <2>2
<1>6. /\ LinesAt(0)' = LinesAt(0) \union {lines + 1}
      /\ \A s \in Slots : s # 0 => LinesAt(s)' = LinesAt(s)
  BY <1>0, <1>4, <1>5, AppendAddsOne DEF LinesAt
<1>7. \A s \in Slots : LinesAt(s) \subseteq 1 .. lines
  BY LinesOfTheLog
<1>8. Held' = Held \union {lines + 1} /\ Gone' = Gone
  <2>1. Held = UNION {LinesAt(s) : s \in Slots} /\ Held' = UNION {LinesAt(s)' : s \in Slots}
    BY NothingAtEmpty DEF Held, LinesAt, Content
  <2>2. Held' = Held \union {lines + 1}
    BY <1>6, <2>1, FilesAreNotNone
  <2>3. 1 .. lines + 1 = (1 .. lines) \union {lines + 1} /\ lines + 1 \notin 1 .. lines
    BY <1>0
  <2>4. QED
    BY <1>1, <2>2, <2>3 DEF Gone
<1>9. ContentsOK'
  <2> SUFFICES ASSUME NEW s \in Slots, NEW i \in 1 .. Len(Content(s)'),
                      NEW j \in 1 .. Len(Content(s)')
               PROVE  /\ Content(s)'[i] \in 1 .. lines + 1
                      /\ Content(s)'[i] = Content(s)'[j] => i = j
    BY <1>1 DEF ContentsOK
  <2>1. \A k \in 1 .. lines : k \in 1 .. lines + 1 /\ k # lines + 1
    BY <1>0
  <2>2. CASE s # 0
    BY <1>4, <2>1, <2>2 DEF Orderly, ContentsOK
  <2>3. CASE s = 0
    <3>1. \A k \in 1 .. Len(Content(0)) + 1 :
            k \in 1 .. Len(Content(0)) \/ k = Len(Content(0)) + 1
      BY <1>5
    <3>2. \A k, m \in 1 .. Len(Content(0)) :
            Content(0)[k] \in 1 .. lines /\ (Content(0)[k] = Content(0)[m] => k = m)
      BY FilesAreNotNone DEF Orderly, ContentsOK
    <3>3. lines + 1 \in 1 .. lines + 1
      BY <1>0
    <3>4. QED
      BY <1>5, <2>1, <2>3, <3>1, <3>2, <3>3
  <2>4. QED
    BY <2>2, <2>3
<1>10. OrderOK'
  <2> SUFFICES ASSUME NEW s \in Slots, NEW t \in Slots, s < t,
                      NEW l \in LinesAt(s)', NEW k \in LinesAt(t)'
               PROVE  k < l
    BY DEF OrderOK
  <2>1. t # 0
    BY DEF Slots
  <2>2. k \in LinesAt(t) /\ k \in 1 .. lines
    BY <1>6, <1>7, <2>1
  <2>3. CASE l \in LinesAt(s)
    BY <2>2, <2>3 DEF Orderly, OrderOK
  <2>4. CASE l = lines + 1
    BY <1>0, <2>2, <2>4
  <2>5. QED
    BY <1>6, <2>3, <2>4
<1>11. GenerationsOK'
  BY <1>1, <1>4 DEF Orderly, GenerationsOK
<1>12. /\ \A v \in Writers : v # w => writer'[v] = writer[v] /\ handle'[v] = handle[v]
       /\ writer'[w] = "idle" /\ Rotating' = Rotating
  BY <1>0, <1>1 DEF LogType, Rotating
<1>13. RotationOK' /\ (HoleOK => HoleOK')
  <2>1. \A v \in Writers : writer'[v] \in {"unlink", "move"} => Len(Content(0)) >= MaxBytes
    BY <1>12 DEF Orderly, RotationOK
  <2>2. Len(Content(0)) >= MaxBytes => Len(Content(0)') >= MaxBytes
    BY <1>5, MonitoringAssumption
  <2>3. HoleOK => HoleOK'
    BY <1>1, <1>12 DEF HoleOK, ToFill
  <2>4. \A u, v \in Rotating' : u = v
    BY <1>12 DEF Orderly, RotationOK
  <2>5. QED
    BY <2>1, <2>2, <2>3, <2>4 DEF RotationOK
<1>14. \A l \in Gone : l < lines + 1
  BY <1>0 DEF Gone
<1>15. GoneOK => GoneOK'
  BY <1>8, <1>14 DEF GoneOK
<1>16. OneIsLeft'
  <2> SUFFICES ASSUME NEW l \in Gone PROVE OneFullYounger(l)'
    BY <1>8 DEF OneIsLeft
  <2>1. PICK s \in Slots : Len(Content(s)) >= MaxBytes /\ \A k \in LinesAt(s) : l < k
    BY DEF Orderly, OneIsLeft, OneFullYounger
  <2>2. CASE s = 0
    <3>1. Len(Content(0)') >= MaxBytes
      BY <1>5, <2>1, <2>2, MonitoringAssumption
    <3>2. QED
      BY <1>6, <1>14, <2>1, <2>2, <3>1 DEF OneFullYounger
  <2>3. CASE s # 0
    BY <1>4, <1>6, <2>1, <2>3 DEF OneFullYounger
  <2>4. QED
    BY <2>2, <2>3
<1>17. \A s \in Slots : Vacant(s)' <=> Vacant(s)
  BY <1>1, <1>12 DEF Vacant, ToFill
<1>18. NamesOK' /\ (ClosedUp => ClosedUp')
  BY <1>1, <1>8, <1>17 DEF Orderly, NamesOK, ClosedUp
<1>19. QED
  BY <1>9, <1>10, <1>11, <1>13, <1>15, <1>16, <1>18 DEF Orderly, Complete

LEMMA InitOrder == Init => InOrder
<1> SUFFICES ASSUME Init PROVE Orderly /\ Complete
  BY DEF InOrder
<1>1. /\ \A s \in Slots : name[s] = None
      /\ \A w \in Writers : writer[w] = "idle"
      /\ lines = 0 /\ 1 .. 0 = {}
  BY DEF Init
<1>2. \A s \in Slots : Content(s) = <<>> /\ LinesAt(s) = {}
  BY <1>1, NothingAtEmpty DEF Content, LinesAt
<1>3. ~ \E i \in 1 .. Len(<<>>) : TRUE
  OBVIOUS
<1>4. Gone = {} /\ Rotating = {}
  BY <1>1 DEF Gone, Rotating
<1>5. NamesOK /\ ContentsOK /\ OrderOK /\ GenerationsOK
  BY <1>1, <1>2, <1>3 DEF NamesOK, ContentsOK, OrderOK, GenerationsOK
<1>6. RotationOK /\ OneIsLeft /\ GoneOK /\ ClosedUp /\ HoleOK
  BY <1>1, <1>4 DEF RotationOK, OneIsLeft, GoneOK, ClosedUp, HoleOK
<1>7. QED
  BY <1>5, <1>6 DEF Orderly, Complete

LEMMA NextOrder == LogInv /\ LogInv' /\ InOrder /\ [Next]_vars => InOrder'
<1> SUFFICES ASSUME LogInv, LogInv', InOrder, [Next]_vars, ~disturbed'
             PROVE  Orderly' /\ (incomplete' = 0 => Complete')
  BY DEF InOrder
<1>1. LogType /\ LogType' /\ incomplete \in Nat /\ incomplete' \in Nat
  BY DEF LogInv, LogType
<1>2. CASE UNCHANGED log
  <2>1. ~disturbed /\ incomplete' = incomplete
    BY <1>2 DEF log
  <2>2. Orderly /\ (incomplete' = 0 => Complete)
    BY <2>1 DEF InOrder
  <2>3. /\ \A s \in Slots : Content(s)' = Content(s) /\ (Vacant(s)' <=> Vacant(s))
        /\ Rotating' = Rotating /\ (HoleOK' <=> HoleOK)
    BY <1>2 DEF log, Content, Vacant, Rotating, ToFill, HoleOK
  <2>4. ContentsOK' /\ OrderOK' /\ OneIsLeft' /\ Gone' = Gone /\ (GoneOK => GoneOK')
    BY <1>1, <1>2, <2>2, <2>3, SameLines DEF log
  <2>5. NamesOK' /\ GenerationsOK' /\ (ClosedUp => ClosedUp')
    BY <1>2, <2>2, <2>3, <2>4 DEF log, Orderly, NamesOK, GenerationsOK, ClosedUp
  <2>6. RotationOK'
    BY <1>2, <2>2, <2>3, FilesAreNotNone DEF log, Orderly, RotationOK
  <2>7. QED
    BY <2>2, <2>3, <2>4, <2>5, <2>6 DEF Orderly, Complete
<1>3. ASSUME NEW w \in Writers, BeginAppend(w) \/ AppendStep(w)
      PROVE  Orderly' /\ (incomplete' = 0 => Complete')
  <2>1. ~disturbed /\ (Unlink(w) \/ Move(w) => ~Overlaps(w))
    <3>1. Unlink(w) \/ Move(w) => (disturbed' <=> (disturbed \/ Overlaps(w)))
      BY Zenon DEF Unlink, Move
    <3>2. BeginAppend(w) \/ Open(w) => disturbed' = disturbed
      BY DEF BeginAppend, Open
    <3>3. Write(w) => (disturbed' <=> (disturbed \/ handle[w] # name[0]))
      BY Zenon DEF Write
    <3>4. QED
      BY <1>3, <3>1, <3>2, <3>3 DEF AppendStep
  <2>2. Orderly /\ (incomplete = 0 => Complete)
    BY <2>1 DEF InOrder
  <2>3. CASE BeginAppend(w)
    BY <1>1, <2>2, <2>3, BeginAppendOrder DEF BeginAppend
  <2>4. CASE Unlink(w)
    BY <1>1, <2>1, <2>2, <2>4, UnlinkOrder DEF Unlink
  <2>5. CASE Move(w)
    <3>1. incomplete' = incomplete \/ incomplete' = incomplete + 1
      BY <2>5 DEF Move
    <3>2. incomplete' = 0 => incomplete = 0 /\ incomplete' = incomplete
      BY <1>1, <3>1
    <3>3. QED
      BY <1>1, <2>1, <2>2, <2>5, <3>2, MoveOrder
  <2>6. CASE Open(w)
    BY <1>1, <2>2, <2>6, OpenOrder DEF Open
  <2>7. CASE Write(w)
    BY <1>1, <2>2, <2>7, WriteOrder DEF Write
  <2>8. QED
    BY <1>3, <2>3, <2>4, <2>5, <2>6, <2>7 DEF AppendStep
<1>4. CASE Interrupted
  <2>1. ~disturbed /\ (incomplete' = 0 => incomplete = 0)
    BY <1>1, <1>4 DEF Interrupted
  <2>2. QED
    BY <1>1, <1>4, <2>1, InterruptedOrder DEF InOrder
<1>5. QED
  BY <1>2, <1>3, <1>4, LogSteps

(* With lines gone, every generation but the vacant one is there and full. *)
LEMMA EnoughIsHeld ==
  ASSUME LogType, Orderly, Complete, Gone # {}
  PROVE  Cardinality(Held) >= KeepMax * MaxBytes
<1> PICK g \in Slots : /\ \A s \in Slots : Vacant(s) => s = g
                       /\ Rotating = {} => g = 0
  <2>1. CASE Rotating = {}
    BY <2>1, FilesAreNotNone DEF Vacant
  <2>2. CASE Rotating # {}
    <3>1. PICK w \in Rotating : TRUE
      BY <2>2
    <3>2. ToFill(w) \in Slots
      BY <3>1, MonitoringAssumption DEF LogType, Rotating, ToFill, Slots
    <3>3. \A s \in Slots : Vacant(s) => s = ToFill(w)
      BY <3>1 DEF Vacant, Orderly, RotationOK
    <3>4. QED
      BY <2>2, <3>2, <3>3
  <2>3. QED
    BY <2>1, <2>2
<1>1. \A s \in Slots \ {g} : Len(Content(s)) >= MaxBytes
  <2> SUFFICES ASSUME NEW s \in Slots, s # g PROVE Len(Content(s)) >= MaxBytes
    OBVIOUS
  <2>1. CASE s # 0
    BY <2>1 DEF Orderly, Complete, ClosedUp, GenerationsOK
  <2>2. CASE s = 0
    BY <2>2 DEF Rotating, Orderly, RotationOK
  <2>3. QED
    BY <2>1, <2>2
<1> DEFINE S == (Slots \ {g}) \X (1 .. MaxBytes)
           at2 == [p \in S |-> Content(p[1])[p[2]]]
<1>2. \A s \in Slots \ {g} : \A i \in 1 .. MaxBytes :
        i \in 1 .. Len(Content(s)) /\ Content(s)[i] \in LinesAt(s)
  <2> SUFFICES ASSUME NEW s \in Slots \ {g}, NEW i \in 1 .. MaxBytes
               PROVE  i \in 1 .. Len(Content(s)) /\ Content(s)[i] \in LinesAt(s)
    OBVIOUS
  <2>1. Content(s) \in Seq(Nat) /\ Len(Content(s)) \in Nat
    BY ContentProperties
  <2>2. i \in 1 .. Len(Content(s))
    BY <1>1, <2>1, MonitoringAssumption
  <2>3. QED
    BY <2>1, <2>2 DEF LinesAt, ToSet
<1>3. at2 \in [S -> Held]
  BY <1>2, ContentProperties
<1>4. ASSUME NEW p \in S, NEW q \in S, at2[p] = at2[q] PROVE p = q
  <2> PICK s \in Slots \ {g}, i \in 1 .. MaxBytes : p = <<s, i>>
    OBVIOUS
  <2> PICK t \in Slots \ {g}, j \in 1 .. MaxBytes : q = <<t, j>>
    OBVIOUS
  <2>1. /\ Content(s)[i] = Content(t)[j]
        /\ Content(s)[i] \in LinesAt(s) /\ Content(t)[j] \in LinesAt(t)
        /\ i \in 1 .. Len(Content(s)) /\ j \in 1 .. Len(Content(t))
    BY <1>2, <1>4
  <2>2. Content(s)[i] \in Nat
    BY <2>1, ContentProperties
  <2>3. ~(s < t) /\ ~(t < s)
    BY <2>1, <2>2 DEF Orderly, OrderOK
  <2>4. s = t
    BY <2>3 DEF Slots
  <2>5. i = j
    BY <2>1, <2>4 DEF Orderly, ContentsOK
  <2>6. QED
    BY <2>4, <2>5
<1> HIDE DEF S, at2
<1>5. at2 \in Injection(S, Held)
  BY <1>3, <1>4 DEF Injection, IsInjective
<1>6. IsFiniteSet(Held) /\ Cardinality(Held) \in Nat
  <2>1. Held \subseteq 1 .. lines
    BY LinesOfTheLog
  <2>2. IsFiniteSet(1 .. lines)
    BY FS_Interval DEF LogType
  <2>3. QED
    BY <2>1, <2>2, FS_Subset, FS_CardinalityType
<1>7. Cardinality(S) = KeepMax * MaxBytes
  <2>1. IsFiniteSet(Slots) /\ Cardinality(Slots) = KeepMax + 1
    BY FS_Interval, MonitoringAssumption DEF Slots
  <2>2. IsFiniteSet(Slots \ {g}) /\ Cardinality(Slots \ {g}) = Cardinality(Slots) - 1
    BY <2>1, FS_RemoveElement
  <2>3. Cardinality(Slots \ {g}) = KeepMax
    BY <2>1, <2>2, MonitoringAssumption
  <2>4. IsFiniteSet(1 .. MaxBytes) /\ Cardinality(1 .. MaxBytes) = MaxBytes
    BY FS_Interval, MonitoringAssumption
  <2>5. Cardinality(S) = Cardinality(Slots \ {g}) * Cardinality(1 .. MaxBytes)
    BY <2>2, <2>4, FS_Product DEF S
  <2>6. QED
    BY <2>3, <2>4, <2>5
<1>8. Cardinality(S) <= Cardinality(Held)
  BY <1>5, <1>6, FS_Injection
<1>9. KeepMax * MaxBytes \in Nat
  BY MonitoringAssumption
<1>10. QED
  BY <1>6, <1>7, <1>8, <1>9

(* A full generation of younger lines is a full generation.                *)
LEMMA FullGeneration ==
  ASSUME LogType, Orderly, NEW gone \in Nat, OneFullYounger(gone)
  PROVE  Cardinality(Younger(gone)) >= MaxBytes
<1> PICK s \in Slots : Len(Content(s)) >= MaxBytes /\ \A k \in LinesAt(s) : gone < k
  BY DEF OneFullYounger
<1> DEFINE S == 1 .. MaxBytes
           lineAt == [i \in S |-> Content(s)[i]]
<1>1. \A i \in S : i \in 1 .. Len(Content(s)) /\ Content(s)[i] \in LinesAt(s)
  <2>1. \A i \in S : i \in 1 .. Len(Content(s))
    BY ContentProperties, MonitoringAssumption
  <2>2. QED
    BY <2>1, LinesOfTheLog
<1>2. LinesAt(s) \subseteq Younger(gone)
  BY ContentProperties DEF Younger
<1>3. lineAt \in [S -> Younger(gone)]
  BY <1>1, <1>2
<1>4. \A i, j \in S : lineAt[i] = lineAt[j] => i = j
  BY <1>1 DEF Orderly, ContentsOK
<1> HIDE DEF lineAt
<1>5. lineAt \in Injection(S, Younger(gone))
  BY <1>3, <1>4 DEF Injection, IsInjective
<1>6. IsFiniteSet(Younger(gone)) /\ Cardinality(Younger(gone)) \in Nat
  <2>1. Younger(gone) \subseteq 1 .. lines
    BY LinesOfTheLog DEF Younger
  <2>2. IsFiniteSet(1 .. lines)
    BY FS_Interval DEF LogType
  <2>3. QED
    BY <2>1, <2>2, FS_Subset, FS_CardinalityType
<1>7. Cardinality(S) = MaxBytes
  BY FS_Interval, MonitoringAssumption
<1>8. Cardinality(S) <= Cardinality(Younger(gone))
  BY <1>5, <1>6, FS_Injection
<1>9. QED
  BY <1>6, <1>7, <1>8, MonitoringAssumption

(* _maybe_rotate: what leaves the log is older than KeepMax full           *)
(* generations that stay, and older than one if a rename failed or a       *)
(* rotation was cut short - unless two threads were in a rotation at once, *)
(* or one wrote its line to a file that had been moved meanwhile.          *)
THEOREM OldestLinesGoFirst == Spec => []OldestGoFirst
<1>1. LogInv /\ InOrder => OldestGoFirst
  <2> SUFFICES ASSUME LogType, Orderly, incomplete = 0 => Complete, NEW gone \in Gone
               PROVE  Cardinality(Younger(gone))
                        >= (IF incomplete = 0 THEN KeepMax ELSE 1) * MaxBytes
    BY DEF LogInv, InOrder, OldestGoFirst, Gone
  <2>1. Held \subseteq Nat /\ gone \in Nat
    BY ContentProperties DEF Gone
  <2>2. CASE incomplete = 0
    <3>1. \A l \in Held : l > gone
      BY <2>1, <2>2 DEF Complete, GoneOK
    <3>2. Younger(gone) = Held
      BY <3>1 DEF Younger
    <3>3. QED
      BY <2>2, <3>2, EnoughIsHeld
  <2>3. CASE incomplete # 0
    <3>1. Cardinality(Younger(gone)) >= MaxBytes
      BY <2>1, FullGeneration DEF Orderly, OneIsLeft
    <3>2. 1 * MaxBytes = MaxBytes
      BY MonitoringAssumption
    <3>3. QED
      BY <2>3, <3>1, <3>2
  <2>4. QED
    BY <2>2, <2>3
<1>2. QED
  BY <1>1, InitLog, NextLog, InitOrder, NextOrder, PTL DEF Spec

-----------------------------------------------------------------------------
(* The clocks and the bounds.                                              *)
Times(limit) == {None} \union 0 .. limit

RestOK ==
  /\ age \in Times(Patience + 1) /\ since \in [Keys -> Times(Cooldown)]
  /\ faults \in 0 .. MaxFaults /\ restarts \in 0 .. MaxRestarts
  /\ incomplete \in Nat /\ incomplete <= faults + restarts

LEMMA OlderProperties ==
  ASSUME NEW limit \in Nat, NEW t \in Times(limit)
  PROVE  Older(t, limit) \in Times(limit)
<1>1. CASE t = None
  BY <1>1 DEF Older, Times
<1>2. CASE t \in 0 .. limit
  <2>1. Min({t + 1, limit}) \in {t + 1, limit}
    BY LeastNumber, <1>2
  <2>2. Min({t + 1, limit}) \in 0 .. limit
    <3>1. PICK m \in {t + 1, limit} : \A y \in {t + 1, limit} : m <= y
      BY <1>2
    <3>2. \A y \in {t + 1, limit} : Min({t + 1, limit}) <= y
      BY <3>1 DEF Min
    <3>3. QED
      BY <1>2, <2>1, <3>2
  <2>3. QED
    BY <1>2, <2>2 DEF Older, Times, None
<1>3. QED
  BY <1>1, <1>2 DEF Times

LEMMA InitRest == Init => RestOK
BY MonitoringAssumption DEF Init, RestOK, Times

LEMMA NextRest == RestOK /\ [Next]_vars => RestOK'
<1> SUFFICES ASSUME RestOK, [Next]_vars PROVE RestOK'
  OBVIOUS
<1>1. CASE Tick
  <2>1. /\ Patience + 1 \in Nat /\ Cooldown \in Nat
        /\ age \in Times(Patience + 1) /\ \A k \in Keys : since[k] \in Times(Cooldown)
    BY MonitoringAssumption DEF RestOK
  <2>2. /\ Older(age, Patience + 1) \in Times(Patience + 1)
        /\ \A k \in Keys : Older(since[k], Cooldown) \in Times(Cooldown)
    BY <2>1, OlderProperties
  <2>3. QED
    BY <1>1, <2>2 DEF Tick, RestOK, bounds, log
<1>2. CASE UNCHANGED <<age, since, incomplete>> /\ (UNCHANGED bounds \/ Faulty)
  BY <1>2, MonitoringAssumption DEF Faulty, bounds, RestOK
<1>3. CASE LogStep
  <2>1. UNCHANGED <<age, since>>
    BY <1>3 DEF LogStep, LogStepOf, loops, channel
  <2>2. \/ UNCHANGED incomplete /\ (UNCHANGED bounds \/ Faulty)
        \/ incomplete' = incomplete + 1 /\ Faulty
    <3>1. PICK w \in Writers : AppendStep(w)
      BY <1>3 DEF LogStep, LogStepOf
    <3>2. QED
      BY <3>1 DEF AppendStep, Unlink, Move, Open, Write
  <2>3. CASE incomplete' = incomplete + 1 /\ Faulty
    BY <2>1, <2>3, MonitoringAssumption DEF Faulty, RestOK
  <2>4. QED
    BY <1>2, <2>1, <2>2, <2>3
<1>4. CASE Restart
  <2>1. incomplete' \in Nat /\ incomplete' <= incomplete + 1
    BY <1>4 DEF Restart, RestOK
  <2>2. QED
    BY <1>4, <2>1, MonitoringAssumption DEF Restart, RestOK, Times
<1>5. CASE PollNew
  BY <1>5, MonitoringAssumption DEF PollNew, RestOK, Times, bounds, log
<1>6. CASE Gate
  <2>1. since' = since \/ \E k : since' = [since EXCEPT ![k] = 0]
    BY <1>6 DEF Gate, AfterAsk
  <2>2. QED
    BY <1>6, <2>1, MonitoringAssumption DEF Gate, RestOK, Times, bounds, log
<1>7. CASE WriteSnapshot \/ Post
  BY <1>2, <1>7 DEF WriteSnapshot, Post, loops, channel, log
<1>8. ASSUME NEW w, BeginAppend(w) \/ UNCHANGED log PROVE UNCHANGED incomplete
  BY <1>8 DEF BeginAppend, log
<1>9. ASSUME NEW t, Alert(t) PROVE UNCHANGED incomplete
  BY <1>8, <1>9 DEF Alert
<1>10. ASSUME \/ (\E w \in Pushers : Attempt(w)) \/ TakeSnapshot
              \/ (\E n \in 0 .. AlertDepth : ReplayPass(n)) \/ PollNothingNew
              \/ Watch \/ UNCHANGED vars
       PROVE  UNCHANGED <<age, since, bounds, incomplete>>
  <2>1. UNCHANGED <<age, since, bounds>>
    BY <1>10 DEF Attempt, TakeSnapshot, ReplayPass, PollNothingNew, Watch,
                 vars, loops, channel
  <2>2. UNCHANGED incomplete
    BY <1>8, <1>9, <1>10 DEF Attempt, TakeSnapshot, ReplayPass, PollNothingNew, Watch,
                             vars, log
  <2>3. QED
    BY <2>1, <2>2
<1>11. QED
  BY <1>1, <1>2, <1>3, <1>4, <1>5, <1>6, <1>7, <1>10 DEF Next

(* Every variable has its type.  The log outgrows its limit only by the    *)
(* lines of the threads that looked at its size together and one for each  *)
(* rename that failed, and there is always a file for a writer that opens  *)
(* the log.                                                                *)
THEOREM TypeCorrect == Spec => []TypeOK
<1>1. CountersOK /\ LoopsOK /\ LogInv /\ RestOK => TypeOK
  <2> SUFFICES ASSUME CountersOK, LoopsOK, LogInv, RestOK PROVE TypeOK
    OBVIOUS
  <2>1. \A f \in Files : Len(body[f]) < MaxBytes + Cardinality(Writers) + incomplete
    <3> SUFFICES ASSUME NEW f \in Files
                 PROVE  Len(body[f]) < MaxBytes + Cardinality(Writers) + incomplete
      OBVIOUS
    <3>1. /\ Len(body[f]) + Cardinality(Heading(f))
               <= MaxBytes - 1 + Cardinality(Writers) + incomplete
          /\ Len(body[f]) \in Nat /\ incomplete \in Nat
      BY LenProperties DEF LogInv, LogType, SizesOK
    <3>2. QED
      BY <3>1, HeadingIsFinite, WritersAreFinite, MonitoringAssumption
  <2>2. lines \in 0 .. MaxLines + Cardinality(Writers) - 1
    BY HeadingIsFinite, WritersAreFinite, MonitoringAssumption
    DEF LogInv, LogType, LinesOK
  <2>3. /\ setup \in Setups /\ at \in {"between", "mirror", "post", "watch"}
        /\ topic \in {"none", "backlog", "drained", "stall"}
        /\ shown \in {"nothing", "backlog", "drained"}
        /\ {alerting, told, excused} \subseteq BOOLEAN
    BY DEF LoopsOK, Sending
  <2>4. /\ window \in 0 .. MaxAttempts /\ total \in 0 .. MaxAttempts
        /\ inHand \in {None} \union 0 .. MaxAttempts /\ reported \in 0 .. MaxAttempts
    BY MonitoringAssumption DEF CountersOK, InHandSum, None
  <2>5. /\ name \in [Slots -> Files \union {None}]
        /\ writer \in [Writers -> {"idle", "unlink", "move", "open", "write"}]
        /\ moves \in [Writers -> 0 .. KeepMax]
        /\ handle \in [Writers -> Files \union {None}]
        /\ {unwritten, disturbed} \subseteq BOOLEAN
    BY DEF LogInv, LogType, Stages, CountersOK
  <2>6. incomplete \in 0 .. MaxFaults + MaxRestarts
    BY MonitoringAssumption DEF RestOK
  <2>7. QED
    BY <2>1, <2>2, <2>3, <2>4, <2>5, <2>6 DEF TypeOK, RestOK, Times
<1>2. QED
  BY <1>1, InitCounters, NextCounters, InitLoops, NextLoops, InitLog, NextLog,
     InitRest, NextRest, PTL DEF Spec
=============================================================================
