------------------------- MODULE KafkaIngestProofs -------------------------
(***************************************************************************)
(* What KafkaIngest guarantees for every number of messages, size of a     *)
(* batch and set of messages that do not deserialize.                                   *)
(***************************************************************************)
EXTENDS KafkaIngest, TLAPS

(* A message nobody has to read any more.                                  *)
Settled(o) == fate[o] # "unread" \/ o \in missed \/ o < first

SettledBelow(p) == \A o \in Below(p) : Settled(o)

(* An assignment is remembered by whoever holds an offset.                 *)
FirstKnown ==
  group # None \/ pos # None \/ inflight # None => first # None

(* The batch is in hand between consuming and committing.                  *)
BatchInHand ==
  /\ batch # {} => at \in {"forwarding", "pushing", "committing", "failed"}
  /\ at \in {"forwarding", "pushing", "committing"} => pos # None

(* What lies below an offset that may be committed or consumed from.       *)
OffsetsSettled ==
  /\ SettledBelow(group)
  /\ SettledBelow(inflight)
  /\ at \in {"top", "ready", "clearing", "consuming", "watching", "committing"}
       => SettledBelow(pos)
  /\ at \in {"forwarding", "pushing"}
       => \A o \in Below(pos) : Settled(o) \/ o \in batch

(* Whatever offset is read from next, a skipped message lies below it.     *)
SkippedBehind ==
  \A o \in Offsets : fate[o] = "skipped" =>
    /\ o < group
    /\ pos # None => o < pos
    /\ inflight # None => o < inflight
    /\ o \notin batch

Inv == TypeOK /\ FirstKnown /\ BatchInHand /\ OffsetsSettled /\ SkippedBehind

Stages == {"top", "ready", "clearing", "consuming", "forwarding", "pushing",
           "committing", "watching", "failed"}

Ends == {"unread", "queued", "pushed", "unreadable", "skipped", "half_skipped",
         "crashed"}

(* A step that takes no message back to the unread, nor out of `missed'.   *)
NothingUnsettled ==
  /\ fate' \in [Offsets -> Ends]
  /\ \A o \in Offsets : fate[o] # "unread" => fate'[o] # "unread"
  /\ missed \subseteq missed' /\ missed' \subseteq Offsets
  /\ first # None => first' = first

LEMMA OffsetsAreNat == Offsets \subseteq Nat /\ MaxOffset \in Nat
BY IngestAssumption DEF Offsets

LEMMA BelowNothing == Below(None) = {} /\ Below(0) = {}
<1>1. \A o \in Offsets : ~(o < None) /\ ~(o < 0)
  BY OffsetsAreNat DEF None
<1>2. QED
  BY <1>1 DEF Below

LEMMA MarkProperties ==
  ASSUME NEW S, NEW f \in Ends, Mark(S, f)
  PROVE  \A o \in Offsets : fate'[o] = IF o \in S THEN f ELSE fate[o]
BY DEF Mark

LEMMA MarkType ==
  ASSUME TypeOK, NEW S, NEW f \in Ends, Mark(S, f)
  PROVE  fate' \in [Offsets -> Ends]
BY DEF Mark, TypeOK, Ends

LEMMA StaysSettled ==
  ASSUME TypeOK, NothingUnsettled, NEW o \in Offsets, Settled(o)
  PROVE  Settled(o)'
BY OffsetsAreNat DEF TypeOK, NothingUnsettled, Settled, None

(* The position an assignment starts at is an offset of the topic.         *)
LEMMA PositionProperties ==
  ASSUME TypeOK
  PROVE  Position \in Int /\ 0 <= Position /\ Position <= high
BY DEF TypeOK, Position, StartOf, None

(* An assignment leaves nothing unsettled below it.                        *)
LEMMA AssignedSettles ==
  ASSUME TypeOK, NEW p \in Nat, Assigned(p), NothingUnsettled
  PROVE  \A o \in Below(p) : Settled(o)'
<1>1. SUFFICES ASSUME NEW o \in Below(p), fate[o] = "unread" PROVE Settled(o)'
  BY DEF Settled, NothingUnsettled, Below
<1>2. CASE first = None
  BY <1>1, <1>2 DEF Assigned, Below, Settled
<1>3. CASE first # None
  <2>1. o \in Offsets /\ o \in Nat /\ first \in Int
    BY OffsetsAreNat DEF Below, TypeOK, None
  <2>2. o >= first => o \in missed'
    BY <1>1, <1>3 DEF Assigned, Unread, Below
  <2>3. ~(o >= first) => o < first'
    BY <1>3, <2>1 DEF Assigned
  <2>4. QED
    BY <2>2, <2>3 DEF Settled
<1>4. QED
  BY <1>2, <1>3

LEMMA AssignedType ==
  ASSUME TypeOK, NEW p \in 0 .. high, Assigned(p)
  PROVE  /\ first' \in 0 .. high
         /\ missed \subseteq missed' /\ missed' \subseteq Offsets
         /\ first # None => first' = first
BY DEF TypeOK, Assigned, Unread, Below, None

-----------------------------------------------------------------------------
LEMMA InitInv == Init => Inv
<1> SUFFICES ASSUME Init PROVE Inv
  OBVIOUS
<1> USE DEF Init, None
<1>1. group \in {-1, 0}
  BY IngestAssumption
<1>2. TypeOK
  <2>1. high \in 0 .. MaxOffset
    BY OffsetsAreNat
  <2>2. fate \in [Offsets -> Ends]
    BY DEF Ends
  <2>3. /\ calm \in BOOLEAN /\ consumer \in BOOLEAN /\ fenced \in BOOLEAN
        /\ skip \in BOOLEAN /\ at = "top" /\ batch = {} /\ missed = {}
        /\ high = 0 /\ pos = -1 /\ inflight = -1 /\ first = group
    OBVIOUS
  <2> HIDE DEF Init
  <2>4. QED
    BY <1>1, <2>1, <2>2, <2>3 DEF TypeOK, Ends
<1>3. FirstKnown /\ BatchInHand
  BY <1>1 DEF FirstKnown, BatchInHand
<1>4. Below(group) = {} /\ Below(pos) = {} /\ Below(inflight) = {}
  BY <1>1, BelowNothing
<1>5. OffsetsSettled
  BY <1>1, <1>4 DEF OffsetsSettled, SettledBelow
<1>6. SkippedBehind
  BY DEF SkippedBehind
<1>7. QED
  BY <1>2, <1>3, <1>5, <1>6 DEF Inv

(* The steps that move the loop, or the world, and no message.             *)
LEMMA MovingKeepsInv ==
  ASSUME Inv,
         \/ Continue \/ ConnectFails \/ SkipUnassigned \/ SkipRaises \/ ClearSkip
         \/ ConsumeTimesOut \/ Forward \/ PushRaises \/ CommitRaises
         \/ RequestSkip \/ Produce \/ WeatherChanges
  PROVE  Inv'
<1> DEFINE Idle == {"top", "ready", "clearing", "consuming", "watching"}
<1>1. /\ UNCHANGED <<group, consumer, pos, fenced, inflight, batch, fate, first, missed>>
      /\ high' \in {high, high + 1} /\ high' <= MaxOffset
      /\ calm' \in BOOLEAN /\ skip' \in BOOLEAN
      /\ \/ at' = at \/ at' = "failed"
         \/ (at = "forwarding" /\ at' = "pushing")
         \/ (at \in Idle /\ at' \in Idle)
  <2>1. high \in Int /\ high <= MaxOffset /\ MaxOffset \in Int
    BY OffsetsAreNat DEF Inv, TypeOK
  <2> USE DEF kafka, history
  <2>2. CASE Continue \/ ConnectFails \/ SkipUnassigned \/ SkipRaises \/ ClearSkip
    BY <2>1, <2>2
    DEF Inv, TypeOK, Continue, ConnectFails, SkipUnassigned, SkipRaises, ClearSkip
  <2>3. CASE ConsumeTimesOut \/ Forward \/ PushRaises \/ CommitRaises
    BY <2>1, <2>3
    DEF Inv, TypeOK, ConsumeTimesOut, Consuming, Forward, PushRaises, CommitRaises
  <2>4. CASE RequestSkip \/ Produce \/ WeatherChanges
    <3>1. CASE RequestSkip
      BY <2>1, <3>1 DEF Inv, TypeOK, RequestSkip
    <3>2. CASE Produce
      BY <2>1, <3>2 DEF Inv, TypeOK, Produce
    <3>3. CASE WeatherChanges
      BY <2>1, <3>3 DEF Inv, TypeOK, WeatherChanges
    <3>4. QED
      BY <2>4, <3>1, <3>2, <3>3
  <2>5. QED
    BY <2>2, <2>3, <2>4
<1>2. TypeOK'
  BY <1>1, OffsetsAreNat DEF Inv, TypeOK, None
<1>3. FirstKnown' /\ BatchInHand'
  BY <1>1 DEF Inv, FirstKnown, BatchInHand
<1>4. \A o \in Offsets : Settled(o)' = Settled(o)
  BY <1>1 DEF Settled
<1>5. OffsetsSettled'
  BY <1>1, <1>4 DEF Inv, OffsetsSettled, SettledBelow, Below
<1>6. SkippedBehind'
  BY <1>1 DEF Inv, SkippedBehind
<1>7. QED
  BY <1>2, <1>3, <1>5, <1>6 DEF Inv

(* The steps that settle a commit, with or without the consumer.           *)
LEMMA SettlingKeepsInv ==
  ASSUME Inv, Connect \/ Watch \/ Recover \/ Crash \/ CommitAnswered \/ CommitLost
  PROVE  Inv'
<1>1. /\ UNCHANGED <<high, first, missed>>
      /\ group' = group \/ (inflight # None /\ group' = inflight)
      /\ inflight' = inflight \/ inflight' = None
      /\ \/ /\ pos' = pos /\ batch' = batch
            /\ at' = at \/ (at = "watching" /\ at' = "top")
         \/ /\ pos' = None
            /\ at' \in {"top", "ready"} /\ batch' = {}
      /\ consumer' \in BOOLEAN /\ calm' \in BOOLEAN /\ skip' \in BOOLEAN
      /\ fenced' \in BOOLEAN
      /\ \/ fate' = fate
         \/ Mark({o \in Offsets : fate[o] = "queued"}, "crashed")
  <2> USE DEF history
  <2>1. CASE Connect
    BY <2>1 DEF Inv, TypeOK, BatchInHand, Connect
  <2>2. CASE Watch
    BY <2>2 DEF Inv, TypeOK, BatchInHand, Watch, DropConsumer, SettleCommit
  <2>3. CASE Recover
    BY <2>3 DEF Inv, TypeOK, Recover, DropConsumer, SettleCommit
  <2>4. CASE Crash
    BY <2>4 DEF Inv, TypeOK, Crash, SettleCommit
  <2>5. CASE CommitAnswered \/ CommitLost
    BY <2>5 DEF Inv, TypeOK, CommitAnswered, CommitLost
  <2>6. QED
    BY <2>1, <2>2, <2>3, <2>4, <2>5
<1>2. /\ fate' \in [Offsets -> Ends]
      /\ \A o \in Offsets : \/ fate'[o] = fate[o]
                            \/ fate[o] = "queued" /\ fate'[o] = "crashed"
  BY <1>1 DEF Mark, Inv, TypeOK, Ends
<1>3. NothingUnsettled
  BY <1>1, <1>2 DEF NothingUnsettled, Inv, TypeOK
<1>4. \A o \in Offsets : Settled(o) => Settled(o)'
  BY <1>3, StaysSettled DEF Inv
<1>5. TypeOK'
  BY <1>1, <1>2 DEF Inv, TypeOK, None, Ends
<1>6. FirstKnown' /\ BatchInHand'
  BY <1>1 DEF Inv, FirstKnown, BatchInHand
<1>7. Below(None) = {}
  BY BelowNothing
<1>8. OffsetsSettled'
  <2>1. \A p : (\A o \in Below(p) : Settled(o)) => \A o \in Below(p) : Settled(o)'
    BY <1>4 DEF Below
  <2>2. SettledBelow(group)' /\ SettledBelow(inflight)'
    BY <1>1, <1>7, <2>1 DEF Inv, OffsetsSettled, SettledBelow
  <2>3. CASE pos' = None
    BY <1>1, <1>7, <2>2, <2>3 DEF OffsetsSettled, SettledBelow
  <2>4. CASE pos' # None
    <3>1. pos' = pos /\ (at' = at \/ (at = "watching" /\ at' = "top"))
      BY <1>1, <2>4
    <3>2. batch' = batch
      BY <1>1, <2>4
    <3>3. QED
      BY <1>1, <1>4, <2>1, <2>2, <3>1, <3>2 DEF Inv, OffsetsSettled, SettledBelow, Below
  <2>5. QED
    BY <2>3, <2>4
<1>9. SkippedBehind'
  BY <1>1, <1>2 DEF Inv, SkippedBehind
<1>10. QED
  BY <1>5, <1>6, <1>8, <1>9 DEF Inv

(* Queueing and pushing messages none of which was skipped.                *)
LEMMA MarkingKeepsInv ==
  ASSUME Inv, NEW S \in SUBSET Offsets, NEW f \in {"queued", "pushed"}, Mark(S, f),
         \A o \in S : fate[o] # "skipped",
         UNCHANGED <<high, group, calm, inflight, consumer, pos, batch, skip, first, missed>>,
         fenced' \in BOOLEAN,
         \/ at' = at
         \/ /\ at = "pushing" /\ at' = "committing"
            /\ \A o \in batch : o \in S \/ fate[o] = "pushed"
  PROVE  Inv'
<1>1. /\ fate' \in [Offsets -> Ends]
      /\ \A o \in Offsets : fate'[o] = IF o \in S THEN f ELSE fate[o]
  BY MarkType, MarkProperties DEF Inv, Ends
<1>2. NothingUnsettled
  BY <1>1 DEF NothingUnsettled, Inv, TypeOK
<1>3. \A o \in Offsets : Settled(o) => Settled(o)'
  BY <1>2, StaysSettled DEF Inv
<1>4. TypeOK'
  BY <1>1 DEF Inv, TypeOK, Ends
<1>5. FirstKnown' /\ BatchInHand'
  BY DEF Inv, FirstKnown, BatchInHand
<1>6. SettledBelow(group)' /\ SettledBelow(inflight)'
  BY <1>3 DEF Inv, OffsetsSettled, SettledBelow, Below
<1>7. OffsetsSettled'
  <2>1. CASE at' = at
    BY <1>3, <1>6, <2>1 DEF Inv, OffsetsSettled, SettledBelow, Below
  <2>2. CASE at' # at
    <3>1. \A o \in batch : o \in Offsets => Settled(o)'
      BY <1>1, <2>2 DEF Settled
    <3>2. SettledBelow(pos)'
      BY <1>3, <2>2, <3>1 DEF Inv, OffsetsSettled, SettledBelow, Below
    <3>3. QED
      BY <1>6, <2>2, <3>2 DEF OffsetsSettled
  <2>3. QED
    BY <2>1, <2>2
<1>8. SkippedBehind'
  BY <1>1 DEF Inv, SkippedBehind
<1>9. QED
  BY <1>4, <1>5, <1>7, <1>8 DEF Inv

LEMMA HandOverKeepsInv ==
  ASSUME Inv, HandOver
  PROVE  Inv'
<1> DEFINE S == {o \in batch : fate[o] # "pushed"}
<1>1. /\ Mark(S, "queued") /\ at = "pushing" /\ at' = "committing"
      /\ UNCHANGED <<high, group, calm, inflight, consumer, pos, batch, skip, first, missed>>
      /\ fenced' = fenced
  BY DEF HandOver, kafka, history
<1>2. S \in SUBSET Offsets /\ fenced' \in BOOLEAN
  BY <1>1 DEF Inv, TypeOK
<1>3. \A o \in S : fate[o] # "skipped"
  BY <1>2 DEF Inv, SkippedBehind
<1>4. \A o \in batch : o \in S \/ fate[o] = "pushed"
  OBVIOUS
<1> HIDE DEF S
<1>5. QED
  BY <1>1, <1>2, <1>3, <1>4, MarkingKeepsInv

LEMMA PushInlineKeepsInv ==
  ASSUME Inv, PushInline
  PROVE  Inv'
<1>1. /\ Mark(batch, "pushed") /\ at = "pushing" /\ at' = "committing"
      /\ UNCHANGED <<high, group, calm, inflight, consumer, pos, batch, skip, first, missed>>
      /\ fenced' = fenced
  BY DEF PushInline, kafka, history
<1>2. batch \in SUBSET Offsets /\ fenced' \in BOOLEAN
  BY <1>1 DEF Inv, TypeOK
<1>3. \A o \in batch : fate[o] # "skipped"
  BY <1>2 DEF Inv, SkippedBehind
<1>4. QED
  BY <1>1, <1>2, <1>3, MarkingKeepsInv

LEMMA WorkerPushesKeepsInv ==
  ASSUME Inv, NEW o \in Offsets, WorkerPushes(o)
  PROVE  Inv'
<1>1. /\ Mark({o}, "pushed") /\ at' = at /\ fate[o] = "queued"
      /\ UNCHANGED <<high, group, calm, inflight, consumer, pos, batch, skip, first, missed>>
      /\ fenced' = fenced
  BY DEF WorkerPushes, kafka, history
<1>2. {o} \in SUBSET Offsets /\ fenced' \in BOOLEAN /\ \A q \in {o} : fate[q] # "skipped"
  BY <1>1 DEF Inv, TypeOK
<1>3. QED
  BY <1>1, <1>2, MarkingKeepsInv

(* A skipped message lies below the offset a consumer starts from.         *)
LEMMA SkippedBelowPosition ==
  ASSUME Inv
  PROVE  \A o \in Offsets : fate[o] = "skipped" => group # None /\ o < StartOf /\ o < Position
<1>1. \A o \in Offsets : o \in Nat
  BY OffsetsAreNat
<1>2. QED
  BY <1>1 DEF Inv, TypeOK, SkippedBehind, StartOf, Position, None

LEMMA RoutePushKeepsInv ==
  ASSUME Inv, NEW n \in 0 .. BatchMax, RoutePush(n)
  PROVE  Inv'
<1> DEFINE taken == {o \in Offsets : StartOf <= o /\ o < StartOf + n}
           S     == IF Decodes(taken) THEN Readable(taken) ELSE {}
<1>1. /\ Mark(S, "pushed") /\ at' = at
      /\ UNCHANGED <<high, group, calm, inflight, consumer, pos, batch, skip, first, missed>>
      /\ fenced' \in BOOLEAN
  BY DEF RoutePush, history
<1>2. S \in SUBSET Offsets /\ \A o \in S : StartOf <= o
  BY DEF Readable
<1>3. StartOf \in Int
  BY DEF Inv, TypeOK, StartOf, None
<1>4. \A o \in S : fate[o] # "skipped"
  <2> HIDE DEF S
  <2>1. QED
    BY <1>2, <1>3, SkippedBelowPosition, OffsetsAreNat
<1> HIDE DEF S
<1>5. QED
  BY <1>1, <1>2, <1>4, MarkingKeepsInv

LEMMA CommitKeepsInv ==
  ASSUME Inv, Commit
  PROVE  Inv'
<1>1. /\ at = "committing" /\ inflight' = pos /\ batch' = {} /\ at' = "top"
      /\ UNCHANGED <<high, group, calm, fenced, consumer, pos, fate, first, missed>>
      /\ skip' \in BOOLEAN
  BY DEF Inv, TypeOK, Commit, CommitOffset, history
<1>2. TypeOK'
  BY <1>1 DEF Inv, TypeOK
<1>3. FirstKnown' /\ BatchInHand'
  BY <1>1 DEF Inv, FirstKnown, BatchInHand
<1>4. OffsetsSettled'
  BY <1>1 DEF Inv, OffsetsSettled, SettledBelow, Settled, Below
<1>5. SkippedBehind'
  BY <1>1 DEF Inv, SkippedBehind
<1>6. QED
  BY <1>2, <1>3, <1>4, <1>5 DEF Inv

-----------------------------------------------------------------------------
(* The steps that read from the topic.                                     *)
LEMMA ReadingStages ==
  ASSUME Inv, at \in {"ready", "consuming"}
  PROVE  batch = {} /\ SettledBelow(group) /\ SettledBelow(pos) /\ SettledBelow(inflight)
BY DEF Inv, BatchInHand, OffsetsSettled

LEMMA SkipToEndKeepsInv ==
  ASSUME Inv, SkipToEnd
  PROVE  Inv'
<1> DEFINE S == Unread({o \in Offsets : Position <= o /\ o < high})
<1>1. /\ at = "ready" /\ at' = "clearing" /\ group' = high /\ inflight' = None
      /\ Assigned(Position)
      /\ UNCHANGED <<high, calm, fenced, consumer, batch, skip>>
  BY DEF SkipToEnd, CommitEnd
<1>2. PICK raised \in BOOLEAN :
        /\ pos' = IF raised THEN Position ELSE high
        /\ Mark(S, IF raised THEN "half_skipped" ELSE "skipped")
  BY DEF SkipToEnd
<1> DEFINE f == IF raised THEN "half_skipped" ELSE "skipped"
<1>3. /\ fate' \in [Offsets -> Ends]
      /\ \A o \in Offsets : fate'[o] = IF o \in S THEN f ELSE fate[o]
  <2>1. f \in Ends
    BY DEF Ends
  <2> HIDE DEF S, f
  <2>2. QED
    BY <1>2, <2>1, MarkType, MarkProperties DEF Inv, f
<1>4. /\ Position \in 0 .. high /\ high \in Int
      /\ \A o \in S : o \in Offsets /\ fate[o] = "unread" /\ Position <= o /\ o < high
      /\ \A o \in Offsets : Position <= o /\ o < high /\ fate[o] = "unread" => o \in S
  BY PositionProperties DEF Inv, TypeOK, Unread
<1> HIDE DEF S
<1>5. /\ first' \in 0 .. high /\ missed \subseteq missed' /\ missed' \subseteq Offsets
      /\ first # None => first' = first
  BY <1>1, <1>4, AssignedType DEF Inv
<1>6. NothingUnsettled
  BY <1>3, <1>5 DEF NothingUnsettled
<1>7. \A o \in Below(Position) : Settled(o)'
  BY <1>1, <1>4, <1>6, AssignedSettles DEF Inv
<1>8. \A o \in Below(high) : Settled(o)'
  <2>1. SUFFICES ASSUME NEW o \in Below(high), Position <= o PROVE Settled(o)'
    BY <1>4, <1>7, OffsetsAreNat DEF Below
  <2>2. fate'[o] # "unread"
    BY <1>3, <1>4, <2>1 DEF Below
  <2>3. QED
    BY <2>2 DEF Settled
<1>9. TypeOK'
  BY <1>1, <1>2, <1>3, <1>4, <1>5 DEF Inv, TypeOK, Ends, None
<1>10. FirstKnown' /\ BatchInHand'
  BY <1>1, <1>5, ReadingStages DEF FirstKnown, BatchInHand, None
<1>11. OffsetsSettled'
  BY <1>1, <1>2, <1>7, <1>8, BelowNothing DEF OffsetsSettled, SettledBelow
<1>12. SkippedBehind'
  <2>1. SUFFICES ASSUME NEW o \in Offsets, fate'[o] = "skipped"
                 PROVE  o < high /\ o < pos' /\ o \notin batch
    BY <1>1 DEF SkippedBehind
  <2>2. batch = {} /\ o \in Nat
    BY <1>1, ReadingStages, OffsetsAreNat
  <2>3. CASE o \in S
    BY <1>2, <1>3, <1>4, <2>1, <2>2, <2>3
  <2>4. CASE o \notin S
    BY <1>2, <1>3, <1>4, <2>1, <2>2, <2>4, SkippedBelowPosition
  <2>5. QED
    BY <2>3, <2>4
<1>13. QED
  BY <1>9, <1>10, <1>11, <1>12 DEF Inv

(* Reading n messages from the position, with or without an error: what is *)
(* not in the batch is either unreadable or lost to the error.             *)
LEMMA ConsumingKeepsInv ==
  ASSUME Inv, NEW n \in Nat,
         \/ ConsumeSome(n)
         \/ ConsumeNothing /\ n = 0
         \/ ConsumeRaises(n)
  PROVE  Inv'
<1>1. /\ at \in {"ready", "consuming"} /\ Assigned(Position)
      /\ pos' = Position + n /\ Position + n <= high /\ fenced' = FALSE
      /\ UNCHANGED <<high, group, calm, inflight, consumer, skip>>
  BY PositionProperties DEF ConsumeSome, ConsumeNothing, ConsumeRaises, Consuming, Inv, TypeOK
<1>2. Position \in 0 .. high /\ high \in Int /\ batch = {}
  BY <1>1, PositionProperties, ReadingStages DEF Inv, TypeOK
<1>3. /\ fate' \in [Offsets -> Ends]
      /\ \A o \in Offsets : \/ fate'[o] = fate[o]
                            \/ Position <= o /\ fate'[o] = "unreadable"
  <2>1. CASE ConsumeSome(n)
    <3>1. Mark(Read(n) \intersect Bad, "unreadable")
      BY <2>1 DEF ConsumeSome
    <3>2. QED
      BY <3>1, MarkType, MarkProperties DEF Inv, Ends, Read
  <2>2. CASE ~ConsumeSome(n)
    BY <2>2 DEF ConsumeNothing, ConsumeRaises, Inv, TypeOK, Ends
  <2>3. QED
    BY <2>1, <2>2
<1>4. /\ first' \in 0 .. high /\ missed \subseteq missed' /\ missed' \subseteq Offsets
      /\ first # None => first' = first
  BY <1>1, <1>2, AssignedType DEF Inv
<1>5. NothingUnsettled
  BY <1>3, <1>4 DEF NothingUnsettled
<1>6. /\ \A o \in Below(Position) : Settled(o)'
      /\ \A o \in Offsets : Settled(o) => Settled(o)'
  BY <1>1, <1>2, <1>5, AssignedSettles, StaysSettled DEF Inv
<1>7. /\ \/ at' = "failed" /\ batch' = {}
         \/ at' = "watching" /\ batch' = {} /\ (\A o \in Below(pos') : Settled(o)')
         \/ at' = "forwarding" /\ (\A o \in Below(pos') : Settled(o)' \/ o \in batch')
      /\ batch' \subseteq Offsets \ (Bad \union Poison)
      /\ \A o \in batch' : Position <= o
  <2>1. CASE ConsumeSome(n)
    <3>1. /\ batch' = Read(n) \ Bad /\ Read(n) \intersect Poison = {}
          /\ Mark(Read(n) \intersect Bad, "unreadable")
          /\ at' = IF batch' = {} THEN "watching" ELSE "forwarding"
      BY <2>1 DEF ConsumeSome, Readable, Decodes
    <3>2. ASSUME NEW o \in Below(pos'), o \notin batch' PROVE Settled(o)'
      <4>1. o \in Offsets /\ o < Position + n
        BY <1>1, <3>2 DEF Below
      <4>2. CASE o < Position
        BY <1>6, <4>1, <4>2 DEF Below
      <4>3. CASE Position <= o
        <5>1. o \in Read(n) \intersect Bad
          BY <3>1, <3>2, <4>1, <4>3 DEF Read
        <5>2. fate'[o] = "unreadable"
          BY <3>1, <4>1, <5>1 DEF Mark
        <5>3. QED
          BY <5>2 DEF Settled
      <4>4. QED
        BY <1>2, <4>1, <4>2, <4>3, OffsetsAreNat
    <3>3. QED
      BY <3>1, <3>2 DEF Read
  <2>2. CASE ConsumeNothing /\ n = 0
    BY <1>1, <1>2, <1>6, <2>2 DEF ConsumeNothing, Below
  <2>3. CASE ConsumeRaises(n)
    BY <1>2, <2>3 DEF ConsumeRaises
  <2>4. QED
    BY <2>1, <2>2, <2>3
<1>8. TypeOK'
  <2>1. pos' \in -1 .. high /\ first' \in -1 .. high
    BY <1>1, <1>2, <1>4
  <2>2. at' \in {"failed", "watching", "forwarding"} /\ batch' \subseteq Offsets \ (Bad \union Poison)
    BY <1>7
  <2>3. fate' \in [Offsets -> Ends] /\ missed' \subseteq Offsets
    BY <1>3, <1>4
  <2>4. QED
    BY <1>1, <2>1, <2>2, <2>3 DEF Inv, TypeOK, Ends, None
<1>9. FirstKnown' /\ BatchInHand'
  BY <1>1, <1>2, <1>4, <1>7 DEF FirstKnown, BatchInHand, None
<1>10. OffsetsSettled'
  <2>1. SettledBelow(group)' /\ SettledBelow(inflight)'
    BY <1>1, <1>6, ReadingStages DEF SettledBelow, Below
  <2>2. QED
    BY <1>7, <2>1 DEF OffsetsSettled, SettledBelow
<1>11. SkippedBehind'
  <2>1. SUFFICES ASSUME NEW o \in Offsets, fate'[o] = "skipped"
                 PROVE  /\ o < group /\ o < pos' /\ o \notin batch'
                        /\ inflight # None => o < inflight
    BY <1>1 DEF SkippedBehind
  <2>2. fate[o] = "skipped" /\ o \in Nat
    BY <1>3, <2>1, OffsetsAreNat
  <2>3. o < Position
    BY <2>2, SkippedBelowPosition
  <2>4. o < pos' /\ o \notin batch'
    BY <1>1, <1>2, <1>7, <2>2, <2>3
  <2>5. QED
    BY <2>2, <2>4 DEF Inv, SkippedBehind
<1>12. QED
  BY <1>8, <1>9, <1>10, <1>11 DEF Inv

-----------------------------------------------------------------------------
LEMMA NextKeepsInv == Inv /\ [Next]_vars => Inv'
<1> SUFFICES ASSUME Inv, [Next]_vars PROVE Inv'
  OBVIOUS
<1>1. CASE LoopStep
  <2>1. \A n \in 0 .. BatchMax : n \in Nat
    OBVIOUS
  <2>2. CASE \E n \in 1 .. BatchMax : ConsumeSome(n)
    BY <2>1, <2>2, ConsumingKeepsInv
  <2>3. CASE ConsumeNothing
    BY <2>3, ConsumingKeepsInv
  <2>4. CASE \E n \in 0 .. BatchMax : ConsumeRaises(n)
    BY <2>1, <2>4, ConsumingKeepsInv
  <2>5. CASE Connect \/ Watch \/ Recover
    BY <2>5, SettlingKeepsInv
  <2>6. CASE HandOver \/ PushInline \/ Commit \/ SkipToEnd
    BY <2>6, HandOverKeepsInv, PushInlineKeepsInv, CommitKeepsInv, SkipToEndKeepsInv
  <2>7. CASE \/ ConnectFails \/ Continue \/ SkipUnassigned \/ SkipRaises \/ ClearSkip
             \/ ConsumeTimesOut \/ Forward \/ PushRaises \/ CommitRaises
    BY <2>7, MovingKeepsInv
  <2>8. QED
    BY <1>1, <2>2, <2>3, <2>4, <2>5, <2>6, <2>7 DEF LoopStep
<1>2. CASE Crash \/ CommitAnswered \/ CommitLost
  BY <1>2, SettlingKeepsInv
<1>3. CASE \/ \E o \in Offsets : WorkerPushes(o)
           \/ \E n \in 0 .. BatchMax : RoutePush(n)
  BY <1>3, WorkerPushesKeepsInv, RoutePushKeepsInv
<1>4. CASE RequestSkip \/ Produce \/ WeatherChanges
  BY <1>4, MovingKeepsInv
<1>5. CASE UNCHANGED vars
  <2>1. UNCHANGED <<high, group, calm, consumer, pos, fenced, inflight, at, batch,
                    skip, fate, first, missed>>
    BY <1>5 DEF vars
  <2>2. TypeOK' /\ FirstKnown' /\ BatchInHand' /\ SkippedBehind'
    BY <2>1 DEF Inv, TypeOK, FirstKnown, BatchInHand, SkippedBehind
  <2>3. OffsetsSettled'
    BY <2>1 DEF Inv, OffsetsSettled, SettledBelow, Settled, Below
  <2>4. QED
    BY <2>2, <2>3 DEF Inv
<1>6. QED
  BY <1>1, <1>2, <1>3, <1>4, <1>5 DEF Next

LEMMA InvAlways == Spec => []Inv
BY InitInv, NextKeepsInv, PTL DEF Spec

(* Every variable keeps its type: no committed offset, position or commit  *)
(* under way ever lies beyond the end of the topic.                        *)
THEOREM TypeCorrect == Spec => []TypeOK
<1>1. Inv => TypeOK
  BY DEF Inv
<1>2. QED
  BY <1>1, InvAlways, PTL

(* The offset the group has committed never runs ahead of the hand-off:    *)
(* every message below it was handed to the worker or pushed, is           *)
(* unreadable, was dropped by a skip, or came while the group had none.    *)
THEOREM CommitsFollowTheHandOff == Spec => []CommittedIsAccounted
<1>1. Inv => CommittedIsAccounted
  BY DEF Inv, OffsetsSettled, SettledBelow, Settled, CommittedIsAccounted
<1>2. QED
  BY <1>1, InvAlways, PTL

(* Reconnects, rebalances, lost commits, skips and crashes leave nothing   *)
(* behind unread once the group has a committed offset.                    *)
THEOREM NothingMissedWithOffset == Spec => MissedNeedsNoOffset
<1>1. ASSUME Inv, [Next]_vars, group # None
      PROVE  missed' = missed
  <2>1. ASSUME Assigned(Position), at \in {"ready", "consuming"}
        PROVE  missed' = missed
    <3>1. first # None /\ SettledBelow(Position)
      BY <1>1, <2>1, ReadingStages DEF Inv, FirstKnown, Position, StartOf
    <3>2. {o \in Unread(Below(Position)) : o >= first} \subseteq missed
      <4>1. \A o \in Offsets : o >= first => ~(o < first)
        BY <1>1, OffsetsAreNat DEF Inv, TypeOK, None
      <4>2. QED
        BY <3>1, <4>1 DEF SettledBelow, Settled, Unread, Below
    <3>3. missed' = missed \union {o \in Unread(Below(Position)) : o >= first}
      BY <2>1, <3>1 DEF Assigned
    <3>4. QED
      BY <3>2, <3>3
  <2>2. CASE \/ \E n \in 1 .. BatchMax : ConsumeSome(n)
             \/ ConsumeNothing \/ SkipToEnd
             \/ \E n \in 0 .. BatchMax : ConsumeRaises(n)
    BY <2>1, <2>2 DEF ConsumeSome, ConsumeNothing, ConsumeRaises, SkipToEnd, Consuming
  <2>3. CASE Connect \/ ConnectFails \/ Continue
    BY <2>3 DEF Connect, ConnectFails, Continue, history
  <2>4. CASE SkipUnassigned \/ SkipRaises \/ ClearSkip \/ ConsumeTimesOut
    BY <2>4 DEF SkipUnassigned, SkipRaises, ClearSkip, ConsumeTimesOut, history
  <2>5. CASE Forward \/ HandOver \/ PushInline \/ PushRaises \/ Commit \/ CommitRaises
    BY <2>5 DEF Forward, HandOver, PushInline, PushRaises, Commit, CommitRaises, history
  <2>6. CASE Watch \/ Recover \/ Crash
    BY <2>6 DEF Watch, Recover, Crash, history
  <2>7. CASE \/ \E o \in Offsets : WorkerPushes(o)
             \/ \E n \in 0 .. BatchMax : RoutePush(n)
    BY <2>7 DEF WorkerPushes, RoutePush, history
  <2>8. CASE RequestSkip \/ Produce \/ CommitAnswered \/ CommitLost \/ WeatherChanges
    BY <2>8 DEF RequestSkip, Produce, CommitAnswered, CommitLost, WeatherChanges, history
  <2>9. CASE UNCHANGED vars
    BY <2>9 DEF vars
  <2>10. QED
    BY <1>1, <2>2, <2>3, <2>4, <2>5, <2>6, <2>7, <2>8, <2>9 DEF Next, LoopStep
<1>2. Inv /\ [Next]_vars => [group # None => missed' = missed]_vars
  BY <1>1
<1>3. QED
  BY <1>2, InvAlways, PTL DEF Spec, MissedNeedsNoOffset

(* What a skip to latest dropped is never read or pushed again.            *)
THEOREM SkipsAreFinal == Spec => SkippedStaysSkipped
<1>1. ASSUME Inv, [Next]_vars, NEW o \in Offsets, fate[o] = "skipped"
      PROVE  fate'[o] = "skipped"
  <2>1. /\ o \in Nat /\ o \notin batch /\ group # None
        /\ o < StartOf /\ o < Position /\ StartOf \in Int /\ Position \in Int
    BY <1>1, OffsetsAreNat, SkippedBelowPosition, PositionProperties
    DEF Inv, SkippedBehind, TypeOK, StartOf, None
  <2>2. ASSUME NEW S, NEW f, Mark(S, f), o \notin S
        PROVE  fate'[o] = "skipped"
    BY <1>1, <2>2 DEF Mark
  <2>3. CASE \E n \in 1 .. BatchMax : ConsumeSome(n)
    <3>1. PICK n \in 1 .. BatchMax : ConsumeSome(n)
      BY <2>3
    <3>2. o \notin Read(n) \intersect Bad
      BY <2>1 DEF Read
    <3>3. QED
      BY <2>2, <3>1, <3>2 DEF ConsumeSome
  <2>4. CASE SkipToEnd
    <3>1. o \notin Unread({q \in Offsets : Position <= q /\ q < high})
      BY <1>1 DEF Unread
    <3>2. QED
      BY <2>2, <2>4, <3>1 DEF SkipToEnd
  <2>5. CASE HandOver \/ PushInline
    BY <2>1, <2>2, <2>5 DEF HandOver, PushInline
  <2>6. CASE \E n \in 0 .. BatchMax : RoutePush(n)
    <3>1. PICK n \in 0 .. BatchMax : RoutePush(n)
      BY <2>6
    <3> DEFINE taken == {q \in Offsets : StartOf <= q /\ q < StartOf + n}
               S     == IF Decodes(taken) THEN Readable(taken) ELSE {}
    <3>2. o \notin S
      BY <2>1 DEF Readable
    <3>3. Mark(S, "pushed")
      BY <3>1 DEF RoutePush
    <3> HIDE DEF S
    <3>4. QED
      BY <2>2, <3>2, <3>3
  <2>7. CASE Crash \/ \E q \in Offsets : WorkerPushes(q)
    BY <1>1, <2>2, <2>7 DEF Crash, WorkerPushes
  <2>8. CASE \/ Connect \/ ConnectFails \/ Continue \/ SkipUnassigned \/ SkipRaises
             \/ ClearSkip \/ ConsumeNothing \/ ConsumeTimesOut
             \/ \E n \in 0 .. BatchMax : ConsumeRaises(n)
    BY <1>1, <2>8 DEF Connect, ConnectFails, Continue, SkipUnassigned, SkipRaises,
       ClearSkip, ConsumeNothing, ConsumeTimesOut, ConsumeRaises
  <2>9. CASE Forward \/ PushRaises \/ Commit \/ CommitRaises \/ Watch \/ Recover
    BY <1>1, <2>9 DEF Forward, PushRaises, Commit, CommitRaises, Watch, Recover
  <2>10. CASE RequestSkip \/ Produce \/ CommitAnswered \/ CommitLost \/ WeatherChanges
    BY <1>1, <2>10 DEF RequestSkip, Produce, CommitAnswered, CommitLost, WeatherChanges
  <2>11. CASE UNCHANGED vars
    BY <1>1, <2>11 DEF vars
  <2>12. QED
    BY <1>1, <2>3, <2>4, <2>5, <2>6, <2>7, <2>8, <2>9, <2>10, <2>11 DEF Next, LoopStep
<1>2. Inv /\ [Next]_vars
      => [\A o \in Offsets : fate[o] = "skipped" => fate'[o] = "skipped"]_vars
  BY <1>1
<1>3. QED
  BY <1>2, InvAlways, PTL DEF Spec, SkippedStaysSkipped
=============================================================================
