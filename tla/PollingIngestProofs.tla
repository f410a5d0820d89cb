------------------------- MODULE PollingIngestProofs -------------------------
(***************************************************************************)
(* What PollingIngest guarantees for every set of sensors and sources, and *)
(* for every rounding, window, page and bound.                             *)
(***************************************************************************)
EXTENDS PollingIngest, FiniteSetTheorems, SequenceTheorems, WellFoundedInduction, TLAPS

(* Nothing that anybody knows of lies in the future.                       *)
Past == 0 .. now

WorldOK ==
  /\ kind \in Kinds /\ now \in Times /\ exists \subseteq Sensors
  /\ pub \in [Sensors -> SUBSET Past]
  /\ \A s \in Sensors : pub[s] # {} => s \in exists
  /\ blank \subseteq Published

SourceOK ==
  /\ known \subseteq Sensors
  /\ listed \in [Sensors -> {"unlisted", "listed", "none"}]
  /\ kind # "bro_groundwater" => \A s \in Sensors : listed[s] # "none"
  /\ cursor \in [Sensors -> Past \union {None}]

LoopOK ==
  /\ stage \in {"start", "seed", "reseed", "discover", "fetch", "push", "sleep"}
  /\ todo \subseteq Sensors /\ begun \in Past
  /\ fetched \in Seq(Sensors \X Past) /\ clocked \subseteq DOMAIN fetched
  /\ last \in [Sensors -> Past \union {None}]
  /\ zoned \subseteq Sensors /\ registered \in BOOLEAN

ServerOK ==
  /\ streams \subseteq Sensors
  /\ stored \subseteq Sensors \X Past /\ parked \subseteq Sensors \X Past
  /\ mayRepeat \subseteq Sensors
  /\ faults \in 0 .. MaxFaults /\ restarts \in 0 .. MaxRestarts[kind]

(* The list of readings is empty until the fetch, and once it is not the   *)
(* source knows a sensor; one request asks for all sensors at once.        *)
StageOK ==
  /\ stage \notin {"fetch", "push", "reseed"} => fetched = <<>>
  /\ stage \in {"push", "reseed"} => fetched # <<>>
  /\ fetched # <<>> => known # {}
  /\ stage = "fetch" /\ kind \notin OneRequest => known # {}
  /\ stage = "fetch" /\ kind \in OneRequest /\ todo # {} =>
       todo = Sensors /\ fetched = <<>>
  /\ stage = "reseed" => last = Never

TypeInv == WorldOK /\ SourceOK /\ LoopOK /\ ServerOK /\ StageOK

(* What the server or the dead-letter file has of a sensor is no later     *)
(* than its last timestamp, unless its position was lost; what the last    *)
(* timestamp is of has been pushed, of the sensor or another with its key; *)
(* sensors with one key have one last timestamp.                           *)
Covered ==
  stage \notin {"start", "seed"} =>
    \A o \in Taken : o[1] \in mayRepeat \/ o[2] <= last[o[1]]

LastTaken ==
  \A s \in Sensors : last[s] # None => \E p \in SameKey(s) : <<p, last[s]>> \in Taken

SharedLast == \A s \in Sensors : \A p \in SameKey(s) : last[p] = last[s]

Inv == TypeInv /\ Covered /\ LastTaken /\ SharedLast

-----------------------------------------------------------------------------
(* Numbers that are not above n have a greatest one.                       *)
LEMMA Greatest ==
  ASSUME NEW n \in Int, NEW T, T \subseteq Int, T # {}, \A k \in T : k <= n
  PROVE  Max(T) \in T /\ \A k \in T : Max(T) >= k
<1> DEFINE R == OpToRel(<, Nat)
           D == {n - k : k \in T}
<1>1. IsWellFoundedOn(R, Nat)
  BY NatLessThanWellFounded
<1>2. \A a \in Nat, b \in Nat : a < b => <<a, b>> \in R
  BY DEF OpToRel
<1>3. D \subseteq Nat /\ D # {}
  <2>1. \A k \in T : n - k \in Nat
    OBVIOUS
  <2>2. QED
    BY <2>1
<1> HIDE DEF R
<1>4. PICK d \in D : \A e \in D : ~ (<<e, d>> \in R)
  BY <1>1, <1>3, WFMin
<1>5. \A e \in D : ~(e < d)
  BY <1>2, <1>3, <1>4
<1>6. PICK m \in T : d = n - m
  BY <1>4
<1>7. \A k \in T : m >= k
  <2> TAKE k \in T
  <2>1. n - k \in D /\ ~(n - k < d)
    BY <1>5
  <2>2. QED
    BY <1>6, <2>1
<1>8. QED
  BY <1>7 DEF Max

(* Rounding down.                                                          *)
LEMMA WholeProperties ==
  ASSUME NEW t \in Int
  PROVE  Whole(t) \in Int /\ Whole(t) <= t
<1>1. t % Grain \in 0 .. Grain - 1
  BY PollingAssumption
<1>2. QED
  BY <1>1, PollingAssumption DEF Whole

LEMMA WholeIsMonotonic ==
  ASSUME NEW t \in Int, NEW u \in Int, t <= u
  PROVE  Whole(t) <= Whole(u)
<1> DEFINE p == t \div Grain  q == u \div Grain
<1>1. /\ Grain \in Int /\ Grain > 0 /\ p \in Int /\ q \in Int
      /\ Whole(t) = Grain * p /\ Whole(u) = Grain * q
      /\ u < Grain * q + Grain
  BY PollingAssumption DEF Whole
<1> HIDE DEF p, q
<1>2. CASE p <= q
  BY <1>1, <1>2
<1>3. CASE p >= q + 1
  <2>1. Grain * p >= Grain * (q + 1)
    BY <1>1, <1>3
  <2>2. Grain * (q + 1) = Grain * q + Grain
    BY <1>1
  <2>3. QED
    BY <1>1, <2>1, <2>2, WholeProperties
<1>4. QED
  BY <1>1, <1>2, <1>3

(* The list of a finite set in any order.                                  *)
LEMMA Listing ==
  ASSUME NEW S, IsFiniteSet(S), NEW q \in SetToSeqs(S)
  PROVE  /\ q \in Seq(S) /\ DOMAIN q = 1 .. Cardinality(S)
         /\ \A x \in S : \E i \in DOMAIN q : q[i] = x
<1> DEFINE D == 1 .. Cardinality(S)
<1>1. Cardinality(S) \in Nat
  BY FS_CardinalityType
<1>2. q \in [D -> S] /\ \A i, j \in D : i # j => q[i] # q[j]
  BY DEF SetToSeqs
<1>3. IsFiniteSet(D) /\ Cardinality(D) = Cardinality(S)
  BY <1>1, FS_Interval
<1>4. q \in Injection(D, S)
  BY <1>2 DEF Injection, IsInjective
<1> HIDE DEF D
<1>5. q \in Surjection(D, S)
  BY <1>3, <1>4, FS_Injection
<1>6. \A x \in S : \E i \in D : q[i] = x
  BY <1>5 DEF Surjection
<1>7. QED
  BY <1>1, <1>2, <1>6 DEF D

-----------------------------------------------------------------------------
(* The sensors with one key.                                               *)
LEMMA SameKeyProperties ==
  ASSUME NEW s \in Sensors
  PROVE  /\ s \in SameKey(s) /\ SameKey(s) \subseteq Sensors
         /\ \A p \in SameKey(s) : SameKey(p) = SameKey(s)
         /\ kind # "samen_meten" => SameKey(s) = {s}
BY DEF SameKey

LEMMA ThingsProperties ==
  ASSUME NEW S \in SUBSET Sensors
  PROVE  /\ S \subseteq UNION Things(S)
         /\ \A T \in SUBSET Things(S) : UNION T \subseteq Sensors
         /\ IsFiniteSet(Things(S))
<1>1. \A s \in S : s \in SameKey(s) /\ SameKey(s) \subseteq Sensors
  BY SameKeyProperties
<1>2. IsFiniteSet(Things(S))
  <2>1. IsFiniteSet(S)
    BY PollingAssumption, FS_Subset
  <2> DEFINE f == [s \in S |-> SameKey(s)]
  <2>2. f \in Surjection(S, Things(S))
    BY DEF Surjection, Things
  <2>3. QED
    BY <2>1, <2>2, FS_Surjection
<1>3. QED
  BY <1>1, <1>2 DEF Things

(* Some of a finite set: all of it, or it has more.                        *)
LEMMA CutProperties ==
  ASSUME NEW S, IsFiniteSet(S), NEW n \in Nat, NEW A \in Cut(S, n)
  PROVE  A \subseteq S /\ (A = S \/ Cardinality(S) > n)
<1>1. Cardinality(S) \in Nat
  BY FS_CardinalityType
<1>2. QED
  BY <1>1 DEF Cut

(* What an answer holds, and the lists of times it may be read as.         *)
LEMMA AnswerProperties ==
  ASSUME TypeInv, NEW s \in Sensors
  PROVE  Answer(s) \subseteq pub[s] /\ Answer(s) \subseteq Past /\ IsFiniteSet(Answer(s))
<1>1. pub[s] \subseteq Past /\ now \in Nat /\ kind \in AllKinds
  BY PollingAssumption DEF TypeInv, WorldOK, Past, Times
<1>2. Answer(s) \subseteq pub[s]
  BY <1>1 DEF Answer, AllKinds, OhnicsAnswer, SensorCommunityAnswer, BuienradarAnswer,
       KnmiAnswer, LuchtmeetnetAnswer, MeetJeStadAnswer, LevellogAnswer, BroAnswer,
       SamenMetenAnswer, SincePosition, FirstPage, Fresh, Newest
<1>3. IsFiniteSet(Past)
  BY <1>1, FS_Interval DEF Past
<1>4. QED
  BY <1>1, <1>2, <1>3, FS_Subset

LEMMA AnswersProperties ==
  ASSUME TypeInv, NEW s \in Sensors, NEW A \in Answers(s)
  PROVE  /\ A \subseteq Answer(s)
         /\ A = Answer(s) \/ (kind = "levellog" /\ Cardinality(Answer(s)) > Cap)
<1>1. IsFiniteSet(Answer(s)) /\ Cap \in Nat
  BY AnswerProperties, PollingAssumption
<1>2. QED
  BY <1>1, CutProperties DEF Answers

LEMMA CleanProperties ==
  ASSUME TypeInv, NEW s \in Sensors, NEW times \in Clean(s)
  PROVE  /\ times \in Seq(Past)
         /\ \A i \in DOMAIN times : times[i] \in Answer(s)
         /\ \/ \A t \in Valued(s, Answer(s)) : \E i \in DOMAIN times : times[i] = t
            \/ kind = "levellog" /\ Cardinality(Answer(s)) > Cap
<1>1. PICK A \in Answers(s) : times \in SetToSeqs(Valued(s, A))
  BY DEF Clean
<1>2. /\ A \subseteq Answer(s)
      /\ A = Answer(s) \/ (kind = "levellog" /\ Cardinality(Answer(s)) > Cap)
  BY AnswersProperties
<1>3. Answer(s) \subseteq Past /\ IsFiniteSet(Answer(s))
  BY AnswerProperties
<1>4. Valued(s, A) \subseteq A
  BY DEF Valued
<1>5. IsFiniteSet(Valued(s, A))
  BY <1>2, <1>3, <1>4, FS_Subset
<1>6. /\ times \in Seq(Valued(s, A))
      /\ \A t \in Valued(s, A) : \E i \in DOMAIN times : times[i] = t
  BY <1>1, <1>5, Listing
<1>7. QED
  BY <1>2, <1>3, <1>4, <1>6

LEMMA UndatedProperties ==
  ASSUME TypeInv, NEW times \in Seq(Past), NEW i \in DOMAIN times
  PROVE  /\ WithUndated(times, i) \in Seq(Past)
         /\ Rows.undated # "skipped" => Len(WithUndated(times, i)) = Len(times)
<1>1. now \in Past
  BY PollingAssumption DEF TypeInv, WorldOK, Past, Times
<1>2. ReplaceAt(times, i, now) \in Seq(Past) /\ Len(ReplaceAt(times, i, now)) = Len(times)
  BY <1>1 DEF ReplaceAt
<1>3. RemoveAt(times, i) \in Seq(Past)
  <2>1. SubSeq(times, 1, i - 1) \in Seq(Past) /\ SubSeq(times, i + 1, Len(times)) \in Seq(Past)
    <3>1. i \in 1 .. Len(times) /\ \A k \in 1 .. Len(times) : times[k] \in Past
      OBVIOUS
    <3>2. QED
      BY <3>1, SubSeqProperties
  <2>2. QED
    BY <2>1 DEF RemoveAt
<1>4. QED
  BY <1>2, <1>3 DEF WithUndated

(* What a fetch for one sensor does.                                       *)
LEMMA ReadProperties ==
  ASSUME TypeInv, NEW s \in Sensors, NEW times \in Seq(Past), NEW odd,
         odd \subseteq DOMAIN times, Read(s, times, odd)
  PROVE  /\ fetched' \in Seq(Sensors \X Past) /\ Len(fetched') = Len(fetched) + Len(times)
         /\ \A i \in 1 .. Len(fetched) : fetched'[i] = fetched[i]
         /\ \A i \in 1 .. Len(times) : fetched'[Len(fetched) + i] = <<s, times[i]>>
         /\ clocked' \subseteq DOMAIN fetched'
         /\ cursor' \in [Sensors -> Past \union {None}]
         /\ \A u \in Sensors \ {s} : cursor'[u] = cursor[u]
         /\ cursor'[s] = IF times = <<>> \/ kind \notin {"samen_meten", "levellog"}
                         THEN cursor[s]
                         ELSE IF kind = "samen_meten" THEN Max(Range(times)) ELSE now
         /\ times # <<>> => Max(Range(times)) \in Range(times)
<1>1. /\ fetched \in Seq(Sensors \X Past) /\ clocked \subseteq DOMAIN fetched
      /\ cursor \in [Sensors -> Past \union {None}] /\ now \in Nat /\ now \in Past
  BY PollingAssumption DEF TypeInv, LoopOK, SourceOK, WorldOK, Times, Past
<1> DEFINE R == ReadingsOf(s, times)
<1>2. R \in Seq(Sensors \X Past) /\ Len(R) = Len(times)
      /\ \A i \in 1 .. Len(times) : R[i] = <<s, times[i]>>
  BY DEF ReadingsOf
<1> HIDE DEF R
<1>3. fetched' = fetched \o R
  BY DEF Read, R
<1>4. /\ fetched' \in Seq(Sensors \X Past) /\ Len(fetched') = Len(fetched) + Len(times)
      /\ \A i \in 1 .. Len(fetched) : fetched'[i] = fetched[i]
      /\ \A i \in 1 .. Len(times) : fetched'[Len(fetched) + i] = <<s, times[i]>>
  <2>1. fetched' \in Seq(Sensors \X Past) /\ Len(fetched') = Len(fetched) + Len(R)
    BY <1>1, <1>2, <1>3, ConcatProperties
  <2>2. /\ \A i \in 1 .. Len(fetched) : fetched'[i] = fetched[i]
        /\ \A i \in 1 .. Len(R) : fetched'[Len(fetched) + i] = R[i]
    <3>1. Len(fetched) \in Nat /\ Len(R) \in Nat
      BY <1>1, <1>2
    <3>2. \A i \in 1 .. Len(fetched) + Len(R) :
            fetched'[i] = IF i <= Len(fetched) THEN fetched[i] ELSE R[i - Len(fetched)]
      BY <1>1, <1>2, <1>3, ConcatProperties
    <3>3. \A i \in 1 .. Len(fetched) : fetched'[i] = fetched[i]
      BY <3>1, <3>2
    <3>4. ASSUME NEW i \in 1 .. Len(R) PROVE fetched'[Len(fetched) + i] = R[i]
      <4>1. /\ Len(fetched) + i \in 1 .. Len(fetched) + Len(R)
            /\ ~(Len(fetched) + i <= Len(fetched)) /\ (Len(fetched) + i) - Len(fetched) = i
        BY <3>1
      <4>2. QED
        BY <3>2, <4>1
    <3>5. QED
      BY <3>3, <3>4
  <2>3. QED
    BY <1>2, <2>1, <2>2
<1>5. clocked' \subseteq DOMAIN fetched'
  <2>1. clocked' = clocked \union {Len(fetched) + i : i \in odd}
    BY DEF Read
  <2>2. DOMAIN fetched = 1 .. Len(fetched) /\ DOMAIN times = 1 .. Len(times)
        /\ Len(fetched) \in Nat /\ Len(times) \in Nat
    BY <1>1
  <2>3. DOMAIN fetched' = 1 .. (Len(fetched) + Len(times))
    BY <1>4
  <2>4. QED
    BY <1>1, <2>1, <2>2, <2>3
<1>6. times # <<>> => Max(Range(times)) \in Range(times) /\ Range(times) \subseteq Past
  <2>1. Range(times) \subseteq Past
    BY DEF Range
  <2>2. times # <<>> => times[1] \in Range(times)
    BY DEF Range
  <2>3. Past \subseteq Int /\ \A k \in Past : k <= now
    BY <1>1 DEF Past
  <2>4. QED
    BY <1>1, <2>1, <2>2, <2>3, Greatest
<1>7. cursor' = Advance(s, times)
  BY DEF Read
<1>8. cursor' \in [Sensors -> Past \union {None}]
  <2>1. CASE times = <<>>
    BY <1>1, <1>7, <2>1 DEF Advance
  <2>2. CASE times # <<>>
    BY <1>1, <1>6, <1>7, <2>2 DEF Advance
  <2>3. QED
    BY <2>1, <2>2
<1>9. /\ \A u \in Sensors \ {s} : cursor'[u] = cursor[u]
      /\ cursor'[s] = IF times = <<>> \/ kind \notin {"samen_meten", "levellog"}
                      THEN cursor[s]
                      ELSE IF kind = "samen_meten" THEN Max(Range(times)) ELSE now
  BY <1>1, <1>7 DEF Advance
<1>10. QED
  BY <1>4, <1>5, <1>6, <1>8, <1>9

(* The answer of one request for all sensors.                              *)
LEMMA EntriesProperties ==
  ASSUME TypeInv, kind \in OneRequest, NEW spoilt, NEW list \in SetToSeqs(Entries(spoilt))
  PROVE  /\ list \in Seq(Sensors \X Past)
         /\ \A s \in Sensors \ spoilt : \A t \in Valued(s, Answer(s)) :
              \E i \in DOMAIN list : list[i] = <<s, t>>
         /\ \A s \in Sensors \intersect spoilt : \A t \in Valued(s, Answer(s)) :
              \E i \in DOMAIN list : list[i] = <<s, now>>
         /\ \A i \in DOMAIN list :
              list[i][1] \in spoilt \/ list[i][2] \in Answer(list[i][1])
         /\ \A i \in DOMAIN list : Answer(list[i][1]) # {}
<1>1. now \in Nat /\ now \in Past
  BY PollingAssumption DEF TypeInv, WorldOK, Past, Times
<1>2. \A s \in Sensors : Valued(s, Answer(s)) \subseteq Answer(s) /\ Answer(s) \subseteq Past
  BY AnswerProperties DEF Valued
<1>3. \A e \in Entries(spoilt) : \E s \in Sensors : \E t \in Valued(s, Answer(s)) :
        e = <<s, IF s \in spoilt THEN now ELSE t>>
  BY DEF Entries
<1>4. \A s \in Sensors : \A t \in Valued(s, Answer(s)) :
        <<s, IF s \in spoilt THEN now ELSE t>> \in Entries(spoilt)
  BY DEF Entries
<1>5. Entries(spoilt) \subseteq Sensors \X Past
  BY <1>1, <1>2, <1>3
<1>6. IsFiniteSet(Entries(spoilt))
  <2>1. IsFiniteSet(Past)
    BY <1>1, FS_Interval DEF Past
  <2>2. IsFiniteSet(Sensors \X Past)
    BY <2>1, PollingAssumption, FS_Product
  <2>3. QED
    BY <1>5, <2>2, FS_Subset
<1>7. list \in Seq(Entries(spoilt))
      /\ \A e \in Entries(spoilt) : \E i \in DOMAIN list : list[i] = e
  BY <1>6, Listing
<1>8. list \in Seq(Sensors \X Past)
  BY <1>5, <1>7
<1>9. \A i \in DOMAIN list : list[i] \in Entries(spoilt)
  BY <1>7
<1>10. /\ \A s \in Sensors \ spoilt : \A t \in Valued(s, Answer(s)) :
            \E i \in DOMAIN list : list[i] = <<s, t>>
       /\ \A s \in Sensors \intersect spoilt : \A t \in Valued(s, Answer(s)) :
            \E i \in DOMAIN list : list[i] = <<s, now>>
  BY <1>4, <1>7
<1>11. /\ \A i \in DOMAIN list :
            list[i][1] \in spoilt \/ list[i][2] \in Answer(list[i][1])
       /\ \A i \in DOMAIN list : Answer(list[i][1]) # {}
  BY <1>2, <1>3, <1>9
<1>12. QED
  BY <1>8, <1>10, <1>11

(* What the seed reads for a sensor.                                       *)
LEMMA SeededProperties ==
  ASSUME TypeInv, NEW s \in Sensors
  PROVE  /\ Seeded(s) \in Past \union {None}
         /\ Seeded(s) # None => <<s, Seeded(s)>> \in stored
         /\ \A o \in stored : o[1] = s => o[2] <= Seeded(s)
<1> DEFINE T == {o[2] : o \in {p \in stored : p[1] = s}}
<1>1. stored \subseteq Sensors \X Past /\ now \in Nat
  BY PollingAssumption DEF TypeInv, ServerOK, WorldOK, Times
<1>2. T \subseteq Past /\ \A t \in T : <<s, t>> \in stored
  BY <1>1
<1>3. \A o \in stored : o[1] = s => o[2] \in T
  OBVIOUS
<1>4. Seeded(s) = Max({None} \union T)
  BY DEF Seeded, LatestOf
<1> HIDE DEF T
<1>5. {None} \union T \subseteq Int /\ \A k \in {None} \union T : k <= now
  BY <1>1, <1>2 DEF None, Past
<1>6. Seeded(s) \in {None} \union T /\ \A k \in {None} \union T : Seeded(s) >= k
  BY <1>1, <1>4, <1>5, Greatest
<1>7. \A o \in stored : o[1] = s => o[2] <= Seeded(s)
  BY <1>3, <1>5, <1>6
<1>8. QED
  BY <1>2, <1>6, <1>7

(* What is new, and what _update_timestamps() makes of it.                 *)
LEMMA NewProperties ==
  ASSUME TypeInv
  PROVE  /\ NewReadings \subseteq Sensors \X Past
         /\ \A r \in NewReadings : r[2] > last[r[1]]
         /\ \A i \in DOMAIN fetched :
              fetched[i][2] > last[fetched[i][1]] => fetched[i] \in NewReadings
         /\ \A r \in NewReadings : \E i \in DOMAIN fetched : r = fetched[i]
<1>1. fetched \in Seq(Sensors \X Past) /\ \A i \in DOMAIN fetched : fetched[i] \in Sensors \X Past
  BY DEF TypeInv, LoopOK
<1>2. \A i \in DOMAIN fetched : fetched[i][1] \in SameKey(fetched[i][1])
  BY <1>1, SameKeyProperties
<1>3. QED
  BY <1>1, <1>2 DEF NewReadings, NewOf, IsNew

LEMMA UpdatedTypes ==
  ASSUME TypeInv
  PROVE  /\ Updated \in [Sensors -> Past \union {None}]
         /\ \A s \in Sensors :
              \/ /\ NewOf(s) = {} /\ Updated[s] = last[s]
              \/ /\ Max(NewOf(s)) \in NewOf(s)
                 /\ Updated[s] = fetched[Max(NewOf(s))][2]
         /\ \A r \in NewReadings : r[1] \in Overtaken \/ r[2] <= Updated[r[1]]
         /\ Overtaken \subseteq Sensors
<1>1. /\ fetched \in Seq(Sensors \X Past) /\ last \in [Sensors -> Past \union {None}]
      /\ now \in Nat /\ Past \subseteq Nat
  BY PollingAssumption DEF TypeInv, LoopOK, WorldOK, Times, Past
<1>2. \A s \in Sensors : NewOf(s) # {} => Max(NewOf(s)) \in NewOf(s)
  <2> TAKE s \in Sensors
  <2>1. NewOf(s) \subseteq Int /\ Len(fetched) \in Int /\ \A k \in NewOf(s) : k <= Len(fetched)
    BY <1>1 DEF NewOf
  <2>2. QED
    BY <2>1, Greatest
<1>3. \A s \in Sensors : \A i \in NewOf(s) : fetched[i][2] \in Past
  BY <1>1 DEF NewOf
<1>4. \A s \in Sensors :
        Updated[s] = IF NewOf(s) = {} THEN last[s] ELSE fetched[Max(NewOf(s))][2]
  BY DEF Updated
<1>5. Updated \in [Sensors -> Past \union {None}]
  <2>1. \A s \in Sensors : Updated[s] \in Past \union {None}
    BY <1>1, <1>2, <1>3, <1>4
  <2>2. QED
    BY <2>1 DEF Updated
<1>6. \A r \in NewReadings : r \in Sensors \X Past
  BY NewProperties
<1>7. \A r \in NewReadings : r[1] \in Overtaken \/ r[2] <= Updated[r[1]]
  <2> TAKE r \in NewReadings
  <2>1. r[2] \in Int /\ Updated[r[1]] \in Int
    <3>1. r[1] \in Sensors /\ r[2] \in Past
      BY <1>6
    <3>2. Past \union {None} \subseteq Int
      BY <1>1 DEF None
    <3>3. Updated[r[1]] \in Past \union {None}
      BY <1>5, <3>1
    <3>4. QED
      BY <3>1, <3>2, <3>3
  <2>2. r[2] > Updated[r[1]] => r[1] \in Overtaken
    BY DEF Overtaken
  <2>3. QED
    BY <2>1, <2>2
<1>8. Overtaken \subseteq Sensors
  BY <1>6 DEF Overtaken
<1>9. QED
  BY <1>2, <1>4, <1>5, <1>7, <1>8

LEMMA UpdatedProperties ==
  ASSUME TypeInv, SharedLast, NEW s \in Sensors
  PROVE  \/ Updated[s] = last[s] /\ \A r \in NewReadings : r[1] # s
         \/ /\ Updated[s] > last[s]
            /\ \E p \in SameKey(s) : <<p, Updated[s]>> \in NewReadings
<1>1. fetched \in Seq(Sensors \X Past) /\ \A i \in DOMAIN fetched : fetched[i] \in Sensors \X Past
  BY DEF TypeInv, LoopOK
<1>2. CASE NewOf(s) = {} /\ Updated[s] = last[s]
  <2>1. \A i \in DOMAIN fetched : fetched[i][1] = s => ~(fetched[i][2] > last[fetched[i][1]])
    BY <1>2, SameKeyProperties DEF NewOf, IsNew
  <2>2. \A r \in NewReadings : r[1] # s
    BY <2>1, NewProperties
  <2>3. QED
    BY <1>2, <2>2
<1>3. CASE Max(NewOf(s)) \in NewOf(s) /\ Updated[s] = fetched[Max(NewOf(s))][2]
  <2>1. PICK i \in NewOf(s) : Updated[s] = fetched[i][2]
    BY <1>3
  <2>2. /\ i \in DOMAIN fetched /\ fetched[i][1] \in SameKey(s)
        /\ fetched[i][2] > last[fetched[i][1]]
    BY <2>1 DEF NewOf, IsNew
  <2>3. last[fetched[i][1]] = last[s]
    BY <2>2 DEF SharedLast
  <2>4. fetched[i] = <<fetched[i][1], Updated[s]>> /\ fetched[i] \in NewReadings
    BY <1>1, <2>1, <2>2, NewProperties
  <2>5. QED
    BY <2>1, <2>2, <2>3, <2>4
<1>4. QED
  BY <1>2, <1>3, UpdatedTypes

-----------------------------------------------------------------------------
(* The types.                                                              *)
LEMMA InitTypes == Init => TypeInv
<1> SUFFICES ASSUME Init PROVE TypeInv
  OBVIOUS
<1>1. now = 0 /\ Past = 0 .. 0 /\ 0 \in Times
  BY PollingAssumption DEF Init, Past, Times
<1>2. known \subseteq Sensors
  BY PollingAssumption, KindsAssumption DEF Init, Configured
<1>3. cursor \in [Sensors -> Past \union {None}] /\ last \in [Sensors -> Past \union {None}]
  BY DEF Init, Never
<1>4. WorldOK
  <2>1. Offers[kind] \in SUBSET Sensors
    BY PollingAssumption, KindsAssumption DEF Init
  <2>2. exists \subseteq Sensors
    BY <2>1, ThingsProperties DEF Init
  <2>3. QED
    BY <1>1, <2>2 DEF Init, WorldOK
<1>5. SourceOK
  BY <1>2, <1>3 DEF Init, SourceOK
<1>6. LoopOK
  <2>1. fetched \in Seq(Sensors \X Past) /\ clocked \subseteq DOMAIN fetched
    BY DEF Init
  <2>2. stage = "start" /\ todo \subseteq Sensors /\ begun \in Past /\ zoned \subseteq Sensors
    BY <1>1 DEF Init
  <2>3. registered \in BOOLEAN
    BY Zenon DEF Init
  <2>4. QED
    BY <1>3, <2>1, <2>2, <2>3 DEF LoopOK
<1>7. ServerOK
  BY PollingAssumption, KindsAssumption DEF Init, ServerOK
<1>8. StageOK
  BY DEF Init, StageOK
<1>9. QED
  BY <1>4, <1>5, <1>6, <1>7, <1>8 DEF TypeInv

(* Time goes by.                                                           *)
LEMMA TickTypes ==
  ASSUME TypeInv, Tick
  PROVE  TypeInv'
<1>1. Past \subseteq Past' /\ now' \in Times
  BY PollingAssumption DEF TypeInv, WorldOK, Tick, Past, Times
<1>2. WorldOK'
  BY <1>1 DEF TypeInv, WorldOK, Tick, Published
<1>3. SourceOK'
  BY <1>1 DEF TypeInv, SourceOK, Tick, source
<1>4. LoopOK'
  <2>1. fetched \in Seq(Sensors \X Past')
    BY <1>1 DEF TypeInv, LoopOK
  <2>2. QED
    BY <1>1, <2>1 DEF TypeInv, LoopOK, Tick, loop
<1>5. ServerOK'
  BY <1>1 DEF TypeInv, ServerOK, Tick, server, bounds
<1>6. StageOK'
  BY DEF TypeInv, StageOK, Tick, source, loop
<1>7. QED
  BY <1>2, <1>3, <1>4, <1>5, <1>6 DEF TypeInv

(* The steps that leave the world alone.                                   *)
LEMMA SameWorld ==
  ASSUME TypeInv, UNCHANGED upstream
  PROVE  WorldOK' /\ Past' = Past /\ kind' = kind
BY DEF TypeInv, WorldOK, Past, upstream, Published

LEMMA WorldTypes ==
  ASSUME TypeInv, World \/ UNCHANGED vars
  PROVE  TypeInv'
<1>1. CASE Tick
  BY <1>1, TickTypes
<1>2. CASE UNCHANGED vars
  <2>1. UNCHANGED upstream
    BY <1>2 DEF vars
  <2>2. WorldOK' /\ Past' = Past /\ kind' = kind
    BY <2>1, SameWorld
  <2>3. SourceOK' /\ LoopOK' /\ ServerOK' /\ StageOK'
    BY <1>2, <2>2, Zenon DEF TypeInv, SourceOK, LoopOK, ServerOK, StageOK, vars, upstream,
         source, loop, server, bounds
  <2>4. QED
    BY <2>2, <2>3 DEF TypeInv
<1>3. ASSUME NEW s \in Sensors, Appear(s) \/ \E t \in Times : Publish(s, t)
      PROVE  TypeInv'
  <2>1. now' = now /\ Past' = Past /\ now \in Nat
    BY <1>3, PollingAssumption DEF TypeInv, WorldOK, Appear, Publish, Past, Times
  <2>2. WorldOK'
    <3>1. CASE Appear(s)
      BY <2>1, <3>1, SameKeyProperties DEF TypeInv, WorldOK, Appear, Published
    <3>2. ASSUME NEW t \in Times, Publish(s, t) PROVE WorldOK'
      <4>1. t \in Past
        BY <2>1, <3>2, PollingAssumption DEF Publish, Past, Times
      <4>2. pub' = [pub EXCEPT ![s] = @ \union {t}] /\ pub \in [Sensors -> SUBSET Past]
        BY <3>2 DEF TypeInv, WorldOK, Publish
      <4>3. Published' = Published \union {<<s, t>>}
        BY <4>2 DEF Published
      <4>4. blank' \subseteq Published'
        BY <3>2, <4>3 DEF TypeInv, WorldOK, Publish
      <4>5. QED
        BY <2>1, <3>2, <4>1, <4>2, <4>4 DEF TypeInv, WorldOK, Publish
    <3>3. QED
      BY <1>3, <3>1, <3>2
  <2>3. SourceOK' /\ LoopOK' /\ ServerOK' /\ StageOK'
    BY <1>3, <2>1 DEF TypeInv, SourceOK, LoopOK, ServerOK, StageOK, Appear, Publish,
         source, loop, server, bounds
  <2>4. QED
    BY <2>2, <2>3 DEF TypeInv
<1>4. QED
  BY <1>1, <1>2, <1>3 DEF World

(* What the seed reads.                                                    *)
LEMMA SeedChoice ==
  ASSUME TypeInv, Seed
  PROVE  \E read \in SUBSET Sensors : SeedFrom(read)
<1>1. streams \subseteq Sensors /\ IsFiniteSet(streams) /\ SeedTop \in Nat
  BY PollingAssumption, FS_Subset DEF TypeInv, ServerOK
<1>2. SeedReads \subseteq SUBSET Sensors
  BY <1>1, CutProperties DEF SeedReads
<1>3. QED
  BY <1>2 DEF Seed

LEMMA StartUpTypes ==
  ASSUME TypeInv, StartUp
  PROVE  TypeInv'
<1>1. WorldOK' /\ Past' = Past /\ kind' = kind
  BY SameWorld DEF StartUp, RegisterEagerly, RegisterOnData, Seed
<1>2. SourceOK'
  BY <1>1 DEF TypeInv, SourceOK, StartUp, RegisterEagerly, RegisterOnData, Seed, source,
       upstream
<1>3. CASE RegisterEagerly
  <2>1. LoopOK' /\ StageOK'
    BY <1>1, <1>3 DEF TypeInv, LoopOK, StageOK, RegisterEagerly, RegisterAll, source, upstream
  <2>2. ServerOK'
    BY <1>1, <1>3, PollingAssumption DEF TypeInv, ServerOK, SourceOK, RegisterEagerly,
         RegisterAll, Faulty, bounds
  <2>3. QED
    BY <1>1, <1>2, <2>1, <2>2 DEF TypeInv
<1>4. CASE RegisterOnData
  <2>1. LoopOK' /\ StageOK'
    BY <1>1, <1>4 DEF TypeInv, LoopOK, StageOK, RegisterOnData, RegisterAll, source, upstream
  <2>2. ServerOK'
    BY <1>1, <1>4, PollingAssumption DEF TypeInv, ServerOK, SourceOK, RegisterOnData,
         RegisterAll, Faulty, bounds
  <2>3. QED
    BY <1>1, <1>2, <2>1, <2>2 DEF TypeInv
<1>5. CASE Seed
  <2>1. PICK read \in SUBSET Sensors : SeedFrom(read)
    BY <1>5, SeedChoice
  <2>2. last' \in [Sensors -> Past \union {None}]
    BY <2>1, SeededProperties DEF SeedFrom
  <2>3. mayRepeat' \subseteq Sensors
    BY <2>1 DEF SeedFrom, TypeInv, ServerOK
  <2>4. LoopOK'
    BY <1>1, <1>5, <2>2 DEF TypeInv, LoopOK, Seed
  <2>5. StageOK'
    BY <1>5 DEF TypeInv, StageOK, Seed, source, upstream
  <2>6. ServerOK'
    BY <1>1, <1>5, <2>3, PollingAssumption DEF TypeInv, ServerOK, Seed, Faulty, server, bounds
  <2>7. QED
    BY <1>1, <1>2, <2>4, <2>5, <2>6 DEF TypeInv
<1>6. QED
  BY <1>3, <1>4, <1>5 DEF StartUp

(* Discovering.                                                            *)
LEMMA FoundAllProperties ==
  ASSUME TypeInv, NEW all \in FoundAll
  PROVE  /\ all \subseteq Sensors
         /\ \/ exists \subseteq all
            \/ kind # "meet_je_stad" /\ Cardinality(Things(exists)) > MaxKnown
<1>1. exists \in SUBSET Sensors /\ MaxKnown \in Nat
  BY PollingAssumption DEF TypeInv, WorldOK
<1>2. CASE kind = "meet_je_stad"
  BY <1>1, <1>2 DEF FoundAll
<1>3. CASE kind # "meet_je_stad"
  <2>1. PICK T \in Cut(Things(exists), MaxKnown) : all = UNION T
    BY <1>3 DEF FoundAll
  <2>2. T \subseteq Things(exists) /\ (T = Things(exists) \/ Cardinality(Things(exists)) > MaxKnown)
    BY <1>1, <2>1, ThingsProperties, CutProperties
  <2>3. QED
    BY <1>1, <1>3, <2>1, <2>2, ThingsProperties
<1>4. QED
  BY <1>2, <1>3

LEMMA DiscoverTypes ==
  ASSUME TypeInv, Discover \/ GoOn \/ TokenFails
  PROVE  TypeInv'
<1>1. WorldOK' /\ Past' = Past /\ kind' = kind /\ now \in Past
  BY SameWorld, PollingAssumption DEF Discover, GoOn, TokenFails, TypeInv, WorldOK, Past, Times
<1>2. /\ known' \subseteq Sensors /\ todo' \subseteq Sensors
      /\ begun' \in Past
      /\ stage' \in {"sleep", "fetch"}
      /\ stage' = "fetch" => /\ kind \notin OneRequest => known' # {}
                             /\ kind \in OneRequest => todo' = Sensors
      /\ stage = "discover"
  <2>1. CASE Discover
    <3>1. PICK S \in SUBSET Sensors : Found(S)
      <4>1. exists \subseteq Sensors
        BY DEF TypeInv, WorldOK
      <4>2. CASE \E all \in FoundAll : Found(all)
        BY <4>1, <4>2, FoundAllProperties
      <4>3. CASE \E some \in FoundPartly : Found(some)
        <5>1. FoundPartly \subseteq SUBSET Sensors
          BY <2>1, <4>1, ThingsProperties DEF Discover, Discovering, FoundPartly,
               LuchtmeetnetStations, SamenMetenThings, MeetJeStadSensors, BroWells
        <5>2. QED
          BY <4>3, <5>1
      <4>4. QED
        BY <2>1, <4>2, <4>3 DEF Discover
    <3>2. kind \notin OneRequest /\ stage = "discover"
      BY <2>1 DEF Discover, Discovering, OneRequest
    <3>3. QED
      BY <1>1, <3>1, <3>2 DEF Found, Ask, GiveUp, Past
  <2>2. CASE GoOn
    BY <1>1, <2>2 DEF GoOn, Ask, TypeInv, SourceOK, source
  <2>3. CASE TokenFails
    BY <1>1, <2>3 DEF TokenFails, GiveUp, AfterError, TypeInv, SourceOK, source, Past
  <2>4. QED
    BY <2>1, <2>2, <2>3
<1>3. /\ UNCHANGED <<kind, listed, cursor, fetched, clocked, last, zoned, registered,
                     streams, stored, parked, mayRepeat>>
      /\ UNCHANGED bounds \/ Faulty
  BY DEF Discover, GoOn, TokenFails, upstream, source, server
<1>4. SourceOK' /\ LoopOK'
  BY <1>1, <1>2, <1>3 DEF TypeInv, SourceOK, LoopOK
<1>5. ServerOK'
  BY <1>1, <1>3, PollingAssumption DEF TypeInv, ServerOK, Faulty, bounds
<1>6. fetched = <<>>
  BY <1>2 DEF TypeInv, StageOK
<1>7. StageOK'
  BY <1>2, <1>3, <1>6 DEF StageOK
<1>8. QED
  BY <1>1, <1>4, <1>5, <1>7 DEF TypeInv

(* Asking for one sensor.                                                  *)
LEMMA FetchReads ==
  ASSUME TypeInv, NEW s \in Sensors, Fetch(s)
  PROVE  \/ UNCHANGED <<fetched, clocked, cursor>> /\ listed[s] = "none"
         \/ \E times \in Clean(s) : Read(s, times, {}) /\ UNCHANGED bounds
         \/ /\ Faulty
            /\ \E times \in Clean(s) : \E i \in DOMAIN times : \E odd \in {{}, {i}} :
                 /\ odd = {i} => Rows.undated = "clock"
                 /\ Read(s, WithUndated(times, i), odd)
<1>1. CASE listed[s] # "none" /\ ReadSpoilt(s) /\ Faulty
  BY <1>1 DEF ReadSpoilt
<1>2. CASE listed[s] # "none" /\ ReadClean(s) /\ UNCHANGED bounds
  BY <1>2 DEF ReadClean
<1>3. QED
  BY <1>1, <1>2 DEF Fetch

LEMMA FetchTypes ==
  ASSUME TypeInv, NEW s \in Sensors, Fetch(s)
  PROVE  TypeInv'
<1> DEFINE Good == /\ fetched' \in Seq(Sensors \X Past) /\ clocked' \subseteq DOMAIN fetched'
                   /\ cursor' \in [Sensors -> Past \union {None}]
<1>1. WorldOK' /\ Past' = Past /\ kind' = kind
  BY SameWorld DEF Fetch
<1>2. Good
  <2>1. CASE UNCHANGED <<fetched, clocked, cursor>>
    BY <2>1 DEF TypeInv, LoopOK, SourceOK
  <2>2. ASSUME NEW times \in Clean(s), Read(s, times, {}) PROVE Good
    BY <2>2, CleanProperties, ReadProperties
  <2>3. ASSUME NEW times \in Clean(s), NEW i \in DOMAIN times, NEW odd \in {{}, {i}},
               odd = {i} => Rows.undated = "clock", Read(s, WithUndated(times, i), odd)
        PROVE  Good
    <3>1. times \in Seq(Past)
      BY CleanProperties
    <3>2. WithUndated(times, i) \in Seq(Past)
      BY <3>1, UndatedProperties
    <3>3. odd \subseteq DOMAIN WithUndated(times, i)
      <4>1. CASE odd = {i}
        <5>1. Len(WithUndated(times, i)) = Len(times)
          BY <2>3, <3>1, <4>1, UndatedProperties
        <5>2. QED
          BY <3>1, <3>2, <4>1, <5>1
      <4>2. QED
        BY <4>1
    <3>4. QED
      BY <2>3, <3>2, <3>3, ReadProperties
  <2> HIDE DEF Good
  <2>4. CASE \E times \in Clean(s) : \E i \in DOMAIN times : \E odd \in {{}, {i}} :
               /\ odd = {i} => Rows.undated = "clock"
               /\ Read(s, WithUndated(times, i), odd)
    BY <2>3, <2>4, Zenon
  <2>5. CASE \E times \in Clean(s) : Read(s, times, {})
    BY <2>2, <2>5, Zenon
  <2>6. QED
    BY <2>1, <2>4, <2>5, FetchReads, Zenon
<1> HIDE DEF Good
<1>3. /\ UNCHANGED <<kind, known, stage, begun, last, zoned, registered, streams, stored,
                     parked, mayRepeat>>
      /\ UNCHANGED bounds \/ Faulty
      /\ todo' \subseteq Sensors /\ kind \notin OneRequest /\ stage = "fetch"
  BY DEF Fetch, upstream, server, TypeInv, LoopOK
<1>4. listed' \in [Sensors -> {"unlisted", "listed", "none"}]
      /\ (kind # "bro_groundwater" => \A u \in Sensors : listed'[u] # "none")
  BY DEF Fetch, TypeInv, SourceOK
<1>5. SourceOK' /\ LoopOK'
  BY <1>1, <1>2, <1>3, <1>4 DEF Good, TypeInv, SourceOK, LoopOK
<1>6. ServerOK'
  BY <1>1, <1>3, PollingAssumption DEF TypeInv, ServerOK, Faulty, bounds
<1>7. StageOK'
  BY <1>3 DEF TypeInv, StageOK
<1>8. QED
  BY <1>1, <1>5, <1>6, <1>7 DEF TypeInv

LEMMA FetchFailsTypes ==
  ASSUME TypeInv, NEW s \in Sensors, FetchFails(s)
  PROVE  TypeInv'
<1>1. WorldOK' /\ Past' = Past /\ kind' = kind
  BY SameWorld DEF FetchFails
<1>2. SourceOK' /\ LoopOK' /\ StageOK'
  BY <1>1 DEF TypeInv, SourceOK, LoopOK, StageOK, FetchFails, upstream
<1>3. ServerOK'
  BY <1>1, PollingAssumption DEF TypeInv, ServerOK, FetchFails, Faulty, server
<1>4. QED
  BY <1>1, <1>2, <1>3 DEF TypeInv

(* Asking for all of them, and the end of asking.                          *)
LEMMA FetchAllTypes ==
  ASSUME TypeInv, FetchAll \/ FetchAllFails \/ EndFetch
  PROVE  TypeInv'
<1>1. WorldOK' /\ Past' = Past /\ kind' = kind /\ now \in Past /\ now \in Nat
  BY SameWorld, PollingAssumption DEF FetchAll, FetchAllFails, EndFetch, TypeInv, WorldOK,
       Past, Times
<1>2. CASE FetchAll
  <2>1. PICK spoilt \in SUBSET {s \in Sensors : Valued(s, Answer(s)) # {}} :
          /\ IF spoilt = {} THEN UNCHANGED bounds ELSE Faulty
          /\ fetched' \in SetToSeqs(Entries(spoilt))
          /\ clocked' = {i \in DOMAIN fetched' : /\ Rows.undated = "clock"
                                                 /\ fetched'[i][1] \in spoilt}
    BY <1>2 DEF FetchAll
  <2>2. /\ fetched' \in Seq(Sensors \X Past) /\ clocked' \subseteq DOMAIN fetched'
        /\ \A i \in DOMAIN fetched' : Answer(fetched'[i][1]) # {}
    BY <1>2, <2>1, EntriesProperties DEF FetchAll
  <2>3. fetched' # <<>> => known' # {}
    <3>1. ASSUME fetched' # <<>> PROVE known' # {}
      <4>1. 1 \in DOMAIN fetched' /\ fetched'[1][1] \in Sensors
        BY <2>2, <3>1
      <4>2. QED
        BY <1>2, <2>2, <4>1 DEF FetchAll
    <3>2. QED
      BY <3>1
  <2>4. SourceOK' /\ LoopOK'
    BY <1>1, <1>2, <2>2 DEF TypeInv, SourceOK, LoopOK, FetchAll, upstream
  <2>5. ServerOK'
    BY <1>1, <1>2, <2>1, PollingAssumption DEF TypeInv, ServerOK, FetchAll, Faulty, server, bounds
  <2>6. StageOK'
    BY <1>2, <2>3 DEF TypeInv, StageOK, FetchAll, upstream
  <2>7. QED
    BY <1>1, <2>4, <2>5, <2>6 DEF TypeInv
<1>3. CASE FetchAllFails
  <2>1. SourceOK' /\ LoopOK' /\ StageOK'
    BY <1>1, <1>3 DEF TypeInv, SourceOK, LoopOK, StageOK, FetchAllFails, GiveUp, AfterError,
         source, upstream, Past
  <2>2. ServerOK'
    BY <1>1, <1>3, PollingAssumption DEF TypeInv, ServerOK, FetchAllFails, Faulty, server
  <2>3. QED
    BY <1>1, <2>1, <2>2 DEF TypeInv
<1>4. CASE EndFetch
  <2>1. SourceOK' /\ LoopOK' /\ StageOK' /\ ServerOK'
    BY <1>1, <1>4 DEF TypeInv, SourceOK, LoopOK, StageOK, ServerOK, EndFetch, GiveUp,
         server, bounds, upstream, Past
  <2>2. QED
    BY <1>1, <2>1 DEF TypeInv
<1>5. QED
  BY <1>2, <1>3, <1>4

(* Pushing.                                                                *)
LEMMA PushTypes ==
  ASSUME TypeInv, PushOk \/ PushDeadLetters \/ PushRaises \/ DedupRaises \/ Wake
  PROVE  TypeInv'
<1>1. WorldOK' /\ Past' = Past /\ kind' = kind
  BY SameWorld DEF PushOk, PushDeadLetters, Push, PushRaises, DedupRaises, Wake
<1>2. SourceOK'
  BY <1>1 DEF TypeInv, SourceOK, PushOk, PushDeadLetters, Push, PushRaises, DedupRaises, Wake,
       source, upstream
<1>3. StageOK'
  BY DEF TypeInv, StageOK, PushOk, PushDeadLetters, Push, PushRaises, DedupRaises, Wake,
       source, upstream, Clear, AfterError, Pushes
<1>4. NewReadings \subseteq Sensors \X Past
  BY NewProperties
<1>5. ASSUME NEW sent \in SUBSET NewReadings, Push(sent), UNCHANGED bounds \/ Faulty
      PROVE  LoopOK' /\ ServerOK'
  <2>1. last' \in [Sensors -> Past \union {None}] /\ Overtaken \subseteq Sensors
    BY <1>5, UpdatedTypes DEF Push
  <2>2. ZonedAfter \subseteq Sensors
    BY DEF ZonedAfter
  <2>3. LoopOK'
    <3>1. fetched' = <<>> /\ clocked' = {} /\ fetched' \in Seq(Sensors \X Past)
      BY <1>5 DEF Push, Clear
    <3>2. QED
      BY <1>1, <1>5, <2>1, <2>2, <3>1 DEF TypeInv, LoopOK, Push, Clear
  <2>4. ServerOK'
    BY <1>1, <1>4, <1>5, <2>1, PollingAssumption DEF TypeInv, ServerOK, Push, Faulty, bounds
  <2>5. QED
    BY <2>3, <2>4
<1>6. CASE PushOk \/ PushDeadLetters
  <2>1. {} \in SUBSET NewReadings /\ {r \in NewReadings : r[1] \in streams} \in SUBSET NewReadings
    OBVIOUS
  <2>2. \E sent \in SUBSET NewReadings : Push(sent) /\ (UNCHANGED bounds \/ Faulty)
    BY <1>6, <2>1 DEF PushOk, PushDeadLetters
  <2>3. QED
    BY <1>1, <1>2, <1>3, <1>5, <2>2 DEF TypeInv
<1>7. CASE PushRaises
  <2>1. PICK sent \in SUBSET NewReadings :
          stored' = stored \union sent /\ mayRepeat' = mayRepeat \union {r[1] : r \in sent}
    <3>1. {} \in SUBSET NewReadings
          /\ {r \in NewReadings : r[1] \in streams} \in SUBSET NewReadings
      OBVIOUS
    <3>2. QED
      BY <1>7, <3>1 DEF PushRaises
  <2>2. LoopOK'
    <3>1. fetched' = <<>> /\ clocked' = {} /\ fetched' \in Seq(Sensors \X Past)
      BY <1>7 DEF PushRaises, Clear
    <3>2. QED
      BY <1>1, <1>7, <3>1 DEF TypeInv, LoopOK, PushRaises, Clear, AfterError
  <2>3. ServerOK'
    <3>1. stored' \subseteq Sensors \X Past /\ mayRepeat' \subseteq Sensors
      BY <1>4, <2>1 DEF TypeInv, ServerOK
    <3>2. QED
      BY <1>1, <1>7, <3>1, PollingAssumption DEF TypeInv, ServerOK, PushRaises, Faulty
  <2>4. QED
    BY <1>1, <1>2, <1>3, <2>2, <2>3 DEF TypeInv
<1>8. CASE DedupRaises \/ Wake
  <2>1. LoopOK'
    <3>1. fetched' \in {fetched, <<>>} /\ clocked' \in {clocked, {}}
          /\ (clocked' # {} => fetched' = fetched) /\ <<>> \in Seq(Sensors \X Past)
      BY <1>8 DEF DedupRaises, Wake, Clear
    <3>2. QED
      BY <1>1, <1>8, <3>1 DEF TypeInv, LoopOK, DedupRaises, Wake, Clear, AfterError
  <2>2. ServerOK'
    BY <1>1, <1>8 DEF TypeInv, ServerOK, DedupRaises, Wake, server, bounds
  <2>3. QED
    BY <1>1, <1>2, <1>3, <2>1, <2>2 DEF TypeInv
<1>9. QED
  BY <1>6, <1>7, <1>8

LEMMA RestartTypes ==
  ASSUME TypeInv, Restart
  PROVE  TypeInv'
<1>1. WorldOK' /\ Past' = Past /\ kind' = kind /\ 0 \in Past
  BY SameWorld, PollingAssumption DEF Restart, TypeInv, WorldOK, Past, Times
<1>2. SourceOK'
  <2>1. known' \subseteq Sensors /\ cursor' \in [Sensors -> Past \union {None}]
    BY PollingAssumption, KindsAssumption DEF Restart, Configured, Never, TypeInv, WorldOK
  <2>2. /\ listed' \in [Sensors -> {"unlisted", "listed", "none"}]
        /\ \A s \in Sensors : listed'[s] # "none"
    BY DEF Restart
  <2>3. QED
    BY <1>1, <2>1, <2>2 DEF SourceOK
<1>3. LoopOK'
  <2>1. /\ fetched' \in Seq(Sensors \X Past) /\ clocked' \subseteq DOMAIN fetched'
        /\ last' \in [Sensors -> Past \union {None}]
    BY DEF Restart, Clear, Never
  <2>2. /\ stage' \in {"start"} /\ todo' \subseteq Sensors /\ begun' \in Past
        /\ zoned' \subseteq Sensors /\ registered' \in BOOLEAN
    BY <1>1 DEF Restart, Clear
  <2>3. QED
    BY <1>1, <2>1, <2>2 DEF LoopOK
<1>4. ServerOK'
  BY <1>1, PollingAssumption, KindsAssumption DEF TypeInv, WorldOK, ServerOK, Restart, server
<1>5. StageOK'
  BY DEF StageOK, Restart, Clear
<1>6. QED
  BY <1>1, <1>2, <1>3, <1>4, <1>5 DEF TypeInv

LEMMA NextTypes == TypeInv /\ [Next]_vars => TypeInv'
<1> SUFFICES ASSUME TypeInv, [Next]_vars PROVE TypeInv'
  OBVIOUS
<1>1. CASE World \/ UNCHANGED vars
  BY <1>1, WorldTypes
<1>2. CASE StartUp
  BY <1>2, StartUpTypes
<1>3. CASE Ingest
  BY <1>3, DiscoverTypes, FetchTypes, FetchFailsTypes, FetchAllTypes, PushTypes DEF Ingest
<1>4. CASE Restart
  BY <1>4, RestartTypes
<1>5. QED
  BY <1>1, <1>2, <1>3, <1>4 DEF Next

LEMMA TypesImplyTypeOK == TypeInv => TypeOK
<1> SUFFICES ASSUME TypeInv PROVE TypeOK
  OBVIOUS
<1>1. Past \subseteq Times
  BY PollingAssumption DEF TypeInv, WorldOK, Past, Times
<1>2. fetched \in Seq(Sensors \X Times)
  BY <1>1 DEF TypeInv, LoopOK
<1>3. QED
  BY <1>1, <1>2 DEF TypeOK, TypeInv, WorldOK, SourceOK, LoopOK, ServerOK, StageOK

(* Whatever the API publishes and whatever fails, all that the loop keeps  *)
(* is what it should be, and it never has readings to push while its       *)
(* source knows of no sensor.                                              *)
THEOREM TypeCorrect == Spec => []TypeOK
<1>1. Spec => []TypeInv
  BY InitTypes, NextTypes, PTL DEF Spec
<1>2. QED
  BY <1>1, TypesImplyTypeOK, PTL

-----------------------------------------------------------------------------
(* What has been pushed, and how far the last timestamps go.               *)
LEMMA InitCovered == Init => Covered /\ LastTaken /\ SharedLast
BY DEF Init, Covered, LastTaken, SharedLast, Never, Taken, SameKey

(* A step that pushes nothing and moves no last timestamp.                 *)
LEMMA NothingPushed ==
  ASSUME Inv, UNCHANGED <<kind, stored, parked, last, mayRepeat>>,
         stage' \notin {"start", "seed"} => stage \notin {"start", "seed"}
  PROVE  Covered' /\ LastTaken' /\ SharedLast'
BY DEF Inv, Covered, LastTaken, SharedLast, Taken, SameKey

LEMMA SeedCovered ==
  ASSUME Inv, Seed
  PROVE  Covered' /\ LastTaken' /\ SharedLast'
<1>1. PICK read \in SUBSET Sensors : SeedFrom(read) /\ (kind = "samen_meten" => read = {})
  <2>1. CASE kind \notin Seedable
    BY <2>1 DEF Seed
  <2>2. CASE kind \in Seedable
    BY <2>2, SeedChoice DEF Inv, Seedable
  <2>3. QED
    BY <2>1, <2>2
<1>2. /\ last' = [s \in Sensors |-> IF s \in read THEN Seeded(s) ELSE None]
      /\ mayRepeat' = mayRepeat \union (Sensors \ read) \union {o[1] : o \in parked}
  BY <1>1 DEF SeedFrom
<1>3. stored' = stored /\ parked' = parked /\ kind' = kind
  BY DEF Seed, server, upstream
<1>4. TypeInv /\ stored \subseteq Sensors \X Past /\ parked \subseteq Sensors \X Past
  BY DEF Inv, TypeInv, ServerOK
<1>5. LastTaken'
  <2>1. \A s \in Sensors : Seeded(s) # None => <<s, Seeded(s)>> \in stored
    BY <1>4, SeededProperties
  <2>2. \A s \in Sensors : s \in SameKey(s)
    BY SameKeyProperties
  <2>3. QED
    BY <1>2, <1>3, <2>1, <2>2 DEF LastTaken, Taken, SameKey
<1>6. ASSUME NEW o \in Taken
      PROVE  o[1] \in mayRepeat' \/ o[2] <= last'[o[1]]
  <2>1. CASE o \in parked
    BY <1>2, <2>1
  <2>2. CASE o \in stored /\ o[1] \in read
    <3>1. o[2] <= Seeded(o[1])
      BY <1>4, <2>2, SeededProperties
    <3>2. QED
      BY <1>2, <2>2, <3>1
  <2>3. CASE o \in stored /\ o[1] \notin read
    BY <1>2, <1>4, <2>3
  <2>4. QED
    BY <2>1, <2>2, <2>3 DEF Taken
<1>7. SharedLast'
  BY <1>1, <1>2, <1>3 DEF SharedLast, SameKey
<1>8. QED
  BY <1>3, <1>5, <1>6, <1>7 DEF Covered, Taken

LEMMA PushCovered ==
  ASSUME Inv, NEW sent \in SUBSET NewReadings, Push(sent)
  PROVE  Covered' /\ LastTaken' /\ SharedLast'
<1>1. /\ TypeInv /\ last \in [Sensors -> Past \union {None}] /\ Past \union {None} \subseteq Int
      /\ Taken \subseteq Sensors \X Past
  BY PollingAssumption DEF Inv, TypeInv, LoopOK, ServerOK, WorldOK, Taken, Past, None, Times
<1>2. /\ last' = Updated /\ mayRepeat' = mayRepeat \union Overtaken
      /\ Taken' = Taken \union NewReadings /\ kind' = kind
  BY DEF Push, Taken, upstream
<1>3. /\ Updated \in [Sensors -> Past \union {None}]
      /\ \A s \in Sensors : \/ Updated[s] = last[s]
                            \/ /\ Updated[s] > last[s]
                               /\ \E p \in SameKey(s) : <<p, Updated[s]>> \in NewReadings
      /\ \A r \in NewReadings : r[1] \in Overtaken \/ r[2] <= Updated[r[1]]
  BY <1>1, UpdatedTypes, UpdatedProperties DEF Inv
<1>4. LastTaken'
  BY <1>2, <1>3 DEF Inv, LastTaken, SameKey
<1>5. \A o \in Taken : o[1] \in mayRepeat \/ o[2] <= last[o[1]]
  BY DEF Inv, Covered, Push, Pushes
<1>6. ASSUME NEW o \in Taken
      PROVE  o[1] \in mayRepeat' \/ o[2] <= last'[o[1]]
  <2>1. CASE o[1] \in mayRepeat
    BY <1>2, <2>1
  <2>2. CASE o[2] <= last[o[1]]
    <3>1. o[1] \in Sensors /\ o[2] \in Int
      BY <1>1
    <3>2. last[o[1]] \in Int /\ Updated[o[1]] \in Int /\ Updated[o[1]] >= last[o[1]]
      <4>1. last[o[1]] \in Past \union {None} /\ Updated[o[1]] \in Past \union {None}
        BY <1>1, <1>3, <3>1
      <4>2. last[o[1]] \in Int /\ Updated[o[1]] \in Int
        BY <1>1, <4>1
      <4>3. Updated[o[1]] = last[o[1]] \/ Updated[o[1]] > last[o[1]]
        BY <1>3, <3>1
      <4>4. QED
        BY <4>2, <4>3
    <3>3. QED
      BY <1>2, <2>2, <3>1, <3>2
  <2>3. QED
    BY <1>5, <2>1, <2>2
<1>7. Covered'
  BY <1>2, <1>3, <1>6 DEF Covered
<1>8. SharedLast'
  <2>1. SUFFICES ASSUME NEW s \in Sensors, NEW p \in SameKey(s)
                 PROVE  Updated[p] = Updated[s]
    BY <1>2 DEF SharedLast, SameKey
  <2>2. p \in Sensors /\ SameKey(p) = SameKey(s) /\ last[p] = last[s]
    BY SameKeyProperties DEF Inv, SharedLast
  <2>3. NewOf(p) = NewOf(s)
    BY <2>2 DEF NewOf
  <2>4. QED
    BY <2>2, <2>3 DEF Updated
<1>9. QED
  BY <1>4, <1>7, <1>8

LEMMA PushRaisesCovered ==
  ASSUME Inv, PushRaises
  PROVE  Covered' /\ LastTaken' /\ SharedLast'
<1>1. PICK sent : /\ stored' = stored \union sent
                  /\ mayRepeat' = mayRepeat \union {r[1] : r \in sent}
  BY DEF PushRaises
<1>2. last' = last /\ Taken' = Taken \union sent /\ kind' = kind
  BY <1>1 DEF PushRaises, Taken, upstream
<1>3. \A o \in Taken : o[1] \in mayRepeat \/ o[2] <= last[o[1]]
  BY DEF Inv, Covered, PushRaises, Pushes
<1>4. QED
  BY <1>1, <1>2, <1>3 DEF Inv, Covered, LastTaken, SharedLast, SameKey

LEMMA RestartCovered ==
  ASSUME Inv, Restart
  PROVE  Covered' /\ LastTaken' /\ SharedLast'
BY DEF Restart, Clear, Covered, LastTaken, SharedLast, SameKey, Never

LEMMA NextInv == Inv /\ [Next]_vars => Inv'
<1> SUFFICES ASSUME Inv, [Next]_vars PROVE Inv'
  OBVIOUS
<1>1. TypeInv'
  BY NextTypes DEF Inv
<1>2. CASE World \/ UNCHANGED vars
  <2>1. UNCHANGED <<kind, stage, stored, parked, last, mayRepeat>>
    BY <1>2 DEF World, Tick, Appear, Publish, vars, upstream, loop, server
  <2>2. QED
    BY <1>1, <2>1, NothingPushed DEF Inv
<1>3. CASE RegisterEagerly \/ RegisterOnData
  <2>1. /\ UNCHANGED <<kind, stored, parked, last, mayRepeat>>
        /\ stage' \notin {"start", "seed"} => stage \notin {"start", "seed"}
    BY <1>3 DEF RegisterEagerly, RegisterOnData, upstream
  <2>2. QED
    BY <1>1, <2>1, NothingPushed DEF Inv
<1>4. CASE Seed
  BY <1>1, <1>4, SeedCovered DEF Inv
<1>5. CASE Discover \/ GoOn \/ TokenFails
  <2>1. UNCHANGED <<kind, stored, parked, last, mayRepeat>> /\ stage = "discover"
    BY <1>5 DEF Discover, GoOn, TokenFails, upstream, server
  <2>2. QED
    BY <1>1, <2>1, NothingPushed DEF Inv
<1>6. CASE FetchAll \/ FetchAllFails \/ EndFetch
           \/ \E s \in Sensors : Fetch(s) \/ FetchFails(s)
  <2>1. UNCHANGED <<kind, stored, parked, last, mayRepeat>> /\ stage = "fetch"
    BY <1>6 DEF FetchAll, FetchAllFails, EndFetch, Fetch, FetchFails, upstream, server
  <2>2. QED
    BY <1>1, <2>1, NothingPushed DEF Inv
<1>7. CASE PushOk \/ PushDeadLetters
  <2>1. \E sent \in SUBSET NewReadings : Push(sent)
    <3>1. {} \in SUBSET NewReadings
          /\ {r \in NewReadings : r[1] \in streams} \in SUBSET NewReadings
      OBVIOUS
    <3>2. QED
      BY <1>7, <3>1 DEF PushOk, PushDeadLetters
  <2>2. QED
    BY <1>1, <2>1, PushCovered DEF Inv
<1>8. CASE PushRaises
  BY <1>1, <1>8, PushRaisesCovered DEF Inv
<1>9. CASE DedupRaises \/ Wake
  <2>1. UNCHANGED <<kind, stored, parked, last, mayRepeat>> /\ stage \in {"push", "sleep"}
    BY <1>9 DEF DedupRaises, Wake, upstream, server
  <2>2. QED
    BY <1>1, <2>1, NothingPushed DEF Inv
<1>10. CASE Restart
  BY <1>1, <1>10, RestartCovered DEF Inv
<1>11. QED
  BY <1>2, <1>3, <1>4, <1>5, <1>6, <1>7, <1>8, <1>9, <1>10 DEF Next, StartUp, Ingest

LEMMA CoveredMeansNoRepeat == Inv => RepeatNeedsCause
<1> SUFFICES ASSUME Inv, stage = "push", NEW o \in NewReadings \intersect Taken
             PROVE  o[1] \in mayRepeat
  BY DEF RepeatNeedsCause
<1>1. o[1] \in mayRepeat \/ o[2] <= last[o[1]]
  BY DEF Inv, Covered
<1>2. o \in Sensors \X Past /\ o[2] > last[o[1]]
  BY NewProperties DEF Inv
<1>3. o[2] \in Int /\ last[o[1]] \in Int
  BY <1>2, PollingAssumption DEF Inv, TypeInv, LoopOK, WorldOK, Past, None, Times
<1>4. QED
  BY <1>1, <1>2, <1>3

LEMMA Invariance == Spec => []Inv
<1>1. Init => Inv
  BY InitTypes, InitCovered DEF Inv
<1>2. QED
  BY <1>1, NextInv, PTL DEF Spec

(* The loop pushes an observation it has pushed before only of a sensor    *)
(* whose position was lost: the seed did not cover it, a list came newest  *)
(* first, or a push raised after the server had taken it.                  *)
THEOREM RepeatsForCause == Spec => []RepeatNeedsCause
BY Invariance, CoveredMeansNoRepeat, PTL

-----------------------------------------------------------------------------
(* What the loop is going to push.  A step that leaves the list and the    *)
(* last timestamps alone only has to keep that the source will ask.        *)
WillGet(s, t) == stage \notin {"start", "seed"} /\ WillKnow(s) /\ WillAsk(s, t)

LEMMA KeepsList ==
  ASSUME NEW s \in Sensors, NEW t \in Times, Wanted(s, t), ~Excused(s, t),
         <<s, t>> \notin blank',
         UNCHANGED <<kind, fetched, last>>, pub[s] \subseteq pub'[s],
         WillGet(s, t) => WillGet(s, t)'
  PROVE  Wanted(s, t)'
<1>1. NewReadings' = NewReadings
  BY DEF NewReadings, NewOf, IsNew, SameKey
<1>2. <<s, t>> \notin Taken' /\ ~Stuck' /\ ~Stuck
  BY DEF Excused, GetsStuck, Wanted
<1>3. t \in pub[s] /\ \/ InFlight(<<s, t>>)
                      \/ /\ WillGet(s, t) /\ t > last[s]
                         /\ \A r \in NewReadings : r[1] = s => t > r[2]
  BY DEF Wanted, WillGet
<1>4. InFlight(<<s, t>>)' <=> InFlight(<<s, t>>)
  BY <1>1 DEF InFlight
<1>5. CASE InFlight(<<s, t>>)
  BY <1>2, <1>3, <1>4, <1>5 DEF Wanted
<1>6. CASE /\ WillGet(s, t) /\ t > last[s]
           /\ \A r \in NewReadings : r[1] = s => t > r[2]
  <2>1. /\ WillGet(s, t)' /\ t > last'[s] /\ t \in pub'[s]
        /\ \A r \in NewReadings' : r[1] = s => t > r[2]
    BY <1>1, <1>3, <1>6
  <2>2. QED
    BY <1>2, <2>1 DEF Wanted, WillGet
<1>7. QED
  BY <1>3, <1>5, <1>6

(* Between the fetches nothing but the position matters.                   *)
LEMMA AsksOutside ==
  ASSUME TypeInv, NEW s \in Sensors, NEW t \in Times, WillAsk(s, t),
         UNCHANGED <<kind, now, pub, listed, cursor>>, stage # "fetch", stage' # "fetch"
  PROVE  WillAsk(s, t)'
<1>1. kind \in AllKinds
  BY PollingAssumption DEF TypeInv, WorldOK
<1>2. \A u : Whole(u)' = Whole(u)
  BY DEF Whole
<1>3. From(s)' = From(s) \/ kind = "bro_groundwater"
  BY DEF From
<1>4. QED
  BY <1>1, <1>2, <1>3 DEF WillAsk, AllKinds, IsNewest, AskedNow, Whole

LEMMA WorldLoss ==
  ASSUME Inv, NEW s \in Sensors, NEW t \in Times, Wanted(s, t), ~Excused(s, t),
         <<s, t>> \notin blank',
         World
  PROVE  Wanted(s, t)'
<1>1. /\ TypeInv /\ kind \in AllKinds /\ now \in Nat /\ pub \in [Sensors -> SUBSET Past]
      /\ UNCHANGED <<kind, source, loop>>
  BY PollingAssumption DEF Inv, TypeInv, WorldOK, Times, World, Tick, Appear, Publish
<1>2. CASE Tick
  <2>1. kind \notin Windowed /\ cursor[s] # None /\ ~(kind = "bro_groundwater" /\ stage = "fetch")
    BY <1>1, <1>2 DEF Excused, TimePassed, Tick
  <2>2. kind \notin {"knmi_weather", "luchtmeetnet", "meet_je_stad"}
    BY <2>1 DEF Windowed
  <2>3. From(s)' = From(s) /\ (From(s) = cursor[s]) /\ Whole(cursor[s])' = Whole(cursor[s])
    BY <1>1, <2>1 DEF From, Whole, source
  <2>4. WillAsk(s, t) => WillAsk(s, t)'
    BY <1>1, <1>2, <2>1, <2>2, <2>3 DEF WillAsk, AllKinds, IsNewest, Tick, source, loop, Whole
  <2>5. WillGet(s, t) => WillGet(s, t)'
    BY <1>1, <2>4 DEF WillGet, WillKnow, source, loop
  <2>6. QED
    BY <1>1, <1>2, <2>5, KeepsList DEF Tick, loop
<1>3. ASSUME NEW u \in Sensors, Appear(u)
      PROVE  Wanted(s, t)'
  <2>1. UNCHANGED <<kind, now, pub, source, loop>>
    BY <1>3 DEF Appear
  <2>2. WillGet(s, t)' <=> WillGet(s, t)
    BY <2>1 DEF WillGet, WillKnow, WillAsk, IsNewest, AskedNow, Whole, From, source, loop
  <2>3. QED
    BY <2>1, <2>2, KeepsList DEF loop
<1>4. ASSUME NEW u \in Sensors, NEW w \in Times, Publish(u, w)
      PROVE  Wanted(s, t)'
  <2>1. pub[s] \subseteq pub'[s] /\ pub' # pub
    BY <1>1, <1>4 DEF Publish
  <2>2. kind \notin OneRequest
    BY <2>1 DEF Excused, Superseded
  <2>3. UNCHANGED <<now, kind, source, loop>>
    BY <1>4 DEF Publish
  <2>4. WillAsk(s, t)' <=> WillAsk(s, t)
    BY <1>1, <2>2, <2>3 DEF WillAsk, AllKinds, OneRequest, AskedNow, Whole, From, source, loop
  <2>5. WillGet(s, t)' <=> WillGet(s, t)
    BY <2>3, <2>4 DEF WillGet, WillKnow, source, loop
  <2>6. QED
    BY <2>1, <2>3, <2>5, KeepsList DEF loop
<1>5. QED
  BY <1>2, <1>3, <1>4 DEF World

(* What is published in time is asked for.                                 *)
LEMMA PublishedInTime ==
  ASSUME Inv, NEW s \in Sensors, NEW t \in Times, InTime(s, t), ~Excused(s, t),
         NEW u \in Sensors, NEW w \in Times, Publish(u, w)
  PROVE  Wanted(s, t)'
<1>1. /\ TypeInv /\ kind \in AllKinds /\ now \in Nat /\ now \in Past
      /\ UNCHANGED <<kind, now, source, loop, server>>
  BY PollingAssumption DEF Inv, TypeInv, WorldOK, Times, Past, Publish
<1>2. t = now /\ t \in pub'[s] /\ t \notin pub[s] /\ <<s, t>> \notin blank' /\ ~Unseen(s)
  BY DEF InTime
<1>3. kind \notin OneRequest
  BY <1>2 DEF Excused, Superseded
<1>4. /\ begun \in Past /\ last[s] \in Past \union {None} /\ cursor[s] \in Past \union {None}
      /\ fetched \in Seq(Sensors \X Past)
      /\ \A v \in Past : v \in Int /\ 0 <= v /\ v <= now
  BY <1>1 DEF TypeInv, LoopOK, SourceOK, Past
<1>5. \A v \in Int : Whole(v) \in Int /\ Whole(v) <= v
  BY WholeProperties
<1>6. WillAsk(s, t)
  <2>1. now - Window \in Int /\ now - Window < now /\ begun - Window \in Int /\ begun - Window < now
    <3>1. now \in Int /\ begun \in Int /\ begun <= now
      BY <1>1, <1>4
    <3>2. Window \in Int /\ 0 < Window
      BY PollingAssumption
    <3>3. QED
      BY <3>1, <3>2
  <2>2. CASE kind \in {"luchtmeetnet", "meet_je_stad"}
    <3>1. Whole(now - Window) \in Int /\ Whole(now - Window) <= now - Window
      BY <1>5, <2>1
    <3>2. now >= Whole(now - Window)
      BY <1>1, <2>1, <3>1
    <3>3. QED
      BY <1>2, <2>2, <3>2 DEF WillAsk
  <2>3. CASE kind = "bro_groundwater"
    <3>1. listed[s] # "none"
      BY <1>2 DEF Unseen
    <3>2. cursor[s] # None => cursor[s] \in Int /\ cursor[s] <= now
      BY <1>4
    <3>3. Whole(IF stage = "fetch" /\ s \notin todo THEN now
                ELSE IF cursor[s] # None THEN cursor[s]
                ELSE (IF stage = "fetch" THEN begun ELSE now) - Window) <= now
      <4> DEFINE x == IF stage = "fetch" /\ s \notin todo THEN now
                      ELSE IF cursor[s] # None THEN cursor[s]
                      ELSE (IF stage = "fetch" THEN begun ELSE now) - Window
      <4>1. x \in Int /\ x <= now
        BY <1>1, <2>1, <3>2
      <4> HIDE DEF x
      <4>2. Whole(x) \in Int /\ Whole(x) <= x
        BY <1>5, <4>1
      <4>3. Whole(x) <= now
        BY <1>1, <4>1, <4>2
      <4>4. QED
        BY <4>3 DEF x
    <3>4. QED
      BY <1>1, <1>2, <1>5, <2>1, <2>3, <3>1, <3>2, <3>3 DEF WillAsk
  <2>4. CASE kind \in {"levellog", "samen_meten"}
    <3>1. From(s) \in Int /\ From(s) <= now
          /\ (kind = "samen_meten" => From(s) < now)
      <4>1. CASE cursor[s] = None
        BY <1>1, <2>1, <2>4, <4>1 DEF From
      <4>2. CASE cursor[s] # None
        <5>1. From(s) = cursor[s] /\ cursor[s] \in Int /\ cursor[s] <= now
          BY <1>4, <4>2 DEF From
        <5>2. kind = "samen_meten" => cursor[s] # now
          BY <1>2 DEF Excused, ReadTooFar
        <5>3. QED
          BY <1>1, <5>1, <5>2
      <4>3. QED
        BY <4>1, <4>2
    <3>2. Whole(From(s)) \in Int /\ Whole(From(s)) <= From(s)
      BY <1>5, <3>1
    <3>3. Whole(From(s)) <= now /\ (kind = "samen_meten" => Whole(From(s)) < now)
      BY <1>1, <3>1, <3>2
    <3>4. QED
      BY <1>1, <1>2, <2>4, <3>2, <3>3 DEF WillAsk
  <2>5. QED
    BY <1>1, <1>3, <2>2, <2>3, <2>4 DEF AllKinds, OneRequest
<1>7. WillGet(s, t)'
  <2>1. WillGet(s, t)
    BY <1>2, <1>3, <1>6 DEF WillGet, WillKnow, Unseen
  <2>2. WillAsk(s, t)'
    BY <1>1, <1>3, <1>6 DEF WillAsk, AllKinds, OneRequest, AskedNow, Whole, From, source, loop
  <2>3. QED
    BY <1>1, <2>1, <2>2 DEF WillGet, WillKnow, source, loop
<1>8. ~Stuck' /\ <<s, t>> \notin Taken' /\ <<s, t>> \notin Taken
  BY <1>1, <1>2 DEF Unseen, Stuck, Incomparable, Excused, Taken, loop, server
<1>9. t > last[s]
  <2>1. last[s] # None => \E p \in SameKey(s) : <<p, last[s]>> \in Taken
    BY DEF Inv, LastTaken
  <2>2. last[s] # t
    <3>1. \A p \in SameKey(s) \ {s} : ~(<<p, last'[s]>> \in Taken' /\ last'[s] >= t)
      BY DEF Excused, Outpaced
    <3>2. last' = last /\ Taken' = Taken /\ t \in Nat /\ t # None
      BY <1>1, <1>2 DEF loop, server, Taken, None
    <3>3. ASSUME last[s] = t PROVE FALSE
      <4>1. PICK p \in SameKey(s) : <<p, t>> \in Taken
        BY <2>1, <3>2, <3>3
      <4>2. p # s
        BY <1>8, <4>1
      <4>3. t >= t
        BY <3>2
      <4>4. QED
        BY <3>1, <3>2, <3>3, <4>1, <4>2, <4>3
    <3>4. QED
      BY <3>3
  <2>3. last[s] \in Int /\ last[s] <= now
    <3>1. CASE last[s] = None
      BY <1>1, <3>1 DEF None
    <3>2. CASE last[s] \in Past
      BY <1>4, <3>2
    <3>3. QED
      BY <1>4, <3>1, <3>2
  <2>4. QED
    BY <1>1, <1>2, <2>2, <2>3
<1>10. NewReadings' = NewReadings
  BY <1>1 DEF NewReadings, NewOf, IsNew, SameKey, loop
<1>11. CASE <<s, t>> \in NewReadings
  BY <1>2, <1>8, <1>10, <1>11 DEF Wanted, InFlight
<1>12. CASE <<s, t>> \notin NewReadings
  <2>1. \A r \in NewReadings : r \in Sensors \X Past
    BY <1>1, NewProperties
  <2>2. \A r \in NewReadings : r[1] = s => t > r[2]
    <3> TAKE r \in NewReadings
    <3>1. r[2] \in Int /\ r[2] <= now /\ r = <<r[1], r[2]>>
      BY <1>4, <2>1
    <3>2. r[1] = s => r[2] # t
      BY <1>12, <3>1
    <3>3. QED
      BY <1>1, <1>2, <3>1, <3>2
  <2>3. last' = last
    BY <1>1 DEF loop
  <2>4. QED
    BY <1>2, <1>7, <1>8, <1>9, <1>10, <2>2, <2>3 DEF Wanted, WillGet
<1>13. QED
  BY <1>11, <1>12

(* Starting up.                                                            *)
LEMMA StartUpLoss ==
  ASSUME Inv, NEW s \in Sensors, NEW t \in Times, Wanted(s, t), ~Excused(s, t),
         <<s, t>> \notin blank',
         StartUp
  PROVE  Wanted(s, t)'
<1>1. TypeInv /\ UNCHANGED <<kind, now, pub, known, listed, cursor, fetched>>
      /\ stage # "fetch" /\ stage' # "fetch"
  BY DEF Inv, StartUp, RegisterEagerly, RegisterOnData, Seed, source, upstream
<1>2. WillAsk(s, t) => WillAsk(s, t)'
  BY <1>1, AsksOutside
<1>3. stage' \in {"start", "seed"} => stage \in {"start", "seed"}
  BY DEF StartUp, RegisterEagerly, RegisterOnData, Seed
<1>4. WillGet(s, t) => WillGet(s, t)'
  BY <1>1, <1>2, <1>3 DEF WillGet, WillKnow
<1>5. CASE RegisterEagerly \/ RegisterOnData
  BY <1>1, <1>4, <1>5, KeepsList DEF RegisterEagerly, RegisterOnData
<1>6. CASE Seed /\ stage = "seed"
  <2>1. fetched = <<>>
    BY <1>1, <1>6 DEF TypeInv, StageOK
  <2>2. NewReadings = {}
    BY <1>1, <2>1, NewProperties
  <2>3. QED
    BY <1>6, <2>2 DEF Wanted, InFlight
<1>7. CASE Seed /\ stage = "reseed"
  <2>1. last = Never /\ last[s] = None
    BY <1>1, <1>7 DEF TypeInv, StageOK, Never
  <2>2. last' \in [Sensors -> Past \union {None}]
    <3>1. PICK read \in SUBSET Sensors : SeedFrom(read)
      BY <1>1, <1>7, SeedChoice
    <3>2. QED
      BY <1>1, <3>1, SeededProperties DEF SeedFrom
  <2>3. Past \union {None} \subseteq Int /\ t \in Int
    BY <1>1, PollingAssumption DEF TypeInv, WorldOK, Past, None, Times
  <2>4. t > last'[s]
    <3>1. last'[s] \in Int
      BY <2>2, <2>3
    <3>2. ~(last'[s] >= t)
      BY <1>7 DEF Excused, SeededAgain
    <3>3. QED
      BY <2>3, <3>1, <3>2
  <2>5. fetched \in Seq(Sensors \X Past)
    BY <1>1 DEF TypeInv, LoopOK
  <2>6. \A i \in DOMAIN fetched : fetched[i] \in NewReadings
    <3>1. \A i \in DOMAIN fetched : fetched[i][2] > last[fetched[i][1]]
      <4>1. \A i \in DOMAIN fetched : fetched[i][1] \in Sensors /\ fetched[i][2] \in Nat
        BY <1>1, <2>5, PollingAssumption DEF TypeInv, WorldOK, Past, Times
      <4>2. QED
        BY <2>1, <4>1 DEF Never, None
    <3>2. QED
      BY <1>1, <3>1, NewProperties
  <2>7. \A r \in NewReadings' : r \in NewReadings
    BY <1>1, <2>6 DEF NewReadings, NewOf
  <2>8. <<s, t>> \in NewReadings => <<s, t>> \in NewReadings'
    <3>1. ASSUME <<s, t>> \in NewReadings PROVE <<s, t>> \in NewReadings'
      <4>1. PICK i \in DOMAIN fetched : <<s, t>> = fetched[i]
        BY <1>1, <3>1, NewProperties
      <4>2. QED
        <5>1. i \in NewOf(s)'
          <6>1. s \in SameKey(s)'
            BY <1>1 DEF SameKey
          <6>2. QED
            BY <1>1, <2>4, <4>1, <6>1 DEF NewOf, IsNew
        <5>2. QED
          BY <1>1, <4>1, <5>1 DEF NewReadings
    <3>2. QED
      BY <3>1
  <2>9. <<s, t>> \notin Taken' /\ ~Stuck' /\ t \in pub'[s]
    BY <1>1 DEF Excused, GetsStuck, Wanted
  <2>10. QED
    BY <1>4, <2>4, <2>7, <2>8, <2>9 DEF Wanted, InFlight, WillGet
<1>8. QED
  BY <1>5, <1>6, <1>7 DEF StartUp, Seed

(* Discovering.                                                            *)
LEMMA DiscoverLoss ==
  ASSUME Inv, NEW s \in Sensors, NEW t \in Times, Wanted(s, t), ~Excused(s, t),
         <<s, t>> \notin blank',
         Discover \/ GoOn \/ TokenFails
  PROVE  Wanted(s, t)'
<1>1. /\ TypeInv /\ kind \in AllKinds /\ stage = "discover"
      /\ t \in pub[s] /\ s \in exists
      /\ UNCHANGED <<kind, now, pub, listed, cursor, fetched, last>>
  <2>1. t \in pub[s]
    BY DEF Wanted
  <2>2. QED
    BY <2>1, PollingAssumption DEF Inv, TypeInv, WorldOK, Discover, GoOn, TokenFails, upstream,
       source
<1>2. WillKnow(s) => WillKnow(s)'
  <2>1. CASE Discover
    <3>1. CASE \E all \in FoundAll : Found(all)
      <4>1. PICK all \in FoundAll : known' = all
        BY <3>1 DEF Found
      <4>2. \/ s \in known'
            \/ kind # "meet_je_stad" /\ Cardinality(Things(exists)) > MaxKnown
        BY <1>1, <4>1, FoundAllProperties
      <4>3. s \in known'
        BY <1>1, <4>2 DEF Excused, HalfDiscovered
      <4>4. QED
        BY <4>3 DEF WillKnow
    <3>2. CASE (\E some \in FoundPartly : Found(some)) /\ Faulty
      <4>1. PICK some \in FoundPartly : known' = some
        BY <3>2 DEF Found
      <4>2. CASE kind \in {"luchtmeetnet", "samen_meten"}
        <5>1. faults' # faults
          BY <1>1, <3>2 DEF Faulty, TypeInv, ServerOK
        <5>2. s \in known'
          BY <1>1, <4>2, <5>1 DEF Excused, HalfDiscovered
        <5>3. QED
          BY <5>2 DEF WillKnow
      <4>3. CASE kind \in {"meet_je_stad", "bro_groundwater"}
        BY <4>1, <4>3 DEF FoundPartly, MeetJeStadSensors, BroWells, WillKnow
      <4>4. QED
        BY <2>1, <4>2, <4>3 DEF Discover, Discovering
    <3>3. QED
      BY <2>1, <3>1, <3>2 DEF Discover
  <2>2. CASE GoOn \/ TokenFails
    BY <1>1, <2>2 DEF GoOn, TokenFails, WillKnow, source
  <2>3. QED
    BY <2>1, <2>2
<1>3. \/ stage' = "sleep"
      \/ /\ stage' = "fetch" /\ begun' = now
         /\ todo' = IF kind \in OneRequest THEN Sensors ELSE known'
         /\ kind \in OneRequest \/ known' # {}
  BY DEF Discover, Discovering, GoOn, TokenFails, Found, Ask, GiveUp, AfterError, OneRequest, source
<1>4. WillKnow(s)' /\ WillAsk(s, t) => WillAsk(s, t)'
  <2>1. CASE stage' = "sleep"
    BY <1>1, <2>1, AsksOutside
  <2>2. CASE /\ stage' = "fetch" /\ begun' = now
             /\ todo' = IF kind \in OneRequest THEN Sensors ELSE known'
             /\ kind \in OneRequest \/ known' # {}
    <3>1. CASE kind \in {"ohnics", "sensor_community", "buienradar", "knmi_weather"}
      BY <1>1, <3>1 DEF WillAsk, IsNewest, Whole
    <3>2. CASE kind \in {"luchtmeetnet", "meet_je_stad"}
      BY <1>1, <3>2 DEF WillAsk, AskedNow, Whole
    <3>3. CASE kind = "bro_groundwater"
      <4>1. CASE s \in known'
        BY <1>1, <2>2, <3>3, <4>1 DEF WillAsk, Whole, OneRequest
      <4>2. QED
        BY <1>1, <2>2, <3>3, <4>1 DEF WillKnow, OneRequest
    <3>4. CASE kind \in {"levellog", "samen_meten"}
      BY <1>1, <3>4 DEF WillAsk, From, Whole
    <3>5. QED
      BY <1>1, <3>1, <3>2, <3>3, <3>4 DEF AllKinds
  <2>3. QED
    BY <1>3, <2>1, <2>2
<1>5. WillGet(s, t) => WillGet(s, t)'
  BY <1>2, <1>3, <1>4 DEF WillGet
<1>6. QED
  BY <1>1, <1>5, KeepsList

(* A request for a sensor that fails; the end of asking.                   *)
LEMMA FetchFailsLoss ==
  ASSUME Inv, NEW s \in Sensors, NEW t \in Times, Wanted(s, t), ~Excused(s, t),
         <<s, t>> \notin blank',
         NEW u \in Sensors, FetchFails(u)
  PROVE  Wanted(s, t)'
<1>1. /\ TypeInv /\ kind \in AllKinds /\ kind \notin OneRequest /\ stage = "fetch"
      /\ faults' # faults
      /\ UNCHANGED <<kind, now, pub, known, cursor, stage, begun, fetched, last>>
      /\ todo' = todo \ {u} /\ u \in todo
      /\ listed' = listed \/ (kind = "bro_groundwater" /\ listed' = [listed EXCEPT ![u] = "none"])
  BY PollingAssumption DEF Inv, TypeInv, WorldOK, ServerOK, FetchFails, Faulty, upstream
<1>2. CASE u = s
  <2>1. kind \in {"levellog", "samen_meten"}
    BY <1>1, <1>2 DEF Excused, RequestFailed, Windowed, AllKinds, OneRequest
  <2>2. WillGet(s, t) => WillGet(s, t)'
    BY <1>1, <2>1 DEF WillGet, WillKnow, WillAsk, From, Whole
  <2>3. QED
    BY <1>1, <2>2, KeepsList
<1>3. CASE u # s
  <2>1. listed'[s] = listed[s]
    BY <1>1, <1>3 DEF TypeInv, SourceOK
  <2>2. (s \in todo') <=> (s \in todo)
    BY <1>1, <1>3
  <2>3. WillGet(s, t) => WillGet(s, t)'
    BY <1>1, <2>1, <2>2 DEF WillGet, WillKnow, WillAsk, From, Whole, AskedNow, AllKinds, OneRequest
  <2>4. QED
    BY <1>1, <2>3, KeepsList
<1>4. QED
  BY <1>2, <1>3

LEMMA EndFetchLoss ==
  ASSUME Inv, NEW s \in Sensors, NEW t \in Times, Wanted(s, t), ~Excused(s, t),
         <<s, t>> \notin blank',
         EndFetch \/ FetchAllFails
  PROVE  Wanted(s, t)'
<1>1. /\ TypeInv /\ kind \in AllKinds /\ stage = "fetch" /\ stage' \in {"sleep", "push"}
      /\ UNCHANGED <<kind, now, pub, known, listed, fetched, last>>
  BY PollingAssumption DEF Inv, TypeInv, WorldOK, EndFetch, FetchAllFails, GiveUp, AfterError,
     upstream, source
<1>2. CASE EndFetch
  <2>1. todo = {} /\ cursor' = IF kind = "bro_groundwater" THEN [u \in Sensors |-> now] ELSE cursor
    BY <1>2 DEF EndFetch
  <2>2. CASE kind = "bro_groundwater"
    <3>1. cursor'[s] = now /\ now # None
      BY <1>1, <2>1, <2>2, PollingAssumption DEF TypeInv, WorldOK, Times, None
    <3>2. WillAsk(s, t) => WillAsk(s, t)'
      BY <1>1, <2>1, <2>2, <3>1 DEF WillAsk, Whole
    <3>3. QED
      BY <1>1, <3>2, KeepsList DEF WillGet, WillKnow
  <2>3. CASE kind # "bro_groundwater"
    <3>1. WillAsk(s, t) => WillAsk(s, t)'
      BY <1>1, <2>1, <2>3 DEF WillAsk, AllKinds, IsNewest, AskedNow, Whole, From
    <3>2. QED
      BY <1>1, <3>1, KeepsList DEF WillGet, WillKnow
  <2>4. QED
    BY <2>2, <2>3
<1>3. CASE FetchAllFails
  <2>1. kind \in OneRequest
    BY <1>3 DEF FetchAllFails
  <2>2. WillAsk(s, t) => WillAsk(s, t)'
    BY <1>1, <2>1 DEF WillAsk, OneRequest, IsNewest, Whole
  <2>3. QED
    BY <1>1, <2>2, KeepsList DEF WillGet, WillKnow
<1>4. QED
  BY <1>2, <1>3

(* What is not in the answer, and will be asked for, is later than all     *)
(* that is.                                                                *)
LEMMA AnswerBelow ==
  ASSUME TypeInv, stage = "fetch", kind \notin OneRequest,
         NEW s \in todo, NEW t \in pub[s], WillAsk(s, t), t \notin Answer(s)
  PROVE  /\ \A a \in Answer(s) : a < t
         /\ kind # "bro_groundwater"
         /\ kind \in {"luchtmeetnet", "meet_je_stad"} => t >= Whole(now - Window)
         /\ kind = "levellog" => t > Whole(now)
<1>1. /\ kind \in AllKinds /\ s \in Sensors /\ now \in Nat /\ begun \in Nat /\ begun <= now
      /\ pub[s] \subseteq Past /\ t \in Nat /\ t <= now
      /\ cursor[s] \in Past \union {None} /\ Past \union {None} \subseteq Int
      /\ \A v \in Past : v \in Nat /\ v <= now
  BY PollingAssumption DEF TypeInv, WorldOK, LoopOK, SourceOK, Times, Past, None
<1>2. \A v \in Int : Whole(v) \in Int
  BY WholeProperties
<1>3. CASE kind \in {"luchtmeetnet", "meet_je_stad"}
  <2>1. begun - Window \in Int /\ now - Window \in Int /\ begun - Window <= now - Window
    BY <1>1, PollingAssumption
  <2>2. /\ Whole(begun - Window) \in Int /\ Whole(now - Window) \in Int
        /\ Whole(begun - Window) <= Whole(now - Window) /\ Whole(begun) \in Int
    BY <1>1, <1>2, <2>1, WholeIsMonotonic
  <2>3. Answer(s) = Fresh(s, Whole(begun - Window), Whole(begun))
    BY <1>3 DEF Answer, LuchtmeetnetAnswer, MeetJeStadAnswer
  <2>4. ~(Whole(begun - Window) <= t /\ t <= Whole(begun))
    BY <2>3 DEF Fresh
  <2>5. t >= Whole(now - Window) \/ t \in Whole(begun - Window) .. Whole(begun)
    BY <1>3 DEF WillAsk
  <2>6. t > Whole(begun) /\ t >= Whole(now - Window)
    BY <1>1, <2>2, <2>4, <2>5
  <2>7. \A a \in Answer(s) : a \in Nat /\ a <= Whole(begun)
    BY <1>1, <2>3 DEF Fresh
  <2>8. QED
    BY <1>1, <1>3, <2>2, <2>6, <2>7
<1>4. CASE kind = "bro_groundwater"
  <2>1. Answer(s) = Fresh(s, Whole(From(s)), now)
    BY <1>4 DEF Answer, BroAnswer
  <2>2. t >= Whole(From(s))
    BY <1>4 DEF WillAsk, From
  <2>3. From(s) \in Int
    BY <1>1, <1>4, PollingAssumption DEF From
  <2>4. QED
    BY <1>1, <1>2, <2>1, <2>2, <2>3 DEF Fresh
<1>5. CASE kind = "levellog"
  <2>1. Answer(s) = Fresh(s, Whole(From(s)), Whole(now))
    BY <1>5 DEF Answer, LevellogAnswer
  <2>2. t >= Whole(From(s))
    BY <1>5 DEF WillAsk
  <2>3. From(s) \in Int /\ Whole(From(s)) \in Int /\ Whole(now) \in Int
    BY <1>1, <1>2, <1>5, PollingAssumption DEF From
  <2>4. t > Whole(now)
    BY <1>1, <2>1, <2>2, <2>3 DEF Fresh
  <2>5. \A a \in Answer(s) : a \in Nat /\ a <= Whole(now)
    BY <1>1, <2>1 DEF Fresh
  <2>6. QED
    BY <1>1, <1>5, <2>3, <2>4, <2>5
<1>6. CASE kind = "samen_meten"
  <2> DEFINE Since == {u \in pub[s] : u > Whole(From(s))}
             Before(v) == {u \in Since : u < v}
  <2>1. Answer(s) = {u \in Since : Cardinality(Before(u)) < Page}
    BY <1>6 DEF Answer, SamenMetenAnswer, SincePosition, FirstPage
  <2>2. t \in Since
    BY <1>6 DEF WillAsk
  <2>3. \A v : IsFiniteSet(Before(v)) /\ Cardinality(Before(v)) \in Nat
    <3>1. IsFiniteSet(Past)
      BY <1>1, FS_Interval DEF Past
    <3> TAKE v
    <3>2. Before(v) \subseteq Past
      BY <1>1
    <3> HIDE DEF Before
    <3>3. IsFiniteSet(Before(v))
      BY <3>1, <3>2, FS_Subset
    <3>4. QED
      BY <3>3, FS_CardinalityType
  <2>4. ~(Cardinality(Before(t)) < Page)
    BY <2>1, <2>2
  <2>5. \A a \in Answer(s) : a \in Nat /\ Cardinality(Before(a)) < Page
    BY <1>1, <2>1
  <2>6. ASSUME NEW a \in Answer(s), a >= t PROVE FALSE
    <3>1. Before(t) \subseteq Before(a)
      <4>1. a \in Nat /\ \A u \in Since : u \in Nat
        BY <1>1, <2>5
      <4>2. QED
        BY <1>1, <2>6, <4>1
    <3>2. Cardinality(Before(t)) <= Cardinality(Before(a))
      BY <2>3, <3>1, FS_Subset
    <3> HIDE DEF Since, Before
    <3>3. Cardinality(Before(a)) \in Nat /\ Cardinality(Before(t)) \in Nat
      BY <2>3
    <3>4. Cardinality(Before(a)) < Page /\ ~(Cardinality(Before(t)) < Page)
      BY <2>4, <2>5
    <3>5. QED
      BY <3>2, <3>3, <3>4, PollingAssumption
  <2> HIDE DEF Since, Before
  <2>7. \A a \in Answer(s) : a \in Nat /\ ~(a >= t)
    BY <2>5, <2>6
  <2>8. QED
    BY <1>1, <1>6, <2>7
<1>7. QED
  BY <1>1, <1>3, <1>4, <1>5, <1>6 DEF AllKinds, OneRequest

(* A fetch for another sensor, and for this one.                           *)
LEMMA FetchAppends ==
  ASSUME TypeInv, NEW u \in Sensors, Fetch(u)
  PROVE  /\ Len(fetched) \in Nat /\ DOMAIN fetched = 1 .. Len(fetched)
         /\ DOMAIN fetched \subseteq DOMAIN fetched'
         /\ \A i \in DOMAIN fetched : fetched'[i] = fetched[i]
         /\ \A i \in DOMAIN fetched' \ DOMAIN fetched : fetched'[i][1] = u
         /\ cursor' \in [Sensors -> Past \union {None}]
         /\ \A v \in Sensors \ {u} : cursor'[v] = cursor[v]
<1>1. /\ fetched \in Seq(Sensors \X Past) /\ Len(fetched) \in Nat
      /\ DOMAIN fetched = 1 .. Len(fetched)
      /\ cursor \in [Sensors -> Past \union {None}]
  BY DEF TypeInv, LoopOK, SourceOK
<1>2. ASSUME NEW times \in Seq(Past), NEW odd, odd \subseteq DOMAIN times, Read(u, times, odd)
      PROVE  /\ DOMAIN fetched \subseteq DOMAIN fetched'
             /\ \A i \in DOMAIN fetched : fetched'[i] = fetched[i]
             /\ \A i \in DOMAIN fetched' \ DOMAIN fetched : fetched'[i][1] = u
             /\ cursor' \in [Sensors -> Past \union {None}]
             /\ \A v \in Sensors \ {u} : cursor'[v] = cursor[v]
  <2>1. /\ fetched' \in Seq(Sensors \X Past) /\ Len(fetched') = Len(fetched) + Len(times)
        /\ \A i \in 1 .. Len(fetched) : fetched'[i] = fetched[i]
        /\ \A i \in 1 .. Len(times) : fetched'[Len(fetched) + i] = <<u, times[i]>>
        /\ cursor' \in [Sensors -> Past \union {None}]
        /\ \A v \in Sensors \ {u} : cursor'[v] = cursor[v]
    BY <1>2, ReadProperties
  <2>2. DOMAIN fetched' = 1 .. Len(fetched) + Len(times) /\ Len(times) \in Nat
    BY <2>1
  <2>3. ASSUME NEW i \in DOMAIN fetched' \ DOMAIN fetched PROVE fetched'[i][1] = u
    <3>1. i - Len(fetched) \in 1 .. Len(times) /\ i = Len(fetched) + (i - Len(fetched))
      BY <1>1, <2>2
    <3>2. fetched'[i] = <<u, times[i - Len(fetched)]>>
      BY <2>1, <3>1
    <3>3. QED
      BY <3>2
  <2>4. DOMAIN fetched \subseteq DOMAIN fetched'
    BY <1>1, <2>2
  <2>5. QED
    BY <1>1, <2>1, <2>3, <2>4
<1>3. CASE UNCHANGED <<fetched, clocked, cursor>>
  BY <1>1, <1>3
<1>4. CASE \E times \in Clean(u) : Read(u, times, {})
  BY <1>1, <1>2, <1>4, CleanProperties
<1>5. ASSUME NEW times \in Clean(u), NEW i \in DOMAIN times, NEW odd \in {{}, {i}},
             odd = {i} => Rows.undated = "clock", Read(u, WithUndated(times, i), odd)
      PROVE  /\ DOMAIN fetched \subseteq DOMAIN fetched'
             /\ \A k \in DOMAIN fetched : fetched'[k] = fetched[k]
             /\ \A k \in DOMAIN fetched' \ DOMAIN fetched : fetched'[k][1] = u
             /\ cursor' \in [Sensors -> Past \union {None}]
             /\ \A v \in Sensors \ {u} : cursor'[v] = cursor[v]
  <2>1. times \in Seq(Past)
    BY CleanProperties
  <2>2. WithUndated(times, i) \in Seq(Past)
        /\ (Rows.undated # "skipped" => Len(WithUndated(times, i)) = Len(times))
    BY <2>1, UndatedProperties
  <2>3. odd \subseteq DOMAIN WithUndated(times, i)
    BY <1>5, <2>1, <2>2
  <2>4. QED
    BY <1>2, <1>5, <2>2, <2>3
<1>6. CASE \E times \in Clean(u) : \E i \in DOMAIN times : \E odd \in {{}, {i}} :
             /\ odd = {i} => Rows.undated = "clock"
             /\ Read(u, WithUndated(times, i), odd)
  BY <1>1, <1>5, <1>6, Zenon
<1>7. QED
  BY <1>1, <1>3, <1>4, <1>6, FetchReads

(* A list that grows keeps what was new in it, and a reading is new by its *)
(* last timestamp alone.                                                   *)
LEMMA ListGrows ==
  ASSUME TypeInv, fetched' \in Seq(Sensors \X Past), UNCHANGED <<kind, last>>,
         DOMAIN fetched \subseteq DOMAIN fetched',
         \A i \in DOMAIN fetched : fetched'[i] = fetched[i]
  PROVE  /\ NewReadings \subseteq NewReadings'
         /\ \A r \in NewReadings' : \/ r \in NewReadings
                                    \/ \E i \in DOMAIN fetched' \ DOMAIN fetched : r = fetched'[i]
         /\ \A i \in DOMAIN fetched' :
              fetched'[i][2] > last[fetched'[i][1]] => fetched'[i] \in NewReadings'
<1>1. /\ \A i \in DOMAIN fetched' : fetched'[i] \in Sensors \X Past
      /\ \A i \in DOMAIN fetched : fetched[i] \in Sensors \X Past
  BY DEF TypeInv, LoopOK
<1>2. \A i : i \in UNION {NewOf(s) : s \in Sensors} <=>
               i \in DOMAIN fetched /\ fetched[i][2] > last[fetched[i][1]]
  BY <1>1, SameKeyProperties DEF NewOf, IsNew
<1>3. \A i : i \in UNION {NewOf(s)' : s \in Sensors} <=>
               i \in DOMAIN fetched' /\ fetched'[i][2] > last[fetched'[i][1]]
  <2>1. \A s \in Sensors : s \in SameKey(s)'
    BY DEF SameKey
  <2>2. \A s \in Sensors : \A i :
          i \in NewOf(s)' <=> /\ i \in DOMAIN fetched' /\ fetched'[i][1] \in SameKey(s)'
                             /\ fetched'[i][2] > last[fetched'[i][1]]
    BY DEF NewOf, IsNew
  <2>3. QED
    BY <1>1, <2>1, <2>2
<1>4. NewReadings = {fetched[i] : i \in UNION {NewOf(s) : s \in Sensors}}
  BY DEF NewReadings
<1>5. NewReadings' = {fetched'[i] : i \in UNION {NewOf(s)' : s \in Sensors}}
  BY DEF NewReadings
<1>6. QED
  BY <1>2, <1>3, <1>4, <1>5

(* A sensor whose answer was read has its readings in the list, or, where  *)
(* one answer does not bring all, is asked again.                          *)
LEMMA OtherFetchLoss ==
  ASSUME Inv, NEW s \in Sensors, NEW t \in Times, Wanted(s, t), ~Excused(s, t),
         <<s, t>> \notin blank',
         NEW u \in Sensors \ {s}, Fetch(u)
  PROVE  Wanted(s, t)'
<1>1. /\ TypeInv /\ kind \in AllKinds /\ kind \notin OneRequest /\ stage = "fetch"
      /\ UNCHANGED <<kind, now, pub, known, stage, begun, last>>
      /\ todo' = todo \ {u}
      /\ listed' = listed \/ listed' = [listed EXCEPT ![u] = "listed"]
  BY PollingAssumption DEF Inv, TypeInv, WorldOK, Fetch, upstream
<1>2. /\ fetched' \in Seq(Sensors \X Past) /\ DOMAIN fetched \subseteq DOMAIN fetched'
      /\ \A i \in DOMAIN fetched : fetched'[i] = fetched[i]
      /\ \A i \in DOMAIN fetched' \ DOMAIN fetched : fetched'[i][1] = u
      /\ cursor'[s] = cursor[s]
  <2>1. TypeInv' /\ Past' = Past
    BY <1>1, FetchTypes DEF Past
  <2>2. QED
    BY <1>1, <2>1, FetchAppends DEF TypeInv, LoopOK
<1>3. listed'[s] = listed[s] /\ ((s \in todo') <=> (s \in todo))
  BY <1>1 DEF TypeInv, SourceOK
<1>4. WillGet(s, t) => WillGet(s, t)'
  BY <1>1, <1>2, <1>3 DEF WillGet, WillKnow, WillAsk, From, Whole, AskedNow, AllKinds, OneRequest
<1>5. /\ NewReadings \subseteq NewReadings'
      /\ \A r \in NewReadings' : r \in NewReadings \/ r[1] = u
  BY <1>1, <1>2, ListGrows
<1>6. <<s, t>> \notin Taken' /\ ~Stuck' /\ t \in pub'[s]
  BY <1>1 DEF Excused, GetsStuck, Wanted
<1>7. CASE InFlight(<<s, t>>)
  BY <1>5, <1>6, <1>7 DEF Wanted, InFlight
<1>8. CASE /\ WillGet(s, t) /\ t > last[s]
           /\ \A r \in NewReadings : r[1] = s => t > r[2]
  <2>1. WillGet(s, t)' /\ t > last'[s] /\ \A r \in NewReadings' : r[1] = s => t > r[2]
    BY <1>1, <1>4, <1>5, <1>8
  <2>2. QED
    BY <1>6, <2>1 DEF Wanted, WillGet
<1>9. QED
  BY <1>7, <1>8 DEF Wanted, WillGet

LEMMA OwnFetchLoss ==
  ASSUME Inv, NEW s \in Sensors, NEW t \in Times, Wanted(s, t), ~Excused(s, t),
         <<s, t>> \notin blank', Fetch(s)
  PROVE  Wanted(s, t)'
<1>1. /\ TypeInv /\ kind \in AllKinds /\ kind \notin OneRequest /\ stage = "fetch" /\ s \in todo
      /\ UNCHANGED <<kind, now, pub, known, stage, begun, last>>
  BY PollingAssumption DEF Inv, TypeInv, WorldOK, Fetch, upstream
<1>2. /\ fetched' \in Seq(Sensors \X Past) /\ DOMAIN fetched \subseteq DOMAIN fetched'
      /\ Len(fetched) \in Nat /\ DOMAIN fetched = 1 .. Len(fetched)
      /\ \A i \in DOMAIN fetched : fetched'[i] = fetched[i]
      /\ \A i \in DOMAIN fetched' \ DOMAIN fetched : fetched'[i][1] = s
  <2>1. TypeInv' /\ Past' = Past
    BY <1>1, FetchTypes DEF Past
  <2>2. QED
    BY <1>1, <2>1, FetchAppends DEF TypeInv, LoopOK
<1>3. /\ NewReadings \subseteq NewReadings'
      /\ \A r \in NewReadings' : \/ r \in NewReadings
                                 \/ \E i \in DOMAIN fetched' \ DOMAIN fetched : r = fetched'[i]
      /\ \A i \in DOMAIN fetched' :
           fetched'[i][2] > last[fetched'[i][1]] => fetched'[i] \in NewReadings'
  BY <1>1, <1>2, ListGrows
<1>4. <<s, t>> \notin Taken' /\ ~Stuck' /\ t \in pub[s] /\ pub' = pub
  BY <1>1 DEF Excused, GetsStuck, Wanted
<1>5. CASE InFlight(<<s, t>>)
  BY <1>3, <1>4, <1>5 DEF Wanted, InFlight
<1>6. CASE /\ WillGet(s, t) /\ t > last[s]
           /\ \A r \in NewReadings : r[1] = s => t > r[2]
  <2>1. WillAsk(s, t) /\ WillKnow(s)'
    BY <1>1, <1>6 DEF WillGet, WillKnow
  <2>2. ASSUME UNCHANGED <<fetched, clocked, cursor>>, listed[s] = "none" PROVE FALSE
    BY <1>1, <2>1, <2>2 DEF TypeInv, SourceOK, WillAsk, AllKinds, OneRequest
  <2>3. ASSUME NEW times \in Clean(s), Read(s, times, {}) PROVE Wanted(s, t)'
    <3>1. /\ times \in Seq(Past) /\ DOMAIN times = 1 .. Len(times)
          /\ \A i \in DOMAIN times : times[i] \in Answer(s)
          /\ \A a \in Valued(s, Answer(s)) : \E i \in DOMAIN times : times[i] = a
      <4>1. ~(kind = "levellog" /\ Cardinality(Answer(s)) > Cap)
        BY <1>1 DEF Excused, AnswerCut
      <4>2. QED
        BY <1>1, <4>1, CleanProperties
    <3>2. /\ Len(fetched') = Len(fetched) + Len(times)
          /\ \A i \in 1 .. Len(times) : fetched'[Len(fetched) + i] = <<s, times[i]>>
          /\ cursor'[s] = IF times = <<>> \/ kind \notin {"samen_meten", "levellog"}
                          THEN cursor[s]
                          ELSE IF kind = "samen_meten" THEN Max(Range(times)) ELSE now
          /\ times # <<>> => Max(Range(times)) \in Range(times)
      BY <1>1, <2>3, <3>1, ReadProperties
    <3>3. CASE t \in Answer(s)
      <4>1. PICK i \in DOMAIN times : times[i] = t
        BY <3>1, <3>3 DEF Valued, Wanted
      <4>2. Len(fetched) + i \in DOMAIN fetched' /\ fetched'[Len(fetched) + i] = <<s, t>>
        BY <1>2, <3>1, <3>2, <4>1
      <4>3. <<s, t>> \in NewReadings'
        BY <1>3, <1>6, <4>2
      <4>4. QED
        BY <1>4, <4>3 DEF Wanted, InFlight
    <3>4. CASE t \notin Answer(s)
      <4>1. /\ \A a \in Answer(s) : a < t
            /\ kind # "bro_groundwater"
            /\ kind \in {"luchtmeetnet", "meet_je_stad"} => t >= Whole(now - Window)
            /\ kind = "levellog" => t > Whole(now)
        BY <1>1, <1>4, <2>1, <3>4, AnswerBelow
      <4>2. \A r \in NewReadings' : r[1] = s => t > r[2]
        <5>1. ASSUME NEW i \in DOMAIN fetched' \ DOMAIN fetched
              PROVE  t > fetched'[i][2]
          <6>1. i - Len(fetched) \in DOMAIN times /\ i = Len(fetched) + (i - Len(fetched))
            BY <1>2, <3>1, <3>2
          <6>2. fetched'[i] = <<s, times[i - Len(fetched)]>>
            BY <3>1, <3>2, <6>1
          <6>3. times[i - Len(fetched)] \in Answer(s) /\ times[i - Len(fetched)] < t
            BY <3>1, <4>1, <6>1
          <6>4. times[i - Len(fetched)] \in Int /\ t \in Int
            BY <1>1, <3>1, <6>1, PollingAssumption DEF Past, Times, TypeInv, WorldOK
          <6>5. QED
            BY <6>2, <6>3, <6>4
        <5>2. QED
          BY <1>3, <1>6, <5>1
      <4>3. WillAsk(s, t)'
        <5>1. CASE kind \in {"luchtmeetnet", "meet_je_stad"}
          BY <1>1, <4>1, <5>1 DEF WillAsk, Whole
        <5>2. CASE kind = "levellog"
          <6>1. Whole(now) \in Int /\ t \in Int /\ now # None
            BY <1>1, WholeProperties DEF TypeInv, WorldOK, Times, None
          <6>2. cursor'[s] \in {cursor[s], now}
            BY <3>2, <5>2
          <6>3. QED
            BY <1>1, <2>1, <4>1, <5>2, <6>1, <6>2 DEF WillAsk, From, Whole
        <5>3. CASE kind = "samen_meten"
          <6>1. CASE cursor'[s] = cursor[s]
            BY <1>1, <2>1, <5>3, <6>1 DEF WillAsk, From, Whole
          <6>2. CASE times # <<>> /\ cursor'[s] = Max(Range(times))
            <7>1. cursor'[s] \in Answer(s) /\ cursor'[s] \in Past
              BY <3>1, <3>2, <6>2 DEF Range
            <7>2. /\ cursor'[s] \in Nat /\ cursor'[s] < t /\ t \in Int
                  /\ Whole(cursor'[s]) \in Int /\ Whole(cursor'[s]) <= cursor'[s]
              BY <4>1, <7>1, WholeProperties DEF Past, Times
            <7>3. cursor'[s] # None /\ t > Whole(cursor'[s])
              BY <7>2 DEF None
            <7>4. QED
              BY <1>1, <5>3, <7>3 DEF WillAsk, From, Whole
          <6>3. QED
            BY <3>2, <5>3, <6>1, <6>2
        <5>4. QED
          BY <1>1, <4>1, <5>1, <5>2, <5>3 DEF AllKinds, OneRequest
      <4>4. QED
        BY <1>1, <1>4, <1>6, <2>1, <4>2, <4>3 DEF Wanted
    <3>5. QED
      BY <3>3, <3>4
  <2>4. ASSUME Faulty, NEW times \in Clean(s), NEW i \in DOMAIN times, NEW odd \in {{}, {i}},
               odd = {i} => Rows.undated = "clock", Read(s, WithUndated(times, i), odd)
        PROVE  Wanted(s, t)'
    <3> DEFINE w == WithUndated(times, i)
    <3>1. faults' # faults
      BY <1>1, <2>4 DEF Faulty, TypeInv, ServerOK
    <3>2. kind \in {"samen_meten", "levellog"}
      BY <1>1, <3>1 DEF Excused, RequestFailed, Windowed, AllKinds, OneRequest
    <3>3. /\ times \in Seq(Past) /\ w \in Seq(Past)
          /\ Rows.undated # "skipped" => Len(w) = Len(times)
      BY <1>1, CleanProperties, UndatedProperties
    <3>4. odd \subseteq DOMAIN w
      BY <2>4, <3>3
    <3> HIDE DEF w
    <3>5. /\ Len(fetched') = Len(fetched) + Len(w)
          /\ \A k \in 1 .. Len(w) : fetched'[Len(fetched) + k] = <<s, w[k]>>
          /\ cursor'[s] = IF w = <<>> \/ kind \notin {"samen_meten", "levellog"}
                          THEN cursor[s]
                          ELSE IF kind = "samen_meten" THEN Max(Range(w)) ELSE now
      <4>1. Read(s, w, odd)
        BY <2>4 DEF w
      <4>2. QED
        BY <1>1, <3>3, <3>4, <4>1, ReadProperties
    <3>6. w = <<>>
      <4>1. SUFFICES ASSUME Len(w) >= 1 PROVE FALSE
        BY <3>3
      <4>2. fetched'[Len(fetched) + 1] = <<s, w[1]>>
            /\ Len(fetched) + 1 \in (Len(fetched) + 1) .. Len(fetched')
        BY <1>2, <3>3, <3>5, <4>1
      <4>3. Unreadable(s)
        BY <1>1, <3>1, <4>2 DEF Unreadable
      <4>4. QED
        BY <4>3 DEF Excused
    <3>7. DOMAIN fetched' = DOMAIN fetched /\ cursor'[s] = cursor[s]
      BY <1>2, <3>5, <3>6
    <3>8. WillAsk(s, t)'
      BY <1>1, <2>1, <3>2, <3>7 DEF WillAsk, From, Whole
    <3>9. \A r \in NewReadings' : r[1] = s => t > r[2]
      BY <1>3, <1>6, <3>7
    <3>10. QED
      BY <1>1, <1>4, <1>6, <2>1, <3>8, <3>9 DEF Wanted
  <2>5. CASE /\ Faulty
             /\ \E times \in Clean(s) : \E i \in DOMAIN times : \E odd \in {{}, {i}} :
                  /\ odd = {i} => Rows.undated = "clock"
                  /\ Read(s, WithUndated(times, i), odd)
    BY <2>4, <2>5, Zenon
  <2>6. QED
    BY <1>1, <2>2, <2>3, <2>5, FetchReads
<1>7. QED
  BY <1>5, <1>6 DEF Wanted, WillGet

LEMMA FetchAllLoss ==
  ASSUME Inv, NEW s \in Sensors, NEW t \in Times, Wanted(s, t), ~Excused(s, t),
         <<s, t>> \notin blank', FetchAll
  PROVE  Wanted(s, t)'
<1>1. /\ TypeInv /\ kind \in OneRequest /\ stage = "fetch" /\ fetched = <<>> /\ s \in todo
      /\ UNCHANGED <<kind, now, pub, stage, last>>
  BY DEF Inv, TypeInv, StageOK, FetchAll, upstream
<1>2. NewReadings = {}
  BY <1>1 DEF NewReadings, NewOf
<1>3. <<s, t>> \notin Taken' /\ ~Stuck' /\ t \in pub'[s] /\ t \in pub[s]
  BY <1>1 DEF Excused, GetsStuck, Wanted
<1>4. WillKnow(s) /\ WillAsk(s, t) /\ t > last'[s] /\ t > last[s]
  BY <1>1, <1>2 DEF Wanted, InFlight
<1>5. WillKnow(s)' /\ WillAsk(s, t)'
  BY <1>1, <1>4 DEF WillKnow, WillAsk, OneRequest, IsNewest, Whole
<1>6. PICK spoilt \in SUBSET {v \in Sensors : Valued(v, Answer(v)) # {}} :
        /\ IF spoilt = {} THEN UNCHANGED bounds ELSE Faulty
        /\ fetched' \in SetToSeqs(Entries(spoilt))
  BY DEF FetchAll
<1>7. /\ fetched' \in Seq(Sensors \X Past)
      /\ s \notin spoilt =>
           \A a \in Valued(s, Answer(s)) : \E i \in DOMAIN fetched' : fetched'[i] = <<s, a>>
      /\ s \in spoilt =>
           \A a \in Valued(s, Answer(s)) : \E i \in DOMAIN fetched' : fetched'[i] = <<s, now>>
      /\ \A i \in DOMAIN fetched' :
           fetched'[i][1] \in spoilt \/ fetched'[i][2] \in Answer(fetched'[i][1])
  BY <1>1, <1>6, EntriesProperties
<1>8. /\ \A r \in NewReadings' : \E i \in DOMAIN fetched' : r = fetched'[i]
      /\ \A i \in DOMAIN fetched' :
           fetched'[i][2] > last[fetched'[i][1]] => fetched'[i] \in NewReadings'
  BY <1>1, <1>2, <1>7, ListGrows
<1>9. CASE s \in spoilt
  <2>1. faults' # faults
    BY <1>1, <1>6, <1>9 DEF Faulty, TypeInv, ServerOK
  <2>2. PICK i \in DOMAIN fetched' : fetched'[i] = <<s, now>>
    BY <1>6, <1>7, <1>9
  <2>3. i \in (Len(fetched) + 1) .. Len(fetched') /\ fetched'[i][1] = s
    BY <1>1, <1>7, <2>2
  <2>4. Unreadable(s)
    BY <1>1, <2>1, <2>3 DEF Unreadable
  <2>5. QED
    BY <2>4 DEF Excused
<1>10. CASE s \notin spoilt /\ t \in Answer(s)
  <2>1. PICK i \in DOMAIN fetched' : fetched'[i] = <<s, t>>
    BY <1>7, <1>10 DEF Valued, Wanted
  <2>2. <<s, t>> \in NewReadings'
    BY <1>4, <1>8, <2>1
  <2>3. QED
    BY <1>3, <2>2 DEF Wanted, InFlight
<1>11. CASE s \notin spoilt /\ t \notin Answer(s)
  <2>1. IsNewest(s, t)
    BY <1>1, <1>4 DEF WillAsk, OneRequest
  <2>2. kind = "knmi_weather"
    BY <1>1, <1>3, <1>11, <2>1 DEF OneRequest, Answer, OhnicsAnswer, SensorCommunityAnswer,
       BuienradarAnswer, Newest, IsNewest
  <2>3. now \in Int /\ Whole(now) \in Int /\ \A a \in Past : a \in Int
    BY <1>1, WholeProperties, PollingAssumption DEF TypeInv, WorldOK, Times, Past
  <2>4. t \in Int /\ t >= Whole(now) - Window
    BY <1>1, <1>4, <2>2, PollingAssumption DEF WillAsk, OneRequest, Times
  <2>5. Answer(s) = Newest(Fresh(s, Whole(now) - Window, Whole(now)))
    BY <2>2 DEF Answer, KnmiAnswer
  <2>6. ~(t <= Whole(now))
    BY <1>3, <1>11, <2>1, <2>4, <2>5 DEF Newest, Fresh, IsNewest
  <2>7. \A a \in Answer(s) : a < t
    <3>1. \A a \in Answer(s) : a \in Past /\ a <= Whole(now)
      BY <1>1, <2>5, AnswerProperties DEF Newest, Fresh
    <3>2. QED
      BY <2>3, <2>4, <2>6, <3>1
  <2>8. ASSUME NEW r \in NewReadings', r[1] = s PROVE t > r[2]
    <3>1. PICK i \in DOMAIN fetched' : r = fetched'[i]
      BY <1>8
    <3>2. r[2] \in Answer(s) /\ r[2] \in Past
      BY <1>1, <1>7, <1>11, <2>8, <3>1, AnswerProperties
    <3>3. QED
      BY <2>3, <2>4, <2>7, <3>2
  <2>9. QED
    BY <1>1, <1>3, <1>4, <1>5, <2>8 DEF Wanted
<1>12. QED
  BY <1>9, <1>10, <1>11

(* Pushing, and the steps after it.                                        *)
LEMMA PushLoss ==
  ASSUME Inv, NEW s \in Sensors, NEW t \in Times, Wanted(s, t), ~Excused(s, t),
         <<s, t>> \notin blank',
         NEW sent \in SUBSET NewReadings, Push(sent)
  PROVE  Wanted(s, t)'
<1>1. /\ TypeInv /\ stage = "push" /\ stage' = "sleep" /\ fetched' = <<>> /\ last' = Updated
      /\ UNCHANGED <<kind, now, pub, known, listed, cursor>>
      /\ Taken' = Taken \union NewReadings
  BY DEF Inv, Push, Pushes, Clear, upstream, source, Taken
<1>2. <<s, t>> \notin Taken' /\ ~Stuck' /\ t \in pub'[s]
  BY <1>1 DEF Excused, GetsStuck, Wanted
<1>3. WillKnow(s) /\ WillAsk(s, t) /\ t > last[s] /\ \A r \in NewReadings : r[1] = s => t > r[2]
  BY <1>1, <1>2 DEF Wanted, InFlight
<1>4. WillKnow(s)' /\ WillAsk(s, t)'
  BY <1>1, <1>3, AsksOutside DEF WillKnow
<1>5. t > last'[s]
  <2>1. \/ Updated[s] = last[s]
        \/ \E p \in SameKey(s) : <<p, Updated[s]>> \in NewReadings
    BY <1>1, UpdatedProperties DEF Inv
  <2>2. \A p \in SameKey(s) \ {s} : ~(<<p, last'[s]>> \in Taken' /\ last'[s] >= t)
    BY DEF Excused, Outpaced
  <2>3. Updated[s] \in Int /\ t \in Int
    <3>1. Updated[s] \in Past \union {None} /\ now \in Nat
      BY <1>1, UpdatedTypes, PollingAssumption DEF TypeInv, WorldOK, Times
    <3>2. QED
      BY <3>1, PollingAssumption DEF Past, None, Times
  <2>4. CASE Updated[s] = last[s]
    BY <1>1, <1>3, <2>4
  <2>5. ASSUME NEW p \in SameKey(s), <<p, Updated[s]>> \in NewReadings
        PROVE  t > last'[s]
    <3>1. CASE p = s
      BY <1>1, <1>3, <2>5, <3>1
    <3>2. CASE p # s
      BY <1>1, <2>2, <2>3, <2>5, <3>2
    <3>3. QED
      BY <3>1, <3>2
  <2>6. QED
    BY <2>1, <2>4, <2>5
<1>6. NewReadings' = {}
  BY <1>1 DEF NewReadings, NewOf
<1>7. QED
  BY <1>1, <1>2, <1>4, <1>5, <1>6 DEF Wanted

LEMMA AfterFetchLoss ==
  ASSUME Inv, NEW s \in Sensors, NEW t \in Times, Wanted(s, t), ~Excused(s, t),
         <<s, t>> \notin blank',
         PushOk \/ PushDeadLetters \/ PushRaises \/ DedupRaises \/ Wake \/ Restart
  PROVE  Wanted(s, t)'
<1>1. CASE PushOk \/ PushDeadLetters
  BY <1>1, PushLoss DEF PushOk, PushDeadLetters
<1>2. CASE PushRaises
  BY <1>2 DEF PushRaises, Pushes, Faulty, Inv, TypeInv, ServerOK, Excused, CycleRaised
<1>3. CASE DedupRaises
  BY <1>3 DEF DedupRaises, Wanted, Stuck
<1>4. CASE Wake
  <2>1. TypeInv /\ UNCHANGED <<kind, now, pub, known, listed, cursor, fetched, last>>
        /\ stage = "sleep" /\ stage' = "discover"
    BY <1>4 DEF Inv, Wake, upstream, source
  <2>2. WillGet(s, t) => WillGet(s, t)'
    BY <2>1, AsksOutside DEF WillGet, WillKnow
  <2>3. QED
    BY <2>1, <2>2, KeepsList
<1>5. CASE Restart
  BY <1>5 DEF Restart, Inv, TypeInv, ServerOK, Excused, Restarted
<1>6. QED
  BY <1>1, <1>2, <1>3, <1>4, <1>5

(* Only an observation that is published is new to the source's API.       *)
LEMMA OnlyPublished ==
  ASSUME Inv, NEW s \in Sensors, NEW t \in Times, InTime(s, t), [Next]_vars
  PROVE  \E u \in Sensors : \E w \in Times : Publish(u, w)
<1>1. pub' # pub
  BY DEF InTime
<1>2. QED
  BY <1>1 DEF Next, World, Tick, Appear, StartUp, RegisterEagerly, RegisterOnData, Seed,
     Ingest, Discover, GoOn, TokenFails, Fetch, FetchFails, FetchAll, FetchAllFails, EndFetch,
     PushOk, PushDeadLetters, Push, PushRaises, DedupRaises, Wake, Restart, upstream, vars

(* A row that has come with a value has it.                                *)
LEMMA StillValued ==
  ASSUME Inv, [Next]_vars, NEW s \in Sensors, NEW t \in Times, Wanted(s, t)
  PROVE  <<s, t>> \notin blank'
<1>1. t \in pub[s] /\ <<s, t>> \notin blank
  BY DEF Wanted
<1>2. ASSUME NEW u \in Sensors, NEW w \in Times, Publish(u, w)
      PROVE  <<s, t>> \notin blank'
  BY <1>1, <1>2 DEF Publish
<1>3. CASE UNCHANGED blank
  BY <1>1, <1>3
<1>4. UNCHANGED blank \/ \E u \in Sensors : \E w \in Times : Publish(u, w)
  BY DEF Next, World, Tick, Appear, StartUp, RegisterEagerly, RegisterOnData, Seed,
     Ingest, Discover, GoOn, TokenFails, Fetch, FetchFails, FetchAll, FetchAllFails, EndFetch,
     PushOk, PushDeadLetters, Push, PushRaises, DedupRaises, Wake, Restart, upstream, vars
<1>5. QED
  BY <1>2, <1>3, <1>4

LEMMA LossStep ==
  Inv /\ [Next]_vars =>
    \A s \in Sensors, t \in Times :
      (Wanted(s, t) \/ InTime(s, t)) /\ ~Wanted(s, t)' => Excused(s, t)
<1> SUFFICES ASSUME Inv, [Next]_vars, NEW s \in Sensors, NEW t \in Times, ~Excused(s, t),
                    Wanted(s, t) \/ InTime(s, t)
             PROVE  Wanted(s, t)'
  OBVIOUS
<1>1. CASE InTime(s, t)
  BY <1>1, OnlyPublished, PublishedInTime
<1>2. CASE Wanted(s, t)
  <2>0. <<s, t>> \notin blank'
    BY <1>2, StillValued
  <2>1. CASE World
    BY <1>2, <2>0, <2>1, WorldLoss
  <2>2. CASE StartUp
    BY <1>2, <2>0, <2>2, StartUpLoss
  <2>3. CASE Discover \/ GoOn \/ TokenFails
    BY <1>2, <2>0, <2>3, DiscoverLoss
  <2>4. ASSUME NEW u \in Sensors, Fetch(u) PROVE Wanted(s, t)'
    BY <1>2, <2>0, <2>4, OtherFetchLoss, OwnFetchLoss
  <2>5. ASSUME NEW u \in Sensors, FetchFails(u) PROVE Wanted(s, t)'
    BY <1>2, <2>0, <2>5, FetchFailsLoss
  <2>6. CASE FetchAll
    BY <1>2, <2>0, <2>6, FetchAllLoss
  <2>7. CASE EndFetch \/ FetchAllFails
    BY <1>2, <2>0, <2>7, EndFetchLoss
  <2>8. CASE PushOk \/ PushDeadLetters \/ PushRaises \/ DedupRaises \/ Wake \/ Restart
    BY <1>2, <2>0, <2>8, AfterFetchLoss
  <2>9. CASE UNCHANGED vars
    <3>1. UNCHANGED <<kind, now, pub, known, listed, cursor, stage, todo, begun, fetched, last>>
      BY <2>9 DEF vars, upstream, source, loop
    <3>2. WillGet(s, t) => WillGet(s, t)'
      BY <3>1 DEF WillGet, WillKnow, WillAsk, IsNewest, AskedNow, From, Whole
    <3>3. QED
      BY <1>2, <2>0, <3>1, <3>2, KeepsList
  <2>10. QED
    BY <2>1, <2>2, <2>3, <2>4, <2>5, <2>6, <2>7, <2>8, <2>9 DEF Next, Ingest
<1>3. QED
  BY <1>1, <1>2

(* An observation that the loop was still going to push, or that is        *)
(* published in time for a sensor the source has seen, is given up only    *)
(* for one of the causes that Excused names.                               *)
THEOREM LossesForCause == Spec => LossNeedsCause
BY Invariance, LossStep, PTL DEF LossNeedsCause, Spec
=============================================================================
