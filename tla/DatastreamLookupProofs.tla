----------------------- MODULE DatastreamLookupProofs -----------------------
(***************************************************************************)
(* What DatastreamLookup guarantees for every set of readings, datastreams *)
(* and threads.                                                            *)
(***************************************************************************)
EXTENDS DatastreamLookup, SequenceTheorems, FiniteSetTheorems, WellFoundedInduction,
        TLAPS

(* The types of the jobs, and what goes with each stage.                   *)
Bys == {<<>>, <<"map">>, <<"open">>, <<"raised">>, <<"asked">>}
         \union {<<"miss", m>> : m \in 1 .. TTL} \union Keys

Fors   == {"nothing", "push", "monitor", "bridge"}
Stages == {"idle", "begin", "cache", "miss", "drop", "ask", "done"}

JobType == [for : Fors, at : Stages, r : Readings \union {None}, n : Nat,
            pushed : Streams \union {None}, id : Streams \union {None}, by : Bys,
            own : BOOLEAN, failed : BOOLEAN, raced : BOOLEAN, moved : BOOLEAN]

Running(j) == j.at \in {"cache", "miss", "drop", "ask"}

Placed(j) ==
  /\ j.at = "idle" => j.for = "nothing"
  /\ j.at # "idle" => warm /\ j.r \in Readings /\ j.for # "nothing"
  /\ j.at = "begin" => ~j.own
  /\ j.at = "ask" => j.n \in 1 .. Len(Queries(j.r))

SharedOK ==
  /\ role \in Roles /\ live \subseteq Streams /\ warm \in BOOLEAN
  /\ idMap \in [Names -> Streams \union {None}]
  /\ hits \in [Keys -> Streams \union {None}]
  /\ misses \in [Keys -> Absent .. TTL]
  /\ soft \subseteq Keys
  /\ deletions \in 0 .. MaxDeletions /\ faults \in 0 .. MaxFaults

TypeInv ==
  /\ SharedOK
  /\ job \in [Threads -> JobType]
  /\ \A t \in Threads : Placed(job[t])

(* A job on which nothing was changed finds what the caches still say.     *)
Same(r, s) == Mapped("push", r) = s \/ (Mapped("push", r) = None /\ Hit(r) = s)

Agrees(j) ==
  /\ Running(j) /\ ~j.moved => Mapped(j.for, j.r) = None
  /\ j.for = "push" /\ j.at = "done" /\ j.id # None /\ ~j.moved => Same(j.r, j.id)
  /\ j.for = "monitor" /\ j.pushed # None /\ ~j.moved =>
       /\ j.at \in {"begin", "cache", "done"}
       /\ Same(j.r, j.pushed)
       /\ j.at = "done" => j.id = j.pushed

AgreeInv == TypeInv /\ \A t \in Threads : Agrees(job[t])

(* What a search has established so far.                                   *)
Searched(j) ==
  /\ j.at = "drop" => misses[MissKey(j.r)] # Absent \/ j.raced
  /\ Running(j) /\ j.own /\ ~j.moved => live \intersect Own(j.r) # {}
  /\ j.at = "ask" /\ j.own /\ ~j.moved /\ ~j.failed =>
       \A i \in 1 .. j.n - 1 : Matches(Queries(j.r)[i]) = {}

EmptyHanded(j) ==
  j.at = "done" /\ j.id = None /\ j.own =>
    \/ j.failed \/ j.moved \/ j.raced
    \/ j.by[1] = "miss" /\ j.by[2] > 0

SearchInv == TypeInv /\ \A t \in Threads : Searched(job[t]) /\ EmptyHanded(job[t])

(* Where the entries of the caches and the ids come from.                  *)
AsksForKey(q) == q.under[3] = "key"

MapIsOwn ==
  /\ \A n \in Names : Nameless(n) => idMap[n] = None
  /\ \A r \in Readings : idMap[DsKey(r)] # None => idMap[DsKey(r)] \in Own(r)

HitsAreOwn ==
  \A k \in Keys \ soft : hits[k] # None =>
    \A r \in Readings : k \in Range(KeysOf[r]) => hits[k] \in Own(r)

Traced(j) ==
  j.at = "done" /\ j.id # None =>
    IF j.by = <<"map">> THEN j.moved \/ j.id = Mapped(j.for, j.r)
    ELSE j.by \in soft \/ j.id \in Own(j.r)

TraceInv ==
  /\ SearchInv /\ MapIsOwn /\ HitsAreOwn
  /\ \A t \in Threads : Traced(job[t])

(* What the queries find: a reading's own datastreams answer to one of     *)
(* them; to one that asks for the stream key, before any asks for the      *)
(* property; and what is found by stream key belongs to every reading it   *)
(* is cached for.                                                          *)
QueriesFindOwn ==
  \A r \in Readings : \A s \in Own(r) :
    \E i \in DOMAIN Queries(r) : Fits(s, Queries(r)[i])

KeysFindOwn ==
  \A r \in Readings : \A s \in Own(r) :
    \E i \in DOMAIN Queries(r) :
      Fits(s, Queries(r)[i]) /\ \A m \in 1 .. i : AsksForKey(Queries(r)[m])

KeysFindOnlyOwn ==
  \A r, other \in Readings : \A i \in DOMAIN Queries(r) : \A s \in Streams :
    /\ AsksForKey(Queries(r)[i]) /\ Fits(s, Queries(r)[i])
    /\ Queries(r)[i].under \in Range(KeysOf[other])
    => s \in Own(other)

-----------------------------------------------------------------------------
(* The queries of a reading, and the keys they are cached under.           *)
AnyQuery(r) ==
  (IF r.device = "" THEN {}
   ELSE {Query(r, "device", "key", "key"), Query(r, "device", "prop", "prop")})
  \union
  (IF r.thing = "" THEN {}
   ELSE {Query(r, "thing", "key", "key"), Query(r, "thing", "key", "prop"),
         Query(r, "thing", "prop", "prop")})

LEMMA PairOrTriple ==
  ASSUME NEW S, NEW p \in BOOLEAN, NEW q \in BOOLEAN, p \/ q,
         NEW a, NEW b, NEW e, NEW f, NEW g,
         p => a \in S /\ b \in S, q => e \in S /\ f \in S /\ g \in S,
         NEW x, x = (IF p THEN <<a, b>> ELSE <<>>) \o (IF q THEN <<e, f, g>> ELSE <<>>)
  PROVE  /\ x \in Seq(S) /\ Len(x) \in Nat /\ Len(x) >= 2
         /\ p => x[1] = a /\ x[2] = b
         /\ ~p => x[1] = e /\ x[2] = f
         /\ q => \E i \in 1 .. Len(x) : x[i] = g
<1>1. <<>> \in Seq(S) /\ Len(<<>>) = 0
  OBVIOUS
<1>2. PICK d : d = IF p THEN <<a, b>> ELSE <<>>
  OBVIOUS
<1>3. PICK h : h = IF q THEN <<e, f, g>> ELSE <<>>
  OBVIOUS
<1>4. x = d \o h
  BY <1>2, <1>3
<1>5. p => d \in Seq(S) /\ Len(d) = 2 /\ d[1] = a /\ d[2] = b
  BY <1>2
<1>6. q => h \in Seq(S) /\ Len(h) = 3 /\ h[1] = e /\ h[2] = f /\ h[3] = g
  BY <1>3
<1>7. (~p => d = <<>>) /\ (~q => h = <<>>)
  BY <1>2, <1>3
<1>8. d \in Seq(S) /\ h \in Seq(S)
  BY <1>1, <1>5, <1>6, <1>7
<1>9. /\ x \in Seq(S) /\ Len(x) = Len(d) + Len(h)
      /\ \A i \in 1 .. Len(d) + Len(h) :
           x[i] = IF i <= Len(d) THEN d[i] ELSE h[i - Len(d)]
  <2>1. /\ d \o h \in Seq(S) /\ Len(d \o h) = Len(d) + Len(h)
        /\ \A i \in 1 .. Len(d) + Len(h) :
             (d \o h)[i] = IF i <= Len(d) THEN d[i] ELSE h[i - Len(d)]
    BY <1>8, ConcatProperties
  <2>2. QED
    BY <1>4, <2>1
<1>10. PICK m, n : m = Len(d) /\ n = Len(h)
  OBVIOUS
<1>11. /\ (p => m = 2) /\ (~p => m = 0) /\ (q => n = 3) /\ (~q => n = 0)
  BY <1>1, <1>5, <1>6, <1>7, <1>10
<1>12. /\ x \in Seq(S) /\ Len(x) = m + n
       /\ \A i \in 1 .. m + n : x[i] = IF i <= m THEN d[i] ELSE h[i - m]
  BY <1>9, <1>10
<1>13. CASE p /\ q
  <2>1. m = 2 /\ n = 3
    BY <1>11, <1>13
  <2>2. m + n = 5
    BY <2>1
  <2>3. x[1] = d[1] /\ x[2] = d[2] /\ x[5] = h[3]
    BY <1>12, <2>1
  <2>4. QED
    BY <1>5, <1>6, <1>12, <1>13, <2>2, <2>3
<1>14. CASE p /\ ~q
  <2>1. m = 2 /\ n = 0
    BY <1>11, <1>14
  <2>2. m + n = 2
    BY <2>1
  <2>3. x[1] = d[1] /\ x[2] = d[2]
    BY <1>12, <2>1
  <2>4. QED
    BY <1>5, <1>12, <1>14, <2>2, <2>3
<1>15. CASE ~p
  <2>1. m = 0 /\ n = 3 /\ q
    BY <1>11, <1>15
  <2>2. m + n = 3
    BY <2>1
  <2>3. x[1] = h[1] /\ x[2] = h[2] /\ x[3] = h[3]
    <3>1. \A i \in {1, 2, 3} : i \in 1 .. m + n /\ ~(i <= m) /\ i - m = i
      BY <2>1
    <3>2. \A i \in {1, 2, 3} : x[i] = h[i]
      BY <1>12, <3>1
    <3>3. QED
      BY <3>2
  <2>4. QED
    BY <1>6, <1>12, <1>15, <2>1, <2>2, <2>3
<1>16. QED
  BY <1>13, <1>14, <1>15

LEMMA QueriesInOrder ==
  ASSUME NEW r \in Readings
  PROVE  /\ Queries(r) \in Seq(AnyQuery(r))
         /\ Len(Queries(r)) \in Nat /\ Len(Queries(r)) >= 2
         /\ r.device # "" => /\ Queries(r)[1] = Query(r, "device", "key", "key")
                             /\ Queries(r)[2] = Query(r, "device", "prop", "prop")
         /\ r.device = "" => /\ Queries(r)[1] = Query(r, "thing", "key", "key")
                             /\ Queries(r)[2] = Query(r, "thing", "key", "prop")
         /\ r.thing # "" =>
              \E i \in 1 .. Len(Queries(r)) : Queries(r)[i] = Query(r, "thing", "prop", "prop")
<1> DEFINE a == Query(r, "device", "key", "key")  b == Query(r, "device", "prop", "prop")
           e == Query(r, "thing", "key", "key")   f == Query(r, "thing", "key", "prop")
           g == Query(r, "thing", "prop", "prop") S == AnyQuery(r)
           x == Queries(r)
<1>1. PICK p \in BOOLEAN, q \in BOOLEAN : p = (r.device # "") /\ q = (r.thing # "")
  OBVIOUS
<1>2. p \/ q
  BY <1>1, LookupAssumption
<1>3. (p => a \in S /\ b \in S) /\ (q => e \in S /\ f \in S /\ g \in S)
  BY <1>1 DEF AnyQuery
<1>4. x = (IF p THEN <<a, b>> ELSE <<>>) \o (IF q THEN <<e, f, g>> ELSE <<>>)
  BY <1>1 DEF Queries
<1> HIDE DEF a, b, e, f, g, S, x
<1>5. /\ x \in Seq(S) /\ Len(x) \in Nat /\ Len(x) >= 2
      /\ p => x[1] = a /\ x[2] = b
      /\ ~p => x[1] = e /\ x[2] = f
      /\ q => \E i \in 1 .. Len(x) : x[i] = g
  BY <1>2, <1>3, <1>4, PairOrTriple
<1>6. QED
  BY <1>1, <1>5 DEF a, b, e, f, g, S, x

LEMMA QueriesProperties ==
  ASSUME NEW r \in Readings
  PROVE  /\ Queries(r) \in Seq(AnyQuery(r))
         /\ Len(Queries(r)) \in Nat /\ Len(Queries(r)) >= 1
         /\ DOMAIN Queries(r) = 1 .. Len(Queries(r))
<1>1. PICK x, S : x = Queries(r) /\ S = AnyQuery(r)
  OBVIOUS
<1>2. x \in Seq(S) /\ Len(x) \in Nat /\ Len(x) >= 2
  BY <1>1, QueriesInOrder
<1>3. DOMAIN x = 1 .. Len(x) /\ Len(x) >= 1
  BY <1>2, LenProperties
<1>4. QED
  BY <1>1, <1>2, <1>3

LEMMA KeysProperties ==
  ASSUME NEW r \in Readings, NEW i \in 1 .. Len(Queries(r))
  PROVE  /\ KeysOf[r][i] = Queries(r)[i].under
         /\ Queries(r)[i].under \in Keys
         /\ Queries(r)[i].under \in Range(KeysOf[r])
         /\ MissKey(r) \in Keys
         /\ Range(KeysOf[r]) \subseteq Keys
<1>1. /\ DOMAIN KeysOf[r] = 1 .. Len(Queries(r))
      /\ \A k \in 1 .. Len(Queries(r)) : KeysOf[r][k] = Queries(r)[k].under
  BY DEF KeysOf
<1>2. Range(KeysOf[r]) \subseteq Keys
  BY DEF Keys
<1>3. \A k \in 1 .. Len(Queries(r)) : KeysOf[r][k] \in Range(KeysOf[r])
  BY <1>1 DEF Range
<1>4. 1 \in 1 .. Len(Queries(r))
  BY QueriesProperties
<1>5. QED
  BY <1>1, <1>2, <1>3, <1>4 DEF MissKey

LEMMA KeysAreNoWords ==
  ASSUME NEW k \in Keys
  PROVE  k # <<"map">>
<1>1. PICK r \in Readings : k \in Range(KeysOf[r])
  BY DEF Keys
<1>2. PICK i \in 1 .. Len(Queries(r)) : k = Queries(r)[i].under
  BY <1>1 DEF KeysOf, Range
<1>3. Queries(r)[i] \in AnyQuery(r)
  BY QueriesProperties, ElementOfSeq
<1>4. PICK of, under, attribute : Queries(r)[i] = Query(r, of, under, attribute)
  BY <1>3 DEF AnyQuery
<1>5. \E a, b, c, d : k = <<a, b, c, d>>
  BY <1>2, <1>4 DEF Query
<1>6. QED
  BY <1>5

(* What is asked of the data is what the searches need of the queries.     *)
LEMMA NearbyIsAsked == OwnIsNearby => QueriesFindOwn
<1> SUFFICES ASSUME OwnIsNearby, NEW r \in Readings, NEW s \in Own(r)
             PROVE  \E i \in DOMAIN Queries(r) : Fits(s, Queries(r)[i])
  BY DEF QueriesFindOwn
<1>1. DOMAIN Queries(r) = 1 .. Len(Queries(r)) /\ Len(Queries(r)) \in Nat
      /\ Len(Queries(r)) >= 2
  BY QueriesInOrder, QueriesProperties
<1>2. s.prop = r.prop
  BY DEF Own
<1>3. CASE r.device # "" /\ s.device = r.device
  <2>1. Queries(r)[2] = Query(r, "device", "prop", "prop")
    BY <1>3, QueriesInOrder
  <2>2. Fits(s, Query(r, "device", "prop", "prop"))
    BY <1>2, <1>3 DEF Fits, Query
  <2>3. 2 \in DOMAIN Queries(r)
    BY <1>1
  <2>4. QED
    BY <2>1, <2>2, <2>3
<1>4. CASE r.thing # "" /\ s.thing = r.thing
  <2>1. PICK i \in DOMAIN Queries(r) : Queries(r)[i] = Query(r, "thing", "prop", "prop")
    BY <1>1, <1>4, QueriesInOrder
  <2>2. Fits(s, Query(r, "thing", "prop", "prop"))
    BY <1>2, <1>4 DEF Fits, Query
  <2>3. QED
    BY <2>1, <2>2
<1>5. QED
  BY <1>3, <1>4 DEF OwnIsNearby

LEMMA KeyedIsAskedFirst == OwnIsKeyed => KeysFindOwn
<1> SUFFICES ASSUME OwnIsKeyed, NEW r \in Readings, NEW s \in Own(r)
             PROVE  \E i \in DOMAIN Queries(r) :
                      Fits(s, Queries(r)[i]) /\ \A m \in 1 .. i : AsksForKey(Queries(r)[m])
  BY DEF KeysFindOwn
<1>1. DOMAIN Queries(r) = 1 .. Len(Queries(r)) /\ Len(Queries(r)) \in Nat
      /\ Len(Queries(r)) >= 2
  BY QueriesInOrder, QueriesProperties
<1>2. 1 \in DOMAIN Queries(r) /\ 2 \in DOMAIN Queries(r) /\ 1 .. 1 = {1} /\ 1 .. 2 = {1, 2}
  BY <1>1
<1>3. \A of, attribute : AsksForKey(Query(r, of, "key", attribute))
  BY DEF AsksForKey, Query
<1>4. CASE r.device # "" /\ s.device = r.device /\ s.key = StreamKey(r)
  <2>1. Queries(r)[1] = Query(r, "device", "key", "key")
    BY <1>4, QueriesInOrder
  <2>2. Fits(s, Query(r, "device", "key", "key"))
    BY <1>4 DEF Fits, Query
  <2>3. QED
    BY <1>2, <1>3, <2>1, <2>2
<1>5. CASE r.device = "" /\ s.thing = r.thing /\ StreamKey(r) \in {s.key, s.prop}
  <2>1. /\ Queries(r)[1] = Query(r, "thing", "key", "key")
        /\ Queries(r)[2] = Query(r, "thing", "key", "prop")
    BY <1>5, QueriesInOrder
  <2>2. \/ Fits(s, Query(r, "thing", "key", "key"))
        \/ Fits(s, Query(r, "thing", "key", "prop"))
    BY <1>5 DEF Fits, Query
  <2>3. QED
    BY <1>2, <1>3, <2>1, <2>2
<1>6. QED
  BY <1>4, <1>5 DEF OwnIsKeyed

LEMMA KeyedIsFoundOnly == KeyedIsOwn => KeysFindOnlyOwn
<1> SUFFICES ASSUME KeyedIsOwn, NEW r \in Readings, NEW other \in Readings,
                    NEW i \in DOMAIN Queries(r), NEW s \in Streams,
                    AsksForKey(Queries(r)[i]), Fits(s, Queries(r)[i]),
                    Queries(r)[i].under \in Range(KeysOf[other])
             PROVE  s \in Own(other)
  BY DEF KeysFindOnlyOwn
<1>1. PICK k \in 1 .. Len(Queries(other)) : Queries(r)[i].under = Queries(other)[k].under
  BY DEF KeysOf, Range
<1>2. PICK p, q : p = Queries(r)[i] /\ q = Queries(other)[k]
  OBVIOUS
<1>3. p \in AnyQuery(r) /\ q \in AnyQuery(other)
  BY <1>1, <1>2, QueriesProperties, ElementOfSeq
<1>4. AsksForKey(p) /\ Fits(s, p) /\ p.under = q.under
  BY <1>1, <1>2
<1>5. PICK of, under, attribute : /\ q = Query(other, of, under, attribute)
                                  /\ of \in {"device", "thing"} /\ other[of] # ""
  BY <1>3 DEF AnyQuery
<1>6. q.under = <<of, other[of], under, IF under = "key" THEN StreamKey(other) ELSE other.prop>>
  BY <1>5 DEF Query
<1>7. CASE r.device # "" /\ p = Query(r, "device", "key", "key")
  <2>1. p.under = <<"device", r.device, "key", StreamKey(r)>>
        /\ s.device = r.device /\ s.key = StreamKey(r)
    BY <1>4, <1>7 DEF Query, Fits
  <2>2. of = "device" /\ other[of] = r.device /\ StreamKey(other) = StreamKey(r)
    BY <1>4, <1>6, <2>1
  <2>3. other.device # "" /\ s.device = other.device /\ s.key = StreamKey(other)
    BY <1>5, <2>1, <2>2
  <2>4. QED
    BY <2>3 DEF KeyedIsOwn
<1>8. CASE p \in {Query(r, "thing", "key", "key"), Query(r, "thing", "key", "prop")}
  <2>1. p.under = <<"thing", r.thing, "key", StreamKey(r)>>
        /\ s.thing = r.thing /\ StreamKey(r) \in {s.key, s.prop}
    BY <1>4, <1>8 DEF Query, Fits
  <2>2. of = "thing" /\ other[of] = r.thing /\ StreamKey(other) = StreamKey(r)
    BY <1>4, <1>6, <2>1
  <2>3. other.thing # "" /\ s.thing = other.thing /\ StreamKey(other) \in {s.key, s.prop}
    BY <1>5, <2>1, <2>2
  <2>4. QED
    BY <2>3 DEF KeyedIsOwn
<1>9. CASE p = Query(r, "device", "prop", "prop") \/ p = Query(r, "thing", "prop", "prop")
  BY <1>4, <1>9 DEF AsksForKey, Query
<1>10. QED
  BY <1>3, <1>7, <1>8, <1>9 DEF AnyQuery

(* Numbers have a least one: what SelectInSeq() returns.                   *)
LEMMA Least ==
  ASSUME NEW T, T \subseteq Nat, T # {}
  PROVE  Min(T) \in T /\ \A k \in T : Min(T) <= k
<1> DEFINE R == OpToRel(<, Nat)
<1>1. IsWellFoundedOn(R, Nat)
  BY NatLessThanWellFounded
<1>2. \A a \in Nat, b \in Nat : a < b => <<a, b>> \in R
  BY DEF OpToRel
<1> HIDE DEF R
<1>3. PICK n \in T : \A k \in T : ~ (<<k, n>> \in R)
  BY <1>1, WFMin
<1>4. \A k \in T : ~(k < n)
  BY <1>2, <1>3
<1>5. \A k \in T : n <= k
  BY <1>4
<1>6. QED
  BY <1>5 DEF Min

(* A hit is what the cache has under one of the reading's keys.            *)
LEMMA HitProperties ==
  ASSUME NEW h, NEW r \in Readings, HitIn(h, r) # None
  PROVE  /\ KeysOf[r][CachedAt(h, r)] \in Range(KeysOf[r])
         /\ h[KeysOf[r][CachedAt(h, r)]] = HitIn(h, r)
<1> DEFINE T == {i \in 1 .. Len(KeysOf[r]) : h[KeysOf[r][i]] # None}
<1>1. CachedAt(h, r) = IF T # {} THEN Min(T) ELSE 0
  BY DEF CachedAt, SelectInSeq
<1>2. DOMAIN KeysOf[r] = 1 .. Len(Queries(r)) /\ Len(Queries(r)) \in Nat
  BY QueriesProperties DEF KeysOf
<1>3. KeysOf[r] \in Seq(Range(KeysOf[r])) /\ Len(KeysOf[r]) = Len(Queries(r))
  BY <1>2 DEF KeysOf, Range
<1>4. T \subseteq Nat
  BY <1>2, <1>3
<1>5. CachedAt(h, r) # 0
  BY DEF HitIn
<1>6. CachedAt(h, r) \in T
  BY <1>1, <1>4, <1>5, Least
<1>7. CachedAt(h, r) \in DOMAIN KeysOf[r]
  BY <1>2, <1>3, <1>6
<1>8. QED
  BY <1>5, <1>7 DEF HitIn, Range

-----------------------------------------------------------------------------
(* What the id map says.                                                   *)
LEMMA MappedAlike ==
  ASSUME NEW for \in {"push", "monitor"}, NEW r
  PROVE  Mapped(for, r) = Mapped("push", r)
BY DEF Mapped, Chain

LEMMA ChainProperties ==
  ASSUME NEW for, NEW r \in Readings
  PROVE  /\ Chain(for, r) \in Seq(NamesOf(r)) /\ Len(Chain(for, r)) \in Nat
         /\ Len(Chain(for, r)) >= 1 /\ Chain(for, r)[1] = DsKey(r)
         /\ NamesOf(r) \subseteq Names
<1> DEFINE a == DsKey(r)  b == KeyKey(r)  c == SensorKey(r)  S == NamesOf(r)
<1>1. a \in S /\ b \in S /\ c \in S /\ S \subseteq Names
  BY DEF NamesOf, Names
<1>2. Chain(for, r) = <<a>> \/ Chain(for, r) = <<a, c>> \/ Chain(for, r) = <<a, b, c>>
  BY DEF Chain
<1> HIDE DEF a, b, c, S
<1>3. /\ <<a>> \in Seq(S) /\ <<a, c>> \in Seq(S) /\ <<a, b, c>> \in Seq(S)
      /\ Len(<<a>>) = 1 /\ Len(<<a, c>>) = 2 /\ Len(<<a, b, c>>) = 3
      /\ <<a>>[1] = a /\ <<a, c>>[1] = a /\ <<a, b, c>>[1] = a
  BY <1>1
<1> DEFINE x == Chain(for, r)
<1>4. x = <<a>> \/ x = <<a, c>> \/ x = <<a, b, c>>
  BY <1>2
<1> HIDE DEF x
<1>5. x \in Seq(S) /\ Len(x) \in Nat /\ Len(x) >= 1 /\ x[1] = a
  <2>1. CASE x = <<a>>
    BY <1>3, <2>1
  <2>2. CASE x = <<a, c>>
    BY <1>3, <2>2
  <2>3. CASE x = <<a, b, c>>
    BY <1>3, <2>3
  <2>4. QED
    BY <1>4, <2>1, <2>2, <2>3
<1>6. QED
  BY <1>1, <1>5 DEF a, S, x

LEMMA MappedProperties ==
  ASSUME NEW for, NEW r \in Readings
  PROVE  /\ Lookup(DsKey(r)) # None => Mapped(for, r) = Lookup(DsKey(r))
         /\ Mapped(for, r) = None \/ \E n \in Names : Mapped(for, r) = Lookup(n)
<1> DEFINE s == Chain(for, r)  T == {i \in 1 .. Len(s) : Lookup(s[i]) # None}
           p == IF T # {} THEN Min(T) ELSE 0
<1>1. s \in Seq(NamesOf(r)) /\ Len(s) \in Nat /\ Len(s) >= 1 /\ s[1] = DsKey(r)
      /\ NamesOf(r) \subseteq Names
  BY ChainProperties
<1>2. Mapped(for, r) = IF p = 0 THEN None ELSE Lookup(s[p])
  BY DEF Mapped, SelectInSeq
<1> HIDE DEF s
<1>3. T \subseteq Nat
  BY <1>1
<1>4. Lookup(DsKey(r)) # None => p = 1
  <2> SUFFICES ASSUME Lookup(DsKey(r)) # None PROVE p = 1
    OBVIOUS
  <2>1. 1 \in T
    BY <1>1
  <2>2. Min(T) \in T /\ Min(T) <= 1
    BY <1>3, <2>1, Least
  <2>3. QED
    BY <1>1, <2>1, <2>2
<1>5. p # 0 => s[p] \in Names
  <2> SUFFICES ASSUME p # 0 PROVE s[p] \in Names
    OBVIOUS
  <2>1. p \in T
    BY <1>3, Least
  <2>2. p \in 1 .. Len(s)
    BY <2>1
  <2> HIDE DEF p
  <2>3. QED
    BY <1>1, <2>2, ElementOfSeq
<1> HIDE DEF p
<1>6. QED
  BY <1>1, <1>2, <1>4, <1>5

LEMMA FoundAreStreams ==
  ASSUME SharedOK, NEW r \in Readings
  PROVE  /\ \A for : Mapped(for, r) \in Streams \union {None}
         /\ Hit(r) \in Streams \union {None}
         /\ Hit(r) # None => /\ KeysOf[r][CachedAt(hits, r)] \in Keys
                             /\ KeysOf[r][CachedAt(hits, r)] \in Range(KeysOf[r])
                             /\ hits[KeysOf[r][CachedAt(hits, r)]] = Hit(r)
<1>1. \A for : Mapped(for, r) \in Streams \union {None}
  <2>1. \A n \in Names : Lookup(n) \in Streams \union {None}
    BY DEF Lookup, SharedOK
  <2>2. QED
    BY <2>1, MappedProperties
<1>2. Range(KeysOf[r]) \subseteq Keys
  BY DEF Keys
<1>3. CASE Hit(r) = None
  BY <1>1, <1>3
<1>4. CASE Hit(r) # None
  <2>1. /\ KeysOf[r][CachedAt(hits, r)] \in Range(KeysOf[r])
        /\ hits[KeysOf[r][CachedAt(hits, r)]] = Hit(r)
    BY <1>4, HitProperties DEF Hit
  <2>2. hits[KeysOf[r][CachedAt(hits, r)]] \in Streams \union {None}
    BY <1>2, <2>1 DEF SharedOK
  <2>3. QED
    BY <1>1, <1>2, <2>1, <2>2
<1>5. QED
  BY <1>3, <1>4

-----------------------------------------------------------------------------
(* The records of the jobs.                                                *)
Keeps(a, b) ==
  /\ a.for = b.for /\ a.r = b.r /\ a.pushed = b.pushed
  /\ a.failed = b.failed /\ a.raced = b.raced /\ a.moved = b.moved

LEMMA BysProperties ==
  /\ {<<>>, <<"map">>, <<"open">>, <<"raised">>, <<"asked">>} \subseteq Bys
  /\ Keys \subseteq Bys
  /\ \A m \in 1 .. TTL : <<"miss", m>> \in Bys
BY DEF Bys

LEMMA EndedRecord ==
  ASSUME NEW j \in JobType, NEW s \in Streams \union {None}, NEW by \in Bys,
         NEW e, e = Ended(j, s, by)
  PROVE  /\ e \in JobType /\ Keeps(e, j) /\ e.own = j.own
         /\ e.at = "done" /\ e.id = s /\ e.by = by
BY DEF Ended, JobType, Keeps, Stages

LEMMA MarkedRecord ==
  ASSUME NEW j \in JobType, NEW v \in BOOLEAN, NEW e,
         \/ e = [j EXCEPT !.moved = v]
         \/ e = [j EXCEPT !.raced = v]
  PROVE  /\ e \in JobType
         /\ e.for = j.for /\ e.at = j.at /\ e.r = j.r /\ e.n = j.n
         /\ e.pushed = j.pushed /\ e.id = j.id /\ e.by = j.by
         /\ e.own = j.own /\ e.failed = j.failed
         /\ e = [j EXCEPT !.moved = v] => e.moved = v /\ e.raced = j.raced
         /\ e = [j EXCEPT !.raced = v] => e.raced = v /\ e.moved = j.moved
<1>1. CASE e = [j EXCEPT !.moved = v]
  BY <1>1 DEF JobType
<1>2. CASE e = [j EXCEPT !.raced = v]
  BY <1>2 DEF JobType
<1>3. QED
  BY <1>1, <1>2

LEMMA CacheRecord ==
  ASSUME NEW j \in JobType, NEW v \in BOOLEAN,
         NEW e, e = [j EXCEPT !.at = "cache", !.own = v]
  PROVE  e \in JobType /\ Keeps(e, j) /\ e.at = "cache" /\ e.own = v
BY DEF JobType, Keeps, Stages

LEMMA MissRecord ==
  ASSUME NEW j \in JobType, NEW a \in {"miss", "drop"},
         NEW e, e = [j EXCEPT !.at = a]
  PROVE  e \in JobType /\ Keeps(e, j) /\ e.at = a /\ e.own = j.own
BY DEF JobType, Keeps, Stages

LEMMA AskRecord ==
  ASSUME NEW j \in JobType, NEW e, e = [j EXCEPT !.at = "ask", !.n = 1]
  PROVE  /\ e \in JobType /\ Keeps(e, j) /\ e.at = "ask" /\ e.n = 1
         /\ e.own = j.own
BY DEF JobType, Keeps, Stages

LEMMA NextRecord ==
  ASSUME NEW j \in JobType, NEW e, e = [j EXCEPT !.n = @ + 1]
  PROVE  /\ e \in JobType /\ Keeps(e, j) /\ e.at = j.at /\ e.n = j.n + 1
         /\ e.own = j.own
<1>1. j.n + 1 \in Nat
  BY DEF JobType
<1>2. QED
  BY <1>1 DEF JobType, Keeps

LEMMA FailedRecord ==
  ASSUME NEW j \in JobType, NEW e, e = [j EXCEPT !.failed = TRUE]
  PROVE  /\ e \in JobType /\ e.failed /\ e.raced = j.raced
         /\ e.moved = j.moved /\ e.for = j.for /\ e.at = j.at /\ e.r = j.r
         /\ e.n = j.n /\ e.pushed = j.pushed /\ e.own = j.own
BY DEF JobType

LEMMA IdleRecord ==
  Idle \in JobType /\ Idle.at = "idle" /\ Idle.for = "nothing" /\ ~Idle.own
BY BysProperties DEF Idle, JobType, Fors, Stages

Started(for, r) == [Idle EXCEPT !.for = for, !.at = "begin", !.r = r]

LEMMA StartedRecord ==
  ASSUME NEW for \in Fors, NEW r \in Readings, NEW e, e = Started(for, r)
  PROVE  /\ e \in JobType /\ e.for = for /\ e.at = "begin" /\ e.r = r
         /\ e.pushed = None /\ ~e.own
BY IdleRecord DEF Started, Idle, JobType, Stages

Forward(r, s, m) == [Idle EXCEPT !.for = "monitor", !.at = "begin", !.r = r,
                                 !.pushed = s, !.moved = m]

LEMMA ForwardRecord ==
  ASSUME NEW r \in Readings, NEW s \in Streams \union {None}, NEW m \in BOOLEAN,
         NEW e, e = Forward(r, s, m)
  PROVE  /\ e \in JobType /\ e.for = "monitor" /\ e.at = "begin" /\ e.r = r
         /\ e.pushed = s /\ e.moved = m /\ ~e.own
BY IdleRecord DEF Forward, Idle, JobType, Stages, Fors

LEMMA SetJob ==
  ASSUME job \in [Threads -> JobType], NEW t \in Threads, NEW x \in JobType, Set(t, x)
  PROVE  /\ job' \in [Threads -> JobType] /\ job'[t] = x
         /\ \A u \in Threads : u # t => job'[u] = job[u]
BY DEF Set

-----------------------------------------------------------------------------
(* The steps that leave all but the job of one thread alone, by what they  *)
(* make of it.                                                             *)
AsBefore == UNCHANGED <<role, live, warm, idMap, hits, misses, soft, deletions, faults>>

OnlyJob(t) ==
  /\ job' \in [Threads -> JobType]
  /\ \A u \in Threads : u # t => job'[u] = job[u]

BecomesIdle(a, b) == b.at = "done" /\ a = Idle

BecomesForward(a, b) ==
  /\ b.at = "done" /\ b.for = "push" /\ b.by # <<"raised">>
  /\ a.at = "begin" /\ a.for = "monitor" /\ a.r = b.r /\ a.pushed = b.id
  /\ a.moved = b.moved /\ ~a.own

BecomesStarted(a, b) ==
  /\ b.at = "idle" /\ warm
  /\ a.at = "begin" /\ a.r \in Readings /\ a.for \in {"push", "bridge"}
  /\ a.pushed = None /\ ~a.own

BecomesMapped(a, b) ==
  /\ b.at = "begin" /\ Mapped(b.for, b.r) # None
  /\ Keeps(a, b) /\ a.own = b.own
  /\ a.at = "done" /\ a.id = Mapped(b.for, b.r) /\ a.by = <<"map">>

BecomesRefused(a, b) ==
  /\ b.at = "begin" /\ b.for = "push"
  /\ Keeps(a, b) /\ a.own = b.own /\ a.at = "done" /\ a.id = None

BecomesLive(a, b) ==
  /\ b.at = "begin" /\ Mapped(b.for, b.r) = None
  /\ Keeps(a, b) /\ a.own = (live \intersect Own(b.r) # {}) /\ a.at = "cache"

BecomesHit(a, b) ==
  /\ b.at = "cache" /\ Hit(b.r) # None
  /\ Keeps(a, b) /\ a.own = b.own /\ a.at = "done" /\ a.id = Hit(b.r)
  /\ a.by = KeysOf[b.r][CachedAt(hits, b.r)] /\ a.by \in Keys

BecomesUncached(a, b) ==
  /\ b.at = "cache" /\ Hit(b.r) = None
  /\ Keeps(a, b) /\ a.own = b.own /\ a.at = "miss"

BecomesMissed(a, b) ==
  /\ b.at = "miss" /\ Keeps(a, b) /\ a.own = b.own
  /\ a.at = "done" /\ a.id = None
  /\ \E m \in 1 .. TTL : a.by = <<"miss", m>>

BecomesAsking(a, b) ==
  /\ b.at \in {"miss", "drop"} /\ Keeps(a, b) /\ a.own = b.own
  /\ a.at = "ask" /\ a.n = 1

BecomesDropping(a, b) ==
  /\ b.at = "miss" /\ Keeps(a, b) /\ a.own = b.own /\ a.at = "drop"
  /\ misses[MissKey(b.r)] # Absent

BecomesRaised(a, b) ==
  /\ b.at = "drop" /\ misses[MissKey(b.r)] = Absent
  /\ Keeps(a, b) /\ a.own = b.own /\ a.at = "done" /\ a.id = None

LocalChange(a, b) ==
  \/ BecomesIdle(a, b) \/ BecomesForward(a, b) \/ BecomesStarted(a, b)
  \/ BecomesMapped(a, b) \/ BecomesRefused(a, b) \/ BecomesLive(a, b)
  \/ BecomesHit(a, b) \/ BecomesUncached(a, b) \/ BecomesMissed(a, b)
  \/ BecomesAsking(a, b) \/ BecomesDropping(a, b) \/ BecomesRaised(a, b)

LocalStep(t) ==
  \/ \E r \in Readings : StartPush(t, r) \/ StartBridge(t, r)
  \/ Return(t) \/ BeginMapped(t) \/ BeginOpen(t) \/ BeginLive(t)
  \/ LookInHits(t) \/ LookInMisses(t) \/ DropRaises(t)

LEMMA LocalSteps ==
  ASSUME TypeInv, NEW t \in Threads, LocalStep(t)
  PROVE  AsBefore /\ OnlyJob(t) /\ LocalChange(job'[t], job[t])
<1> DEFINE j == job[t]
<1>0. /\ SharedOK /\ job \in [Threads -> JobType] /\ j \in JobType
      /\ (j.at # "idle" => j.r \in Readings /\ warm)
      /\ j.id \in Streams \union {None} /\ j.moved \in BOOLEAN /\ None \in Streams \union {None}
  BY DEF TypeInv, Placed, JobType
<1>a. j \in JobType /\ None \in Streams \union {None}
  BY <1>0
<1>1. AsBefore
  BY DEF LocalStep, StartPush, StartBridge, Return, BeginMapped, BeginOpen, BeginLive,
         LookInHits, LookInMisses, DropRaises, AsBefore, caches
<1> SUFFICES \E x \in JobType : Set(t, x) /\ LocalChange(x, j)
  BY <1>0, <1>1, SetJob DEF OnlyJob
<1> HIDE DEF j
<1>2. ASSUME NEW r \in Readings, StartPush(t, r) \/ StartBridge(t, r)
      PROVE  \E x \in JobType : Set(t, x) /\ LocalChange(x, j)
  <2>1. PICK for \in {"push", "bridge"} : Set(t, Started(for, r))
    BY <1>2 DEF StartPush, StartBridge, Started
  <2>2. warm /\ j.at = "idle"
    BY <1>2 DEF StartPush, StartBridge, j
  <2>3. for \in Fors
    BY DEF Fors
  <2>4. PICK x : x = Started(for, r)
    OBVIOUS
  <2>5. x \in JobType /\ BecomesStarted(x, j)
    <3>1. /\ x \in JobType /\ x.for = for /\ x.at = "begin" /\ x.r = r
          /\ x.pushed = None /\ ~x.own
      BY <2>3, <2>4, StartedRecord
    <3>2. QED
      BY <2>2, <3>1 DEF BecomesStarted
  <2>6. QED
    BY <2>1, <2>4, <2>5 DEF LocalChange
<1>3. ASSUME Return(t)
      PROVE  \E x \in JobType : Set(t, x) /\ LocalChange(x, j)
  <2>1. j.at = "done" /\ j.r \in Readings
    BY <1>0, <1>3 DEF Return, j
  <2>0. PICK x : x = Forward(j.r, j.id, j.moved)
    OBVIOUS
  <2>2. \/ Set(t, Idle)
        \/ j.for = "push" /\ j.by # <<"raised">> /\ Set(t, x)
    BY <1>3, <2>0 DEF Return, Forward, j
  <2>3. Idle \in JobType /\ BecomesIdle(Idle, j)
    BY <2>1, IdleRecord DEF BecomesIdle
  <2>4. x \in JobType /\ (j.for = "push" /\ j.by # <<"raised">> => BecomesForward(x, j))
    <3>1. /\ x \in JobType /\ x.for = "monitor" /\ x.at = "begin" /\ x.r = j.r
          /\ x.pushed = j.id /\ x.moved = j.moved /\ ~x.own
      BY <1>0, <2>0, <2>1, ForwardRecord
    <3>2. QED
      BY <2>1, <3>1 DEF BecomesForward
  <2>5. QED
    BY <2>2, <2>3, <2>4 DEF LocalChange
<1>4. ASSUME BeginMapped(t)
      PROVE  \E x \in JobType : Set(t, x) /\ LocalChange(x, j)
  <2> DEFINE m == Mapped(j.for, j.r)
  <2>0. PICK x : x = Ended(j, m, <<"map">>)
    OBVIOUS
  <2>1. j.at = "begin" /\ m # None /\ Set(t, x)
    BY <1>4, <2>0 DEF BeginMapped, FromMap, End, j
  <2>2. m \in Streams \union {None} /\ <<"map">> \in Bys
    BY <1>0, <2>1, FoundAreStreams, BysProperties
  <2>3. x \in JobType /\ BecomesMapped(x, j)
    <3> HIDE DEF m
    <3>1. /\ x \in JobType /\ Keeps(x, j) /\ x.own = j.own
          /\ x.at = "done" /\ x.id = m /\ x.by = <<"map">>
      BY <1>a, <2>0, <2>2, EndedRecord
    <3>2. QED
      BY <2>1, <3>1 DEF BecomesMapped, m
  <2>4. QED
    BY <2>1, <2>3 DEF LocalChange
<1>5. ASSUME BeginOpen(t)
      PROVE  \E x \in JobType : Set(t, x) /\ LocalChange(x, j)
  <2>0. PICK x : x = Ended(j, None, <<"open">>)
    OBVIOUS
  <2>1. j.at = "begin" /\ j.for = "push" /\ Set(t, x)
    BY <1>5, <2>0 DEF BeginOpen, End, j
  <2>2. x \in JobType /\ BecomesRefused(x, j)
    <3>1. <<"open">> \in Bys
      BY BysProperties
    <3>2. /\ x \in JobType /\ Keeps(x, j) /\ x.own = j.own
          /\ x.at = "done" /\ x.id = None
      BY <1>a, <2>0, <3>1, EndedRecord
    <3>3. QED
      BY <2>1, <3>2 DEF BecomesRefused
  <2>3. QED
    BY <2>1, <2>2 DEF LocalChange
<1>6. ASSUME BeginLive(t)
      PROVE  \E x \in JobType : Set(t, x) /\ LocalChange(x, j)
  <2> DEFINE v == live \intersect Own(j.r) # {}
  <2>0. PICK x : x = [j EXCEPT !.at = "cache", !.own = v]
    OBVIOUS
  <2>1. j.at = "begin" /\ Mapped(j.for, j.r) = None /\ Set(t, x)
    BY <1>6, <2>0 DEF BeginLive, FromMap, j
  <2>2. v \in BOOLEAN
    OBVIOUS
  <2>3. x \in JobType /\ BecomesLive(x, j)
    <3> HIDE DEF v
    <3>1. x \in JobType /\ Keeps(x, j) /\ x.at = "cache" /\ x.own = v
      BY <1>0, <2>0, <2>2, CacheRecord
    <3>2. QED
      BY <2>1, <3>1 DEF BecomesLive, v
  <2>4. QED
    BY <2>1, <2>3 DEF LocalChange
<1>7. ASSUME LookInHits(t)
      PROVE  \E x \in JobType : Set(t, x) /\ LocalChange(x, j)
  <2> DEFINE h == Hit(j.r)  k == KeysOf[j.r][CachedAt(hits, j.r)]
  <2>x. PICK x : x = Ended(j, h, k)
    OBVIOUS
  <2>y. PICK y : y = [j EXCEPT !.at = "miss"]
    OBVIOUS
  <2>1. j.at = "cache" /\ (IF h # None THEN Set(t, x) ELSE Set(t, y))
    BY <1>7, <2>x, <2>y DEF LookInHits, End, j
  <2>2. j.r \in Readings
    BY <1>0, <2>1
  <2>3. CASE h # None
    <3>1. h \in Streams \union {None} /\ k \in Keys /\ k \in Bys
      BY <1>0, <2>2, <2>3, FoundAreStreams, BysProperties
    <3>2. x \in JobType /\ BecomesHit(x, j)
      <4> HIDE DEF h, k
      <4>1. /\ x \in JobType /\ Keeps(x, j) /\ x.own = j.own
            /\ x.at = "done" /\ x.id = h /\ x.by = k
        BY <1>a, <2>x, <3>1, EndedRecord
      <4>2. QED
        BY <2>1, <2>3, <3>1, <4>1 DEF BecomesHit, h, k
    <3> HIDE DEF h
    <3>3. QED
      BY <2>1, <2>3, <3>2 DEF LocalChange
  <2>4. CASE h = None
    <3>1. y \in JobType /\ BecomesUncached(y, j)
      <4>1. y \in JobType /\ Keeps(y, j) /\ y.at = "miss" /\ y.own = j.own
        BY <1>0, <2>y, MissRecord
      <4>2. QED
        BY <2>1, <2>4, <4>1 DEF BecomesUncached
    <3> HIDE DEF h
    <3>2. QED
      BY <2>1, <2>4, <3>1 DEF LocalChange
  <2>5. QED
    BY <2>3, <2>4
<1>8. ASSUME LookInMisses(t)
      PROVE  \E x \in JobType : Set(t, x) /\ LocalChange(x, j)
  <2> DEFINE k == MissKey(j.r)  m == misses[k]
  <2>x. PICK x : x = Ended(j, None, <<"miss", m>>)
    OBVIOUS
  <2>y. PICK y : y = [j EXCEPT !.at = "ask", !.n = 1]
    OBVIOUS
  <2>z. PICK z : z = [j EXCEPT !.at = "drop"]
    OBVIOUS
  <2>1. /\ j.at = "miss"
        /\ \/ m > 0 /\ Set(t, x)
           \/ m = Absent /\ Set(t, y)
           \/ m # Absent /\ Set(t, z)
    BY <1>8, <2>x, <2>y, <2>z DEF LookInMisses, InForce, End, j
  <2>2. m \in Absent .. TTL
    <3>1. j.r \in Readings
      BY <1>0, <2>1
    <3>2. 1 \in 1 .. Len(Queries(j.r))
      BY <3>1, QueriesProperties
    <3>3. k \in Keys
      BY <3>1, <3>2, KeysProperties
    <3>4. QED
      BY <1>0, <3>3 DEF SharedOK
  <2> HIDE DEF m
  <2>3. CASE m > 0 /\ Set(t, x)
    <3>0. TTL \in Nat /\ m > 0
      BY <2>3, LookupAssumption
    <3>1. m \in 1 .. TTL
      BY <2>2, <3>0 DEF Absent
    <3>2. <<"miss", m>> \in Bys
      BY <3>1, BysProperties
    <3>3. x \in JobType /\ BecomesMissed(x, j)
      <4>1. /\ x \in JobType /\ Keeps(x, j) /\ x.own = j.own
            /\ x.at = "done" /\ x.id = None /\ x.by = <<"miss", m>>
        BY <1>a, <2>x, <3>2, EndedRecord
      <4>2. QED
        BY <2>1, <3>1, <4>1 DEF BecomesMissed
    <3>4. QED
      BY <2>3, <3>3 DEF LocalChange
  <2>4. CASE m = Absent /\ Set(t, y)
    <3>1. y \in JobType /\ BecomesAsking(y, j)
      <4>1. y \in JobType /\ Keeps(y, j) /\ y.at = "ask" /\ y.n = 1 /\ y.own = j.own
        BY <1>0, <2>y, AskRecord
      <4>2. QED
        BY <2>1, <4>1 DEF BecomesAsking
    <3>2. QED
      BY <2>4, <3>1 DEF LocalChange
  <2>5. CASE m # Absent /\ Set(t, z)
    <3>1. z \in JobType /\ BecomesDropping(z, j)
      <4>1. z \in JobType /\ Keeps(z, j) /\ z.at = "drop" /\ z.own = j.own
        BY <1>0, <2>z, MissRecord
      <4>2. QED
        BY <2>1, <2>5, <4>1 DEF BecomesDropping, m
    <3>2. QED
      BY <2>5, <3>1 DEF LocalChange
  <2>6. QED
    BY <2>1, <2>3, <2>4, <2>5
<1>9. ASSUME DropRaises(t)
      PROVE  \E x \in JobType : Set(t, x) /\ LocalChange(x, j)
  <2>0. PICK x : x = Ended(j, None, <<"raised">>)
    OBVIOUS
  <2>1. j.at = "drop" /\ misses[MissKey(j.r)] = Absent /\ Set(t, x)
    BY <1>9, <2>0 DEF DropRaises, End, j
  <2>2. x \in JobType /\ BecomesRaised(x, j)
    <3>1. <<"raised">> \in Bys
      BY BysProperties
    <3>2. /\ x \in JobType /\ Keeps(x, j) /\ x.own = j.own
          /\ x.at = "done" /\ x.id = None
      BY <1>a, <2>0, <3>1, EndedRecord
    <3>3. QED
      BY <2>1, <3>2 DEF BecomesRaised
  <2>3. QED
    BY <2>1, <2>2 DEF LocalChange
<1>10. QED
  BY <1>2, <1>3, <1>4, <1>5, <1>6, <1>7, <1>8, <1>9 DEF LocalStep

-----------------------------------------------------------------------------
(* The other steps.  What a step of one thread or of the target does to    *)
(* the jobs of the others is to mark them.                                 *)
Marked(a, b) ==
  /\ a.for = b.for /\ a.at = b.at /\ a.r = b.r /\ a.n = b.n
  /\ a.pushed = b.pushed /\ a.id = b.id /\ a.by = b.by
  /\ a.own = b.own /\ a.failed = b.failed
  /\ (b.raced => a.raced) /\ (b.moved => a.moved)

LEMMA MovedJobs ==
  ASSUME TypeInv, NEW threads \in SUBSET Threads
  PROVE  /\ Moved(threads) \in [Threads -> JobType]
         /\ \A u \in Threads :
              /\ Marked(Moved(threads)[u], job[u])
              /\ u \in threads /\ job[u].at # "idle" => Moved(threads)[u].moved
              /\ u \notin threads => Moved(threads)[u] = job[u]
<1> DEFINE x(u) == IF u \in threads /\ job[u] # Idle
                   THEN [job[u] EXCEPT !.moved = TRUE] ELSE job[u]
<1>1. Moved(threads) = [u \in Threads |-> x(u)]
  BY DEF Moved
<1>2. ASSUME NEW u \in Threads
      PROVE  /\ x(u) \in JobType /\ Marked(x(u), job[u])
             /\ u \in threads /\ job[u].at # "idle" => x(u).moved
             /\ u \notin threads => x(u) = job[u]
  <2>1. PICK b : b = job[u]
    OBVIOUS
  <2>2. b \in JobType
    BY <2>1 DEF TypeInv
  <2>v. PICK v \in BOOLEAN : v = TRUE
    OBVIOUS
  <2>3. PICK e : e = [b EXCEPT !.moved = v]
    OBVIOUS
  <2>4. e \in JobType /\ Marked(e, b) /\ e.moved
    <3>1. /\ e \in JobType
          /\ e.for = b.for /\ e.at = b.at /\ e.r = b.r /\ e.n = b.n
          /\ e.pushed = b.pushed /\ e.id = b.id /\ e.by = b.by
          /\ e.own = b.own /\ e.failed = b.failed
          /\ e.moved = v /\ e.raced = b.raced
      BY <2>2, <2>3, MarkedRecord
    <3>2. QED
      BY <2>v, <3>1 DEF Marked
  <2>5. Marked(b, b)
    BY DEF Marked
  <2>6. b.at # "idle" => b # Idle
    BY IdleRecord
  <2>7. x(u) = IF u \in threads /\ b # Idle THEN e ELSE b
    BY <2>v, <2>1, <2>3
  <2> HIDE DEF x
  <2>8. CASE u \in threads /\ b # Idle
    BY <2>1, <2>4, <2>7, <2>8
  <2>9. CASE ~(u \in threads /\ b # Idle)
    BY <2>1, <2>2, <2>5, <2>6, <2>7, <2>9
  <2>10. QED
    BY <2>8, <2>9
<1> HIDE DEF x
<1>3. QED
  BY <1>1, <1>2

(* A step that changes the target moves under every lookup there is.       *)
TargetStep == \E s \in Streams : Register(s) \/ Appear(s) \/ Delete(s)

LEMMA TargetSteps ==
  ASSUME TypeInv, TargetStep
  PROVE  /\ UNCHANGED <<role, warm, hits, misses, soft, faults>>
         /\ live' \subseteq Streams
         /\ \/ idMap' = idMap
            \/ \E s \in Streams : s.sensor # "" /\ idMap' = [idMap EXCEPT ![DsKey(s)] = s]
         /\ deletions' \in 0 .. MaxDeletions
         /\ job' \in [Threads -> JobType]
         /\ \A u \in Threads : Marked(job'[u], job[u]) /\ (job[u].at # "idle" => job'[u].moved)
<1>1. live \subseteq Streams /\ deletions \in 0 .. MaxDeletions /\ MaxDeletions \in Nat
  BY LookupAssumption DEF TypeInv, SharedOK
<1>2. PICK s \in Streams : Register(s) \/ Appear(s) \/ Delete(s)
  BY DEF TargetStep
<1>3. UNCHANGED <<role, warm, hits, misses, soft, faults>> /\ job' = Moved(Threads)
  BY <1>2 DEF Register, Appear, Delete, caches
<1>4. /\ live' \subseteq Streams
      /\ idMap' = idMap \/ (s.sensor # "" /\ idMap' = [idMap EXCEPT ![DsKey(s)] = s])
  BY <1>1, <1>2 DEF Register, Appear, Delete, caches
<1>5. deletions' \in 0 .. MaxDeletions
  <2>1. deletions' = deletions \/ (deletions < MaxDeletions /\ deletions' = deletions + 1)
    BY <1>2 DEF Register, Appear, Delete, caches
  <2>2. QED
    BY <1>1, <2>1
<1>6. QED
  BY <1>3, <1>4, <1>5, MovedJobs

(* Dropping an expired miss.                                               *)
LEMMA DropSteps ==
  ASSUME TypeInv, NEW t \in Threads, Drop(t)
  PROVE  /\ UNCHANGED <<role, live, warm, idMap, hits, soft, deletions, faults>>
         /\ misses' = [misses EXCEPT ![MissKey(job[t].r)] = Absent]
         /\ job' \in [Threads -> JobType]
         /\ job[t].at = "drop" /\ BecomesAsking(job'[t], job[t])
         /\ \A u \in Threads : u # t =>
              /\ Marked(job'[u], job[u]) /\ job'[u].moved = job[u].moved
              /\ job[u].at = "drop" /\ MissKey(job[u].r) = MissKey(job[t].r)
                 => job'[u].raced
<1> DEFINE jobs == [job EXCEPT ![t].at = "ask", ![t].n = 1]
           late(u) == jobs[u].at = "drop" /\ MissKey(jobs[u].r) = MissKey(job[t].r)
           x(u) == IF u # t /\ late(u) THEN [jobs[u] EXCEPT !.raced = TRUE] ELSE jobs[u]
<1>1. /\ UNCHANGED <<role, live, warm, idMap, hits, soft, deletions, faults>>
      /\ misses' = [misses EXCEPT ![MissKey(job[t].r)] = Absent]
      /\ job[t].at = "drop"
      /\ job' = [u \in Threads |-> x(u)]
  BY DEF Drop, Raced
<1>2. job \in [Threads -> JobType]
  BY DEF TypeInv
<1>3. x(t) \in JobType /\ BecomesAsking(x(t), job[t])
  <2>1. PICK b : b = job[t]
    OBVIOUS
  <2>2. PICK e : e = [b EXCEPT !.at = "ask", !.n = 1]
    OBVIOUS
  <2>3. x(t) = e
    BY <1>2, <2>1, <2>2
  <2>4. e \in JobType /\ Keeps(e, b) /\ e.at = "ask" /\ e.n = 1 /\ e.own = b.own
    BY <1>2, <2>1, <2>2, AskRecord
  <2> HIDE DEF x
  <2>5. QED
    BY <1>1, <2>1, <2>3, <2>4 DEF BecomesAsking
<1>4. ASSUME NEW u \in Threads, u # t
      PROVE  /\ x(u) \in JobType
             /\ Marked(x(u), job[u]) /\ x(u).moved = job[u].moved
             /\ job[u].at = "drop" /\ MissKey(job[u].r) = MissKey(job[t].r)
                => x(u).raced
  <2>1. PICK b : b = job[u]
    OBVIOUS
  <2>v. PICK v \in BOOLEAN : v = TRUE
    OBVIOUS
  <2>2. PICK e : e = [b EXCEPT !.raced = v]
    OBVIOUS
  <2>3. jobs[u] = b
    BY <1>2, <1>4, <2>1
  <2> HIDE DEF jobs
  <2>4. x(u) = IF b.at = "drop" /\ MissKey(b.r) = MissKey(job[t].r) THEN e ELSE b
    BY <1>4, <2>v, <2>2, <2>3
  <2>5. b \in JobType
    BY <1>2, <2>1
  <2>6. e \in JobType /\ Marked(e, b) /\ e.raced /\ e.moved = b.moved
    <3>1. /\ e \in JobType
          /\ e.for = b.for /\ e.at = b.at /\ e.r = b.r /\ e.n = b.n
          /\ e.pushed = b.pushed /\ e.id = b.id /\ e.by = b.by
          /\ e.own = b.own /\ e.failed = b.failed
          /\ e.raced = v /\ e.moved = b.moved
      BY <2>2, <2>5, MarkedRecord
    <3>2. QED
      BY <2>v, <3>1 DEF Marked
  <2>7. Marked(b, b)
    BY DEF Marked
  <2> HIDE DEF x
  <2>8. CASE b.at = "drop" /\ MissKey(b.r) = MissKey(job[t].r)
    BY <2>1, <2>4, <2>6, <2>8
  <2>9. CASE ~(b.at = "drop" /\ MissKey(b.r) = MissKey(job[t].r))
    BY <2>1, <2>4, <2>5, <2>7, <2>9
  <2>10. QED
    BY <2>8, <2>9
<1> HIDE DEF x
<1>5. \A u \in Threads : x(u) \in JobType
  BY <1>3, <1>4
<1>6. job' \in [Threads -> JobType] /\ \A u \in Threads : job'[u] = x(u)
  BY <1>1, <1>5
<1>7. QED
  BY <1>1, <1>3, <1>4, <1>6

(* What a query finds is cached and ends the lookup; that of another       *)
(* thread is moved when the caches now prefer another datastream for it.   *)
BecomesFound(a, b, s, k) ==
  /\ b.at = "ask" /\ s \in Matches(Queries(b.r)[b.n]) /\ k = Queries(b.r)[b.n].under
  /\ a.for = b.for /\ a.r = b.r /\ a.pushed = b.pushed /\ a.own = b.own
  /\ a.failed = b.failed /\ a.raced = b.raced
  /\ a.at = "done" /\ a.id = s /\ a.by = k
  /\ b.moved => a.moved

LEMMA AskFindsSteps ==
  ASSUME TypeInv, NEW t \in Threads, AskFinds(t)
  PROVE  /\ UNCHANGED <<role, live, warm, idMap, misses, deletions, faults>>
         /\ job' \in [Threads -> JobType]
         /\ \E s \in Streams, k \in Keys :
              /\ hits' = [hits EXCEPT ![k] = s]
              /\ soft' = IF job[t].failed \/ job[t].moved \/ ~job[t].own
                         THEN soft \union {k} ELSE soft
              /\ BecomesFound(job'[t], job[t], s, k)
              /\ ~job'[t].moved => HitIn(hits', job[t].r) = s
         /\ \A u \in Threads : u # t =>
              /\ Marked(job'[u], job[u])
              /\ job[u].at # "idle" /\ ~job'[u].moved =>
                   Hit(job[u].r) \in {None, HitIn(hits', job[u].r)}
<1>1. /\ UNCHANGED <<role, live, warm, idMap, misses, deletions, faults>>
      /\ job[t].at = "ask"
  BY DEF AskFinds
<1>2. job \in [Threads -> JobType] /\ job[t] \in JobType
  BY DEF TypeInv
<1>3. job[t].r \in Readings /\ job[t].n \in 1 .. Len(Queries(job[t].r)) /\ live \subseteq Streams
  BY <1>1 DEF TypeInv, Placed, SharedOK
<1> DEFINE q == NextQuery(t)  k == q.under  j == job[t]
           others(now) == {u \in Threads \ {t} :
                             /\ job[u] # Idle
                             /\ Hit(job[u].r) \notin {None, HitIn(now, job[u].r)}}
<1>4. PICK s \in Matches(q) :
        /\ hits' = [hits EXCEPT ![k] = s]
        /\ soft' = IF j.failed \/ j.moved \/ ~j.own THEN soft \union {k} ELSE soft
        /\ job' = [Moved(others(hits')) EXCEPT
                     ![t] = [Ended(j, s, k) EXCEPT !.moved = @ \/ HitIn(hits', j.r) # s]]
  BY DEF AskFinds
<1>5. q = Queries(j.r)[j.n] /\ k \in Keys
  BY <1>3, KeysProperties DEF NextQuery
<1>6. s \in Streams /\ s \in Streams \union {None}
  BY <1>3 DEF Matches
<1>7. PICK e : e = Ended(j, s, k)
  OBVIOUS
<1> HIDE DEF q, k, j
<1>8. e \in JobType /\ Keeps(e, j) /\ e.own = j.own /\ e.at = "done" /\ e.id = s /\ e.by = k
  <2>1. k \in Bys
    BY <1>5, BysProperties
  <2>2. j \in JobType
    BY <1>2 DEF j
  <2>3. QED
    BY <1>6, <1>7, <2>1, <2>2, EndedRecord
<1>9. PICK v \in BOOLEAN : v = (e.moved \/ HitIn(hits', j.r) # s)
  OBVIOUS
<1>10. PICK f : f = [e EXCEPT !.moved = v]
  OBVIOUS
<1>11. /\ f \in JobType
       /\ f.for = e.for /\ f.at = e.at /\ f.r = e.r
       /\ f.pushed = e.pushed /\ f.id = e.id /\ f.by = e.by
       /\ f.own = e.own /\ f.failed = e.failed
       /\ f.moved = v /\ f.raced = e.raced
  BY <1>8, <1>10, MarkedRecord
<1>12. PICK o \in SUBSET Threads : o = others(hits')
  OBVIOUS
<1>13. job' = [Moved(o) EXCEPT ![t] = f]
  BY <1>4, <1>7, <1>9, <1>10, <1>12
<1>14. /\ Moved(o) \in [Threads -> JobType]
       /\ \A u \in Threads : /\ Marked(Moved(o)[u], job[u])
                             /\ u \in o /\ job[u].at # "idle" => Moved(o)[u].moved
  BY MovedJobs
<1>15. /\ job' \in [Threads -> JobType] /\ job'[t] = f
       /\ \A u \in Threads : u # t => job'[u] = Moved(o)[u]
  BY <1>11, <1>13, <1>14
<1>16. BecomesFound(f, j, s, k)
  <2>1. j.at = "ask" /\ s \in Matches(Queries(j.r)[j.n]) /\ k = Queries(j.r)[j.n].under
    BY <1>1, <1>5 DEF j, k
  <2>2. j.moved => f.moved
    BY <1>8, <1>9, <1>11 DEF Keeps
  <2>3. QED
    BY <1>8, <1>11, <2>1, <2>2 DEF BecomesFound, Keeps
<1>17. ~f.moved => HitIn(hits', j.r) = s
  BY <1>9, <1>11
<1>18. ASSUME NEW u \in Threads, u # t
       PROVE  /\ Marked(job'[u], job[u])
              /\ job[u].at # "idle" /\ ~job'[u].moved =>
                   Hit(job[u].r) \in {None, HitIn(hits', job[u].r)}
  <2>1. job[u].at # "idle" => job[u] # Idle
    BY IdleRecord
  <2>2. QED
    BY <1>12, <1>14, <1>15, <1>18, <2>1
<1>19. QED
  BY <1>1, <1>4, <1>5, <1>6, <1>15, <1>16, <1>17, <1>18 DEF j

(* A query without an answer.                                              *)
BecomesNext(a, b) ==
  /\ b.at = "ask" /\ b.n < Len(Queries(b.r)) /\ a.at = "ask" /\ a.n = b.n + 1

BecomesAsked(a, b) ==
  /\ b.at = "ask" /\ b.n = Len(Queries(b.r)) /\ a.at = "done" /\ a.id = None

LEMMA FruitlessSteps ==
  ASSUME TypeInv, NEW t \in Threads, AskFindsNone(t) \/ AskFails(t)
  PROVE  /\ UNCHANGED <<role, live, warm, idMap, hits, soft, deletions>>
         /\ OnlyJob(t)
         /\ faults' \in 0 .. MaxFaults
         /\ job[t].at = "ask"
         /\ job'[t].for = job[t].for /\ job'[t].r = job[t].r /\ job'[t].own = job[t].own
         /\ job'[t].pushed = job[t].pushed /\ job'[t].raced = job[t].raced
         /\ job'[t].moved = job[t].moved /\ (job[t].failed => job'[t].failed)
         /\ ~job'[t].failed => Matches(Queries(job[t].r)[job[t].n]) = {}
         /\ \/ UNCHANGED misses /\ BecomesNext(job'[t], job[t])
            \/ /\ misses' = [misses EXCEPT ![MissKey(job[t].r)] = TTL]
               /\ BecomesAsked(job'[t], job[t])
<1>1. /\ UNCHANGED <<role, live, warm, idMap, hits, soft, deletions>>
      /\ job[t].at = "ask"
  BY DEF AskFindsNone, AskFails
<1>2. job \in [Threads -> JobType] /\ job[t] \in JobType
  BY DEF TypeInv
<1>3. job[t].r \in Readings /\ job[t].n \in 1 .. Len(Queries(job[t].r))
  BY <1>1 DEF TypeInv, Placed
<1>4. faults' \in 0 .. MaxFaults
  <2>1. faults \in 0 .. MaxFaults /\ MaxFaults \in Nat
    BY LookupAssumption DEF TypeInv, SharedOK
  <2>2. faults' = faults \/ (faults < MaxFaults /\ faults' = faults + 1)
    BY DEF AskFindsNone, AskFails
  <2>3. QED
    BY <2>1, <2>2
<1>5. PICK b : b = job[t]
  OBVIOUS
<1>6. PICK g : g = [b EXCEPT !.failed = TRUE]
  OBVIOUS
<1>7. /\ g \in JobType /\ g.failed /\ g.raced = b.raced
      /\ g.moved = b.moved /\ g.for = b.for /\ g.at = b.at /\ g.r = b.r
      /\ g.n = b.n /\ g.pushed = b.pushed /\ g.own = b.own
  BY <1>2, <1>5, <1>6, FailedRecord
<1>8. \/ Matches(Queries(b.r)[b.n]) = {} /\ AfterMiss(t, b)
      \/ AfterMiss(t, g)
  BY <1>5, <1>6 DEF AskFindsNone, AskFails, NextQuery
<1>9. PICK j \in JobType :
        /\ AfterMiss(t, j)
        /\ j.for = b.for /\ j.at = b.at /\ j.r = b.r /\ j.n = b.n
        /\ j.pushed = b.pushed /\ j.own = b.own /\ j.raced = b.raced
        /\ j.moved = b.moved /\ (b.failed => j.failed)
        /\ ~j.failed => Matches(Queries(b.r)[b.n]) = {}
  <2>1. CASE AfterMiss(t, g)
    BY <1>7, <2>1
  <2>2. CASE Matches(Queries(b.r)[b.n]) = {} /\ AfterMiss(t, b)
    BY <1>2, <1>5, <2>2
  <2>3. QED
    BY <1>8, <2>1, <2>2
<1>10. PICK m : m = Len(Queries(j.r))
  OBVIOUS
<1>11. j.n \in 1 .. m /\ m \in Nat /\ j.at = "ask"
  BY <1>1, <1>3, <1>5, <1>9, <1>10, QueriesProperties
<1>12. CASE j.n < m
  <2>1. PICK e : e = [j EXCEPT !.n = @ + 1]
    OBVIOUS
  <2>2. e \in JobType /\ Keeps(e, j) /\ e.at = j.at /\ e.n = j.n + 1 /\ e.own = j.own
    BY <2>1, NextRecord
  <2>3. Set(t, e) /\ UNCHANGED misses
    BY <1>9, <1>10, <1>12, <2>1 DEF AfterMiss
  <2>4. OnlyJob(t) /\ job'[t] = e
    BY <1>2, <2>2, <2>3, SetJob DEF OnlyJob
  <2>5. BecomesNext(e, b)
    BY <1>9, <1>10, <1>11, <1>12, <2>2 DEF BecomesNext
  <2>6. QED
    BY <1>1, <1>4, <1>5, <1>9, <2>2, <2>3, <2>4, <2>5 DEF Keeps
<1>13. CASE ~(j.n < m)
  <2>1. PICK e : e = Ended(j, None, <<"asked">>)
    OBVIOUS
  <2>2. <<"asked">> \in Bys /\ None \in Streams \union {None}
    BY BysProperties
  <2>3. e \in JobType /\ Keeps(e, j) /\ e.own = j.own /\ e.at = "done" /\ e.id = None
    BY <2>1, <2>2, EndedRecord
  <2>4. Set(t, e) /\ misses' = [misses EXCEPT ![MissKey(j.r)] = TTL]
    BY <1>9, <1>10, <1>13, <2>1 DEF AfterMiss
  <2>5. OnlyJob(t) /\ job'[t] = e
    BY <1>2, <2>3, <2>4, SetJob DEF OnlyJob
  <2>6. j.n = m
    BY <1>11, <1>13
  <2>7. BecomesAsked(e, b)
    BY <1>9, <1>10, <1>11, <2>3, <2>6 DEF BecomesAsked
  <2>8. QED
    BY <1>1, <1>4, <1>5, <1>9, <2>3, <2>4, <2>5, <2>7 DEF Keeps
<1>14. QED
  BY <1>12, <1>13

(* Warming up happens before any lookup; what it maps a name to has it.    *)
LEMMA FirstOfProperties ==
  ASSUME NEW order \in Seq(Streams), NEW n
  PROVE  \/ FirstOf(order, n) = None
         \/ /\ FirstOf(order, n) \in Streams /\ n \in NamesOf(FirstOf(order, n))
            /\ ~Nameless(n)
<1> DEFINE T == {i \in 1 .. Len(order) : n \in NamesOf(order[i])}
           p == IF T # {} THEN Min(T) ELSE 0
<1>1. FirstOf(order, n) = IF p = 0 \/ Nameless(n) THEN None ELSE order[p]
  BY DEF FirstOf, SelectInSeq
<1>2. p # 0 => p \in T
  <2>1. T \subseteq Nat
    OBVIOUS
  <2>2. T # {} => Min(T) \in T
    BY <2>1, Least
  <2> HIDE DEF T
  <2>3. QED
    BY <2>2
<1>3. p # 0 => p \in 1 .. Len(order) /\ n \in NamesOf(order[p])
  BY <1>2
<1> HIDE DEF p
<1>4. p # 0 => order[p] \in Streams
  BY <1>3
<1>5. QED
  BY <1>1, <1>3, <1>4

LEMMA WarmUpSteps ==
  ASSUME TypeInv, WarmUp
  PROVE  /\ UNCHANGED <<role, live, hits, misses, job, soft, deletions>>
         /\ warm' = TRUE /\ faults' \in 0 .. MaxFaults
         /\ idMap' \in [Names -> Streams \union {None}]
         /\ \A n \in Names :
              \/ idMap'[n] = idMap[n]
              \/ idMap'[n] \in Streams /\ n \in NamesOf(idMap'[n]) /\ ~Nameless(n)
         /\ \A t \in Threads : job[t].at = "idle" /\ job[t].for = "nothing"
<1>1. UNCHANGED <<role, live, hits, misses, job, soft, deletions>> /\ warm' = TRUE /\ ~warm
  BY DEF WarmUp
<1>2. faults' \in 0 .. MaxFaults
  <2>1. faults \in 0 .. MaxFaults /\ MaxFaults \in Nat
    BY LookupAssumption DEF TypeInv, SharedOK
  <2>2. faults' = faults \/ (faults < MaxFaults /\ faults' = faults + 1)
    BY DEF WarmUp
  <2>3. QED
    BY <2>1, <2>2
<1>3. idMap \in [Names -> Streams \union {None}] /\ live \subseteq Streams
  BY DEF TypeInv, SharedOK
<1>4. /\ idMap' \in [Names -> Streams \union {None}]
      /\ \A n \in Names :
           \/ idMap'[n] = idMap[n]
           \/ idMap'[n] \in Streams /\ n \in NamesOf(idMap'[n]) /\ ~Nameless(n)
  <2>1. CASE idMap' = idMap
    BY <1>3, <2>1
  <2>2. CASE \E order \in SetToSeqs(live) :
               idMap' = [n \in Names |-> IF idMap[n] # None THEN idMap[n]
                                         ELSE FirstOf(order, n)]
    <3>1. PICK order \in SetToSeqs(live) :
            idMap' = [n \in Names |-> IF idMap[n] # None THEN idMap[n]
                                      ELSE FirstOf(order, n)]
      BY <2>2
    <3>2. order \in [1 .. Cardinality(live) -> live]
      BY DEF SetToSeqs
    <3>3. order \in Seq(Streams)
      <4>1. Cardinality(live) \in Nat
        BY <1>3, LookupAssumption, FS_Subset, FS_CardinalityType
      <4>2. order \in Seq(live)
        BY <3>2, <4>1
      <4>3. QED
        BY <1>3, <4>2
    <3>4. QED
      BY <1>3, <3>1, <3>3, FirstOfProperties
  <2>3. QED
    BY <2>1, <2>2 DEF WarmUp
<1>5. \A t \in Threads : job[t].at = "idle" /\ job[t].for = "nothing"
  <2> TAKE t \in Threads
  <2>1. job[t].at = "idle"
    BY <1>1 DEF TypeInv, Placed
  <2>2. QED
    BY <2>1 DEF TypeInv, Placed
<1>6. QED
  BY <1>1, <1>2, <1>4, <1>5

LEMMA TickSteps ==
  ASSUME TypeInv, Tick
  PROVE  /\ UNCHANGED <<role, live, warm, idMap, hits, job, soft, deletions, faults>>
         /\ misses' \in [Keys -> Absent .. TTL]
         /\ \A k \in Keys : misses[k] # Absent => misses'[k] # Absent
<1>1. misses \in [Keys -> Absent .. TTL] /\ TTL \in Nat
  BY LookupAssumption DEF TypeInv, SharedOK
<1>2. ASSUME NEW m \in Absent .. TTL
      PROVE  /\ m > 0 => m - 1 \in Absent .. TTL /\ m - 1 # Absent
  BY <1>1 DEF Absent
<1>3. /\ UNCHANGED <<role, live, warm, idMap, hits, job, soft, deletions, faults>>
      /\ misses' = [k \in Keys |-> IF misses[k] > 0 THEN misses[k] - 1 ELSE misses[k]]
  BY DEF Tick
<1>4. \A k \in Keys : /\ misses'[k] \in Absent .. TTL
                      /\ misses[k] # Absent => misses'[k] # Absent
  <2> TAKE k \in Keys
  <2> DEFINE m == misses[k]  n == misses'[k]
  <2>1. m \in Absent .. TTL
    BY <1>1
  <2>2. n = IF m > 0 THEN m - 1 ELSE m
    BY <1>3
  <2> HIDE DEF m, n
  <2>3. n \in Absent .. TTL /\ (m # Absent => n # Absent)
    BY <1>2, <2>1, <2>2
  <2>4. QED
    BY <2>3 DEF m, n
<1>5. QED
  BY <1>3, <1>4

LEMMA Steps ==
  ASSUME Next
  PROVE  \/ WarmUp \/ Tick \/ TargetStep
         \/ \E t \in Threads : LocalStep(t) \/ Drop(t) \/ AskFinds(t)
                               \/ AskFindsNone(t) \/ AskFails(t)
BY DEF Next, Step, LocalStep, TargetStep

-----------------------------------------------------------------------------
(* Type correctness.                                                       *)
LEMMA TypeInit == Init => TypeInv
<1> SUFFICES ASSUME Init PROVE TypeInv
  OBVIOUS
<1>1. SharedOK
  <2>1. MaxDeletions \in Nat /\ MaxFaults \in Nat /\ TTL \in Nat
    BY LookupAssumption
  <2>2. Absent \in Absent .. TTL /\ 0 \in 0 .. MaxDeletions /\ 0 \in 0 .. MaxFaults
    BY <2>1 DEF Absent
  <2>3. QED
    BY <2>2 DEF Init, SharedOK
<1>2. job \in [Threads -> JobType]
  BY IdleRecord DEF Init
<1>3. \A t \in Threads : job[t].at = "idle" /\ job[t].for = "nothing"
  BY IdleRecord DEF Init
<1>4. \A t \in Threads : Placed(job[t])
  BY <1>3 DEF Placed
<1>5. QED
  BY <1>1, <1>2, <1>4 DEF TypeInv

LEMMA PlacedLocally ==
  ASSUME TypeInv, NEW t \in Threads, LocalStep(t)
  PROVE  Placed(job[t])'
<1>1. AsBefore /\ LocalChange(job'[t], job[t])
  BY LocalSteps
<1>2. warm' = warm /\ Placed(job[t])
  BY <1>1 DEF AsBefore, TypeInv
<1>3. PICK a, b : a = job'[t] /\ b = job[t]
  OBVIOUS
<1>4. /\ b.at = "idle" => b.for = "nothing"
      /\ b.at # "idle" => warm /\ b.r \in Readings /\ b.for # "nothing"
  BY <1>2, <1>3 DEF Placed
<1> DEFINE OK == /\ a.at = "idle" => a.for = "nothing"
                 /\ a.at # "idle" => warm /\ a.r \in Readings /\ a.for # "nothing"
                 /\ a.at = "begin" => ~a.own
                 /\ a.at = "ask" => a.n \in 1 .. Len(Queries(a.r))
<1> SUFFICES OK
  BY <1>2, <1>3 DEF Placed
<1>5. LocalChange(a, b)
  BY <1>1, <1>3
<1>6. CASE BecomesIdle(a, b)
  BY <1>6, IdleRecord DEF BecomesIdle
<1>7. CASE BecomesForward(a, b)
  BY <1>4, <1>7 DEF BecomesForward
<1>8. CASE BecomesStarted(a, b)
  BY <1>8 DEF BecomesStarted
<1>9. CASE BecomesAsking(a, b)
  <2>1. b.r \in Readings /\ warm /\ b.for # "nothing" /\ a.r = b.r /\ a.for = b.for
    BY <1>4, <1>9 DEF BecomesAsking, Keeps
  <2>2. 1 \in 1 .. Len(Queries(b.r))
    BY <2>1, QueriesProperties
  <2>3. QED
    BY <1>9, <2>1, <2>2 DEF BecomesAsking
<1>10. CASE \/ BecomesMapped(a, b) \/ BecomesRefused(a, b) \/ BecomesLive(a, b)
            \/ BecomesHit(a, b) \/ BecomesUncached(a, b) \/ BecomesMissed(a, b)
            \/ BecomesDropping(a, b) \/ BecomesRaised(a, b)
  <2>1. b.at # "idle" /\ a.at \in {"cache", "miss", "drop", "done"} /\ Keeps(a, b)
    BY <1>10 DEF BecomesMapped, BecomesRefused, BecomesLive, BecomesHit, BecomesUncached,
                 BecomesMissed, BecomesDropping, BecomesRaised
  <2>2. QED
    BY <1>4, <2>1 DEF Keeps
<1>11. QED
  BY <1>5, <1>6, <1>7, <1>8, <1>9, <1>10 DEF LocalChange

LEMMA PlacedMarked ==
  ASSUME TypeInv, NEW u \in Threads, warm' = warm, Marked(job'[u], job[u])
  PROVE  Placed(job[u])'
BY DEF TypeInv, Placed, Marked

LEMMA TypeStep == TypeInv /\ [Next]_vars => TypeInv'
<1> SUFFICES ASSUME TypeInv, [Next]_vars PROVE TypeInv'
  OBVIOUS
<1>1. SharedOK /\ job \in [Threads -> JobType] /\ \A t \in Threads : Placed(job[t])
  BY DEF TypeInv
<1>2. CASE WarmUp
  <2>1. SharedOK'
    BY <1>1, <1>2, WarmUpSteps DEF SharedOK
  <2>2. job' = job /\ \A t \in Threads : job[t].at = "idle" /\ job[t].for = "nothing"
    BY <1>2, WarmUpSteps
  <2>3. \A t \in Threads : Placed(job[t])'
    BY <2>2 DEF Placed
  <2>4. QED
    BY <1>1, <2>1, <2>2, <2>3 DEF TypeInv
<1>3. CASE Tick
  <2>1. UNCHANGED <<role, live, warm, idMap, hits, job, soft, deletions, faults>>
        /\ misses' \in [Keys -> Absent .. TTL]
    BY <1>3, TickSteps
  <2>2. SharedOK'
    BY <1>1, <2>1 DEF SharedOK
  <2>3. \A t \in Threads : Placed(job[t])'
    BY <1>1, <2>1 DEF Placed
  <2>4. QED
    BY <1>1, <2>1, <2>2, <2>3 DEF TypeInv
<1>4. CASE TargetStep
  <2>1. /\ UNCHANGED <<role, warm, hits, misses, soft, faults>>
        /\ live' \subseteq Streams /\ deletions' \in 0 .. MaxDeletions
        /\ idMap' = idMap \/ \E s \in Streams : idMap' = [idMap EXCEPT ![DsKey(s)] = s]
        /\ job' \in [Threads -> JobType]
        /\ \A u \in Threads : Marked(job'[u], job[u])
    BY <1>4, TargetSteps
  <2>2. idMap' \in [Names -> Streams \union {None}]
    BY <1>1, <2>1 DEF SharedOK
  <2>3. SharedOK'
    BY <1>1, <2>1, <2>2 DEF SharedOK
  <2>4. QED
    BY <2>1, <2>3, PlacedMarked DEF TypeInv
<1>5. ASSUME NEW t \in Threads, LocalStep(t) PROVE TypeInv'
  <2>1. AsBefore /\ OnlyJob(t)
    BY <1>5, LocalSteps
  <2>2. SharedOK' /\ job' \in [Threads -> JobType]
    BY <1>1, <2>1 DEF SharedOK, AsBefore, OnlyJob
  <2>3. \A u \in Threads : u # t => Placed(job[u])'
    BY <1>1, <2>1 DEF Placed, AsBefore, OnlyJob
  <2>4. QED
    BY <1>5, <2>2, <2>3, PlacedLocally DEF TypeInv
<1>6. ASSUME NEW t \in Threads, Drop(t) PROVE TypeInv'
  <2>1. /\ UNCHANGED <<role, live, warm, idMap, hits, soft, deletions, faults>>
        /\ misses' = [misses EXCEPT ![MissKey(job[t].r)] = Absent]
        /\ job' \in [Threads -> JobType] /\ job[t].at = "drop"
        /\ BecomesAsking(job'[t], job[t])
        /\ \A u \in Threads : u # t => Marked(job'[u], job[u])
    BY <1>6, DropSteps
  <2>2. TTL \in Nat
    BY LookupAssumption
  <2>3. Absent \in Absent .. TTL
    BY <2>2 DEF Absent
  <2>4. SharedOK'
    BY <1>1, <2>1, <2>3 DEF SharedOK
  <2>5. warm /\ job[t].r \in Readings /\ job[t].for # "nothing"
    BY <1>1, <2>1 DEF Placed
  <2>6. 1 \in 1 .. Len(Queries(job[t].r))
    BY <2>5, QueriesProperties
  <2>7. Placed(job[t])'
    BY <2>1, <2>5, <2>6 DEF Placed, BecomesAsking, Keeps
  <2>8. QED
    BY <2>1, <2>4, <2>7, PlacedMarked DEF TypeInv
<1>7. ASSUME NEW t \in Threads, AskFinds(t) PROVE TypeInv'
  <2>1. /\ UNCHANGED <<role, live, warm, idMap, misses, deletions, faults>>
        /\ job' \in [Threads -> JobType]
        /\ \A u \in Threads : u # t => Marked(job'[u], job[u])
    BY <1>7, AskFindsSteps
  <2>2. PICK s \in Streams, k \in Keys :
          /\ hits' = [hits EXCEPT ![k] = s]
          /\ soft' = IF job[t].failed \/ job[t].moved \/ ~job[t].own
                     THEN soft \union {k} ELSE soft
          /\ BecomesFound(job'[t], job[t], s, k)
    BY <1>7, AskFindsSteps
  <2>3. soft' \subseteq Keys /\ hits' \in [Keys -> Streams \union {None}]
    BY <1>1, <2>2 DEF SharedOK
  <2>4. SharedOK'
    BY <1>1, <2>1, <2>3 DEF SharedOK
  <2>5. Placed(job[t])'
    BY <1>1, <2>1, <2>2 DEF Placed, BecomesFound
  <2>6. QED
    BY <2>1, <2>4, <2>5, PlacedMarked DEF TypeInv
<1>8. ASSUME NEW t \in Threads, AskFindsNone(t) \/ AskFails(t) PROVE TypeInv'
  <2>1. /\ UNCHANGED <<role, live, warm, idMap, hits, soft, deletions>>
        /\ OnlyJob(t) /\ faults' \in 0 .. MaxFaults /\ job[t].at = "ask"
        /\ job'[t].for = job[t].for /\ job'[t].r = job[t].r
        /\ \/ UNCHANGED misses /\ BecomesNext(job'[t], job[t])
           \/ /\ misses' = [misses EXCEPT ![MissKey(job[t].r)] = TTL]
              /\ BecomesAsked(job'[t], job[t])
    BY <1>8, FruitlessSteps
  <2>2. TTL \in Nat
    BY LookupAssumption
  <2>3. TTL \in Absent .. TTL
    BY <2>2 DEF Absent
  <2>4. SharedOK'
    BY <1>1, <2>1, <2>3 DEF SharedOK
  <2>5. warm /\ job[t].r \in Readings /\ job[t].for # "nothing"
        /\ job[t].n \in 1 .. Len(Queries(job[t].r))
    BY <1>1, <2>1 DEF Placed
  <2>6. Len(Queries(job[t].r)) \in Nat
    BY <2>5, QueriesProperties
  <2>7. Placed(job[t])'
    <3>1. PICK n, m : n = job[t].n /\ m = Len(Queries(job[t].r))
      OBVIOUS
    <3>2. n < m => n + 1 \in 1 .. m
      BY <2>5, <2>6, <3>1
    <3>3. CASE BecomesNext(job'[t], job[t])
      <4>1. job'[t].at = "ask" /\ job'[t].n \in 1 .. m
        BY <3>1, <3>2, <3>3 DEF BecomesNext
      <4>2. QED
        BY <2>1, <2>5, <3>1, <4>1 DEF Placed
    <3>4. CASE BecomesAsked(job'[t], job[t])
      BY <2>1, <2>5, <3>4 DEF Placed, BecomesAsked
    <3>5. QED
      BY <2>1, <3>3, <3>4
  <2>8. \A u \in Threads : u # t => Placed(job[u])'
    BY <1>1, <2>1 DEF Placed, OnlyJob
  <2>9. QED
    BY <2>1, <2>4, <2>7, <2>8 DEF TypeInv, OnlyJob
<1>9. CASE UNCHANGED vars
  BY <1>9 DEF TypeInv, SharedOK, Placed, vars
<1>10. QED
  BY <1>2, <1>3, <1>4, <1>5, <1>6, <1>7, <1>8, <1>9, Steps

LEMMA TypeInvariant == Spec => []TypeInv
BY TypeInit, TypeStep, PTL DEF Spec

(* Types, and no query beyond the last: TypeOK.                            *)
THEOREM TypeCorrect == Spec => []TypeOK
<1>1. TypeInv => TypeOK
  BY DEF TypeInv, TypeOK, SharedOK, Placed, JobType, Fors, Stages
<1>2. QED
  BY <1>1, TypeInvariant, PTL

-----------------------------------------------------------------------------
(* Push and monitoring agree.                                              *)
LEMMA SteadyMap ==
  ASSUME UNCHANGED <<role, idMap>>
  PROVE  \A for, r : Mapped(for, r)' = Mapped(for, r)
BY DEF Mapped, Chain, Lookup, SelectInSeq

LEMMA AgreeInit == Init => AgreeInv
<1> SUFFICES ASSUME Init PROVE AgreeInv
  OBVIOUS
<1>1. \A t \in Threads : job[t].at = "idle" /\ job[t].for = "nothing"
  BY IdleRecord DEF Init
<1>2. \A t \in Threads : Agrees(job[t])
  BY <1>1 DEF Agrees, Running
<1>3. QED
  BY <1>2, TypeInit DEF AgreeInv

(* As long as the id map is what it was, and the cache says the same.      *)
LEMMA AgreesMarked ==
  ASSUME TypeInv, NEW u \in Threads, Agrees(job[u]), Marked(job'[u], job[u]),
         UNCHANGED <<role, idMap>>,
         job[u].at # "idle" /\ ~job'[u].moved =>
           HitIn(hits, job[u].r) \in {None, HitIn(hits', job[u].r)}
  PROVE  Agrees(job[u])'
<1>1. \A for, r : Mapped(for, r)' = Mapped(for, r)
  BY SteadyMap
<1>2. job[u].at = "idle" => job[u].for = "nothing"
  BY DEF TypeInv, Placed
<1>3. PICK a, b : a = job'[u] /\ b = job[u]
  OBVIOUS
<1>4. PICK h, g : h = HitIn(hits, b.r) /\ g = HitIn(hits', b.r)
  OBVIOUS
<1>5. b.at # "idle" /\ ~a.moved => h \in {None, g}
  BY <1>3, <1>4
<1>6. PICK m, p : m = Mapped(b.for, b.r) /\ p = Mapped("push", b.r)
  OBVIOUS
<1>7. /\ a.for = b.for /\ a.at = b.at /\ a.r = b.r
      /\ a.pushed = b.pushed /\ a.id = b.id /\ (b.moved => a.moved)
  BY <1>3 DEF Marked
<1>8. /\ Running(b) /\ ~b.moved => m = None
      /\ b.for = "push" /\ b.at = "done" /\ b.id # None /\ ~b.moved =>
           p = b.id \/ (p = None /\ h = b.id)
      /\ b.for = "monitor" /\ b.pushed # None /\ ~b.moved =>
           /\ b.at \in {"begin", "cache", "done"}
           /\ p = b.pushed \/ (p = None /\ h = b.pushed)
           /\ b.at = "done" => b.id = b.pushed
  BY <1>3, <1>4, <1>6 DEF Agrees, Same, Hit
<1>9. /\ Running(a) /\ ~a.moved => m = None
      /\ a.for = "push" /\ a.at = "done" /\ a.id # None /\ ~a.moved =>
           p = a.id \/ (p = None /\ g = a.id)
      /\ a.for = "monitor" /\ a.pushed # None /\ ~a.moved =>
           /\ a.at \in {"begin", "cache", "done"}
           /\ p = a.pushed \/ (p = None /\ g = a.pushed)
           /\ a.at = "done" => a.id = a.pushed
  BY <1>2, <1>3, <1>5, <1>7, <1>8 DEF Running
<1>10. Mapped(a.for, a.r)' = m /\ Mapped("push", a.r)' = p /\ HitIn(hits', a.r) = g
  BY <1>1, <1>4, <1>6, <1>7
<1>11. QED
  BY <1>3, <1>9, <1>10 DEF Agrees, Same, Hit, Running

LEMMA AgreesMoved ==
  ASSUME NEW u \in Threads,
         job'[u].moved \/ (job'[u].at = "idle" /\ job'[u].for = "nothing")
  PROVE  Agrees(job[u])'
BY DEF Agrees, Running

LEMMA AgreesAsking ==
  ASSUME NEW t \in Threads, Agrees(job[t]), UNCHANGED <<role, idMap>>,
         job[t].at \in {"drop", "ask"},
         job'[t].for = job[t].for, job'[t].r = job[t].r, job'[t].pushed = job[t].pushed,
         job'[t].moved = job[t].moved,
         job'[t].at = "ask" \/ (job'[t].at = "done" /\ job'[t].id = None)
  PROVE  Agrees(job[t])'
<1>1. PICK a, b : a = job'[t] /\ b = job[t]
  OBVIOUS
<1>2. Mapped(a.for, a.r)' = Mapped(a.for, a.r)
  BY SteadyMap
<1>3. /\ ~b.moved => Mapped(b.for, b.r) = None
      /\ b.for = "monitor" /\ b.pushed # None => b.moved
  BY <1>1 DEF Agrees, Running
<1>4. a.for = b.for /\ a.r = b.r /\ a.pushed = b.pushed /\ a.moved = b.moved
      /\ (a.at = "ask" \/ (a.at = "done" /\ a.id = None))
  BY <1>1
<1>5. QED
  BY <1>1, <1>2, <1>3, <1>4 DEF Agrees, Running

LEMMA AgreesLocally ==
  ASSUME AgreeInv, NEW t \in Threads, LocalStep(t)
  PROVE  Agrees(job[t])'
<1>1. AsBefore /\ LocalChange(job'[t], job[t])
  BY LocalSteps DEF AgreeInv
<1>2. PICK a, b : a = job'[t] /\ b = job[t]
  OBVIOUS
<1>3. PICK h, m, p : h = HitIn(hits, b.r) /\ m = Mapped(b.for, b.r) /\ p = Mapped("push", b.r)
  OBVIOUS
<1>4. /\ Running(b) /\ ~b.moved => m = None
      /\ b.for = "push" /\ b.at = "done" /\ b.id # None /\ ~b.moved =>
           p = b.id \/ (p = None /\ h = b.id)
      /\ b.for = "monitor" /\ b.pushed # None /\ ~b.moved =>
           /\ b.at \in {"begin", "cache", "done"}
           /\ p = b.pushed \/ (p = None /\ h = b.pushed)
           /\ b.at = "done" => b.id = b.pushed
  BY <1>2, <1>3 DEF AgreeInv, Agrees, Same, Hit
<1>5. b.for \in {"push", "monitor"} => m = p
  BY <1>3, MappedAlike
<1> DEFINE OK(n, q, g) ==
             /\ Running(a) /\ ~a.moved => n = None
             /\ a.for = "push" /\ a.at = "done" /\ a.id # None /\ ~a.moved =>
                  q = a.id \/ (q = None /\ g = a.id)
             /\ a.for = "monitor" /\ a.pushed # None /\ ~a.moved =>
                  /\ a.at \in {"begin", "cache", "done"}
                  /\ q = a.pushed \/ (q = None /\ g = a.pushed)
                  /\ a.at = "done" => a.id = a.pushed
<1>6. OK(Mapped(a.for, a.r), Mapped("push", a.r), HitIn(hits, a.r)) => Agrees(job[t])'
  <2>1. Mapped(a.for, a.r)' = Mapped(a.for, a.r) /\ Mapped("push", a.r)' = Mapped("push", a.r)
        /\ hits' = hits
    BY <1>1, SteadyMap DEF AsBefore
  <2>2. QED
    BY <1>2, <2>1 DEF Agrees, Same, Hit
<1>7. LocalChange(a, b)
  BY <1>1, <1>2
<1>8. CASE a.at = "idle"
  <2>1. a.for = "nothing"
    BY <1>7, <1>8, IdleRecord
       DEF LocalChange, BecomesIdle, BecomesForward, BecomesStarted, BecomesMapped,
           BecomesRefused, BecomesLive, BecomesHit, BecomesUncached, BecomesMissed,
           BecomesAsking, BecomesDropping, BecomesRaised
  <2>2. QED
    BY <1>2, <1>8, <2>1, AgreesMoved
<1>9. CASE BecomesForward(a, b)
  <2>1. OK(Mapped(a.for, a.r), p, h)
    BY <1>4, <1>9 DEF BecomesForward, Running
  <2>2. QED
    BY <1>3, <1>6, <1>9, <2>1 DEF BecomesForward
<1>10. CASE BecomesStarted(a, b)
  <2>1. OK(Mapped(a.for, a.r), Mapped("push", a.r), HitIn(hits, a.r))
    BY <1>10 DEF BecomesStarted, Running
  <2>2. QED
    BY <1>6, <2>1
<1>11. CASE Keeps(a, b) /\ a.at # "idle" /\ ~BecomesForward(a, b) /\ ~BecomesStarted(a, b)
  <2>1. a.for = b.for /\ a.r = b.r /\ a.pushed = b.pushed /\ a.moved = b.moved
    BY <1>11 DEF Keeps
  <2>2. \/ b.at = "begin" /\ m # None /\ a.at = "done" /\ a.id = m
        \/ b.at = "begin" /\ b.for = "push" /\ a.at = "done" /\ a.id = None
        \/ b.at = "begin" /\ m = None /\ a.at = "cache"
        \/ b.at = "cache" /\ h # None /\ a.at = "done" /\ a.id = h
        \/ b.at = "cache" /\ h = None /\ a.at = "miss"
        \/ b.at \in {"miss", "drop"} /\ a.at = "done" /\ a.id = None
        \/ b.at \in {"miss", "drop"} /\ a.at \in {"ask", "drop"}
    BY <1>3, <1>7, <1>11, IdleRecord
       DEF LocalChange, BecomesIdle, BecomesMapped,
           BecomesRefused, BecomesLive, BecomesHit, BecomesUncached, BecomesMissed,
           BecomesAsking, BecomesDropping, BecomesRaised, Hit
  <2>3. OK(m, p, h)
    BY <1>4, <1>5, <2>1, <2>2 DEF Running
  <2>4. QED
    BY <1>3, <1>6, <2>1, <2>3
<1>12. Keeps(a, b) \/ BecomesForward(a, b) \/ BecomesStarted(a, b) \/ a.at = "idle"
  BY <1>7, IdleRecord
     DEF LocalChange, BecomesIdle, BecomesMapped, BecomesRefused, BecomesLive, BecomesHit,
         BecomesUncached, BecomesMissed, BecomesAsking, BecomesDropping, BecomesRaised
<1>13. QED
  BY <1>8, <1>9, <1>10, <1>11, <1>12

LEMMA AgreeStep == AgreeInv /\ [Next]_vars => AgreeInv'
<1> SUFFICES ASSUME AgreeInv, [Next]_vars PROVE AgreeInv'
  OBVIOUS
<1>1. TypeInv /\ TypeInv' /\ \A u \in Threads : Agrees(job[u])
  BY TypeStep DEF AgreeInv
<1> SUFFICES ASSUME NEW u \in Threads PROVE Agrees(job[u])'
  BY <1>1 DEF AgreeInv
<1>2. CASE UNCHANGED <<role, idMap, hits>> /\ job'[u] = job[u]
  <2>1. Marked(job'[u], job[u])
    BY <1>2 DEF Marked
  <2>2. QED
    BY <1>1, <1>2, <2>1, AgreesMarked
<1>3. CASE WarmUp
  <2>1. job' = job /\ job[u].at = "idle" /\ job[u].for = "nothing"
    BY <1>1, <1>3, WarmUpSteps
  <2>2. QED
    BY <2>1, AgreesMoved
<1>4. CASE Tick
  BY <1>1, <1>2, <1>4, TickSteps
<1>5. CASE TargetStep
  <2>1. Marked(job'[u], job[u]) /\ (job[u].at # "idle" => job'[u].moved)
    BY <1>1, <1>5, TargetSteps
  <2>2. job[u].at = "idle" => job[u].for = "nothing"
    BY <1>1 DEF TypeInv, Placed
  <2>3. QED
    BY <2>1, <2>2, AgreesMoved DEF Marked
<1>6. ASSUME NEW t \in Threads, LocalStep(t) PROVE Agrees(job[u])'
  <2>1. AsBefore /\ (u # t => job'[u] = job[u])
    BY <1>1, <1>6, LocalSteps DEF OnlyJob
  <2>2. CASE u = t
    BY <1>6, <2>2, AgreesLocally
  <2>3. CASE u # t
    BY <1>2, <2>1, <2>3 DEF AsBefore
  <2>4. QED
    BY <2>2, <2>3
<1>7. ASSUME NEW t \in Threads, Drop(t) PROVE Agrees(job[u])'
  <2>1. UNCHANGED <<role, live, warm, idMap, hits, soft, deletions, faults>>
    BY <1>1, <1>7, DropSteps
  <2>2. CASE u = t
    <3>1. job[t].at = "drop" /\ BecomesAsking(job'[t], job[t])
      BY <1>1, <1>7, DropSteps
    <3>2. /\ job'[t].for = job[t].for /\ job'[t].r = job[t].r /\ job'[t].at = "ask"
          /\ job'[t].pushed = job[t].pushed /\ job'[t].moved = job[t].moved
      BY <3>1 DEF BecomesAsking, Keeps
    <3>3. QED
      BY <1>1, <2>1, <2>2, <3>1, <3>2, AgreesAsking
  <2>3. CASE u # t
    <3>1. Marked(job'[u], job[u])
      BY <1>1, <1>7, <2>3, DropSteps
    <3>2. QED
      BY <1>1, <2>1, <3>1, AgreesMarked
  <2>4. QED
    BY <2>2, <2>3
<1>8. ASSUME NEW t \in Threads, AskFinds(t) PROVE Agrees(job[u])'
  <2>1. UNCHANGED <<role, live, warm, idMap, misses, deletions, faults>>
    BY <1>1, <1>8, AskFindsSteps
  <2>2. CASE u = t
    <3>1. PICK s \in Streams, k \in Keys :
            /\ BecomesFound(job'[t], job[t], s, k)
            /\ ~job'[t].moved => HitIn(hits', job[t].r) = s
      BY <1>1, <1>8, AskFindsSteps
    <3>2. PICK a, b : a = job'[t] /\ b = job[t]
      OBVIOUS
    <3>3. /\ b.at = "ask" /\ a.for = b.for /\ a.r = b.r /\ a.pushed = b.pushed
          /\ a.at = "done" /\ a.id = s /\ (b.moved => a.moved)
      BY <3>1, <3>2 DEF BecomesFound
    <3>4. PICK m, g : m = Mapped(b.for, b.r) /\ g = HitIn(hits', b.r)
      OBVIOUS
    <3>5. /\ ~b.moved => m = None
          /\ b.for = "monitor" /\ b.pushed # None => b.moved
      BY <1>1, <3>2, <3>3, <3>4 DEF Agrees, Running
    <3>6. a.for = "push" => Mapped("push", a.r)' = m
      BY <2>1, <3>3, <3>4, SteadyMap
    <3>7. HitIn(hits', a.r) = g /\ (~a.moved => g = s)
      BY <3>1, <3>2, <3>3, <3>4
    <3>8. QED
      BY <2>2, <3>2, <3>3, <3>5, <3>6, <3>7 DEF Agrees, Same, Hit, Running
  <2>3. CASE u # t
    <3>1. /\ Marked(job'[u], job[u])
          /\ job[u].at # "idle" /\ ~job'[u].moved =>
               HitIn(hits, job[u].r) \in {None, HitIn(hits', job[u].r)}
      BY <1>1, <1>8, <2>3, AskFindsSteps DEF Hit
    <3>2. QED
      BY <1>1, <2>1, <3>1, AgreesMarked
  <2>4. QED
    BY <2>2, <2>3
<1>9. ASSUME NEW t \in Threads, AskFindsNone(t) \/ AskFails(t) PROVE Agrees(job[u])'
  <2>1. UNCHANGED <<role, live, warm, idMap, hits, soft, deletions>> /\ OnlyJob(t)
    BY <1>1, <1>9, FruitlessSteps
  <2>2. CASE u = t
    <3>1. /\ job[t].at = "ask" /\ job'[t].for = job[t].for /\ job'[t].r = job[t].r
          /\ job'[t].pushed = job[t].pushed /\ job'[t].moved = job[t].moved
          /\ job'[t].at = "ask" \/ (job'[t].at = "done" /\ job'[t].id = None)
      BY <1>1, <1>9, FruitlessSteps DEF BecomesNext, BecomesAsked
    <3>2. QED
      BY <1>1, <2>1, <2>2, <3>1, AgreesAsking
  <2>3. CASE u # t
    BY <1>2, <2>1, <2>3 DEF OnlyJob
  <2>4. QED
    BY <2>2, <2>3
<1>10. CASE UNCHANGED vars
  BY <1>2, <1>10 DEF vars
<1>11. QED
  BY <1>3, <1>4, <1>5, <1>6, <1>7, <1>8, <1>9, <1>10, Steps

(* What was pushed to a datastream of the reading's own is forwarded to    *)
(* the monitoring module under the same id, unless the target or a cache   *)
(* was changed in between: ForwardedAsPushed, for any number of sources    *)
(* and whatever the datastreams and the readings.                          *)
THEOREM PushAndMonitorAgree == Spec => []ForwardedAsPushed
<1>1. AgreeInv => ForwardedAsPushed
  <2> SUFFICES ASSUME AgreeInv, NEW t \in Threads,
                      job[t].at = "done", job[t].for = "monitor", ~job[t].moved,
                      job[t].pushed \in Own(job[t].r)
               PROVE  job[t].id = job[t].pushed
    BY DEF ForwardedAsPushed, Done, Found
  <2>1. job[t].pushed # None
    BY LookupAssumption DEF Own
  <2>2. QED
    BY <2>1 DEF AgreeInv, Agrees
<1>2. QED
  BY <1>1, AgreeInit, AgreeStep, PTL DEF Spec

-----------------------------------------------------------------------------
(* A search comes back empty for a reason.                                 *)
Sought(j) == Searched(j) /\ EmptyHanded(j)

LEMMA SearchInit == Init => SearchInv
<1> SUFFICES ASSUME Init PROVE SearchInv
  OBVIOUS
<1>1. \A t \in Threads : job[t].at = "idle"
  BY IdleRecord DEF Init
<1>2. \A t \in Threads : Searched(job[t]) /\ EmptyHanded(job[t])
  BY <1>1 DEF Searched, EmptyHanded, Running
<1>3. QED
  BY <1>2, TypeInit DEF SearchInv

(* A job that is only marked, as long as the target has what it had.       *)
LEMMA SoughtMarked ==
  ASSUME NEW u \in Threads, Sought(job[u]), Marked(job'[u], job[u]),
         job[u].at \in {"idle", "begin"} \/ live' = live \/ job'[u].moved,
         job[u].at = "drop" /\ misses[MissKey(job[u].r)] # Absent =>
           misses'[MissKey(job[u].r)] # Absent \/ job'[u].raced
  PROVE  Sought(job[u])'
<1>1. PICK a, b : a = job'[u] /\ b = job[u]
  OBVIOUS
<1>2. /\ a.at = b.at /\ a.r = b.r /\ a.n = b.n /\ a.id = b.id /\ a.by = b.by
      /\ a.own = b.own /\ a.failed = b.failed
      /\ (b.raced => a.raced) /\ (b.moved => a.moved)
  BY <1>1 DEF Marked
<1>3. Searched(b) /\ EmptyHanded(b)
  BY <1>1 DEF Sought
<1>4. /\ a.at \in {"idle", "begin"} \/ live' = live \/ a.moved
      /\ b.at = "drop" /\ misses[MissKey(b.r)] # Absent =>
           misses'[MissKey(b.r)] # Absent \/ a.raced
  BY <1>1, <1>2
<1>5. EmptyHanded(a)
  BY <1>2, <1>3 DEF EmptyHanded
<1>6. a.at = "drop" => misses'[MissKey(a.r)] # Absent \/ a.raced
  BY <1>2, <1>3, <1>4 DEF Searched
<1>7. /\ Running(a) /\ a.own /\ ~a.moved => live' \intersect Own(a.r) # {}
      /\ a.at = "ask" /\ a.own /\ ~a.moved /\ ~a.failed =>
           \A i \in 1 .. a.n - 1 : {s \in live' : Fits(s, Queries(a.r)[i])} = {}
  <2>1. CASE a.moved \/ a.at \in {"idle", "begin"}
    BY <2>1 DEF Running
  <2>2. CASE live' = live
    BY <1>2, <1>3, <2>2 DEF Searched, Running, Matches
  <2>3. QED
    BY <1>4, <2>1, <2>2
<1>8. QED
  BY <1>1, <1>5, <1>6, <1>7 DEF Sought, Searched, EmptyHanded, Running, Matches

LEMMA SoughtLocally ==
  ASSUME SearchInv, NEW t \in Threads, LocalStep(t)
  PROVE  Sought(job[t])'
<1>1. AsBefore /\ LocalChange(job'[t], job[t])
  BY LocalSteps DEF SearchInv
<1>2. PICK a, b : a = job'[t] /\ b = job[t]
  OBVIOUS
<1>3. Searched(b) /\ EmptyHanded(b) /\ Placed(b)
  BY <1>2 DEF SearchInv, TypeInv
<1>4. Searched(a) /\ EmptyHanded(a) => Sought(job[t])'
  BY <1>1, <1>2 DEF Sought, Searched, EmptyHanded, Running, Matches, AsBefore
<1> SUFFICES Searched(a) /\ EmptyHanded(a)
  BY <1>4
<1>5. LocalChange(a, b)
  BY <1>1, <1>2
<1>6. CASE BecomesIdle(a, b) \/ BecomesForward(a, b) \/ BecomesStarted(a, b)
  <2>1. a.at \in {"idle", "begin"}
    BY <1>6, IdleRecord DEF BecomesIdle, BecomesForward, BecomesStarted
  <2>2. QED
    BY <2>1 DEF Searched, EmptyHanded, Running
<1>7. CASE BecomesMapped(a, b) \/ BecomesHit(a, b)
  <2>1. a.at = "done" /\ a.id # None
    BY <1>7 DEF BecomesMapped, BecomesHit
  <2>2. QED
    BY <2>1 DEF Searched, EmptyHanded, Running
<1>8. CASE BecomesRefused(a, b)
  <2>1. a.at = "done" /\ ~a.own
    BY <1>3, <1>8 DEF BecomesRefused, Placed
  <2>2. QED
    BY <2>1 DEF Searched, EmptyHanded, Running
<1>9. CASE BecomesLive(a, b)
  <2>1. a.at = "cache" /\ (a.own => live \intersect Own(a.r) # {})
    BY <1>9 DEF BecomesLive, Keeps
  <2>2. QED
    BY <2>1 DEF Searched, EmptyHanded, Running
<1>10. CASE BecomesUncached(a, b) \/ BecomesAsking(a, b) \/ BecomesDropping(a, b)
  <2>1. /\ b.at \in {"cache", "miss", "drop"} /\ Keeps(a, b) /\ a.own = b.own
        /\ \/ a.at = "miss"
           \/ a.at = "ask" /\ a.n = 1
           \/ a.at = "drop" /\ misses[MissKey(a.r)] # Absent
    BY <1>10 DEF BecomesUncached, BecomesAsking, BecomesDropping, Keeps
  <2>2. a.own /\ ~a.moved => live \intersect Own(a.r) # {}
    BY <1>3, <2>1 DEF Searched, Running, Keeps
  <2>3. a.at = "ask" => 1 .. a.n - 1 = {}
    BY <2>1
  <2>4. QED
    BY <2>1, <2>2, <2>3 DEF Searched, EmptyHanded, Running
<1>11. CASE BecomesMissed(a, b)
  <2>1. PICK m \in 1 .. TTL : a.by = <<"miss", m>>
    BY <1>11 DEF BecomesMissed
  <2>2. TTL \in Nat
    BY LookupAssumption
  <2>3. a.by[1] = "miss" /\ a.by[2] > 0
    BY <2>1, <2>2
  <2>4. a.at = "done"
    BY <1>11 DEF BecomesMissed
  <2>5. QED
    BY <2>3, <2>4 DEF Searched, EmptyHanded, Running
<1>12. CASE BecomesRaised(a, b)
  <2>1. a.at = "done" /\ a.raced
    BY <1>3, <1>12 DEF BecomesRaised, Searched, Keeps
  <2>2. QED
    BY <2>1 DEF Searched, EmptyHanded, Running
<1>13. QED
  BY <1>5, <1>6, <1>7, <1>8, <1>9, <1>10, <1>11, <1>12 DEF LocalChange

(* The last query is the step that needs the data: each datastream of the  *)
(* reading answers to one of the queries.                                  *)
LEMMA SoughtInVain ==
  ASSUME QueriesFindOwn, SearchInv, NEW t \in Threads, AskFindsNone(t) \/ AskFails(t)
  PROVE  Sought(job[t])'
<1>1. PICK a, b : a = job'[t] /\ b = job[t]
  OBVIOUS
<1>2. Searched(b) /\ Placed(b)
  BY <1>1 DEF SearchInv, TypeInv
<1>3. /\ live' = live /\ b.at = "ask" /\ a.r = b.r /\ a.own = b.own /\ a.raced = b.raced
      /\ a.moved = b.moved /\ (b.failed => a.failed)
      /\ ~a.failed => Matches(Queries(b.r)[b.n]) = {}
      /\ BecomesNext(a, b) \/ BecomesAsked(a, b)
  BY <1>1, FruitlessSteps DEF SearchInv
<1>4. b.r \in Readings /\ b.n \in 1 .. Len(Queries(b.r))
  BY <1>2, <1>3 DEF Placed
<1>5. Len(Queries(b.r)) \in Nat /\ DOMAIN Queries(b.r) = 1 .. Len(Queries(b.r))
  BY <1>4, QueriesProperties
<1>6. a.own /\ ~a.moved => live \intersect Own(a.r) # {}
  BY <1>2, <1>3 DEF Searched, Running
<1>7. a.own /\ ~a.moved /\ ~a.failed =>
        \A i \in 1 .. b.n : Matches(Queries(a.r)[i]) = {}
  <2> SUFFICES ASSUME a.own, ~a.moved, ~a.failed, NEW i \in 1 .. b.n
               PROVE  Matches(Queries(a.r)[i]) = {}
    OBVIOUS
  <2>1. \A k \in 1 .. b.n - 1 : Matches(Queries(b.r)[k]) = {}
    BY <1>2, <1>3 DEF Searched
  <2>2. PICK n : n = b.n
    OBVIOUS
  <2>3. i = n \/ i \in 1 .. n - 1
    BY <1>4, <1>5, <2>2
  <2>4. QED
    BY <1>3, <2>1, <2>2, <2>3
<1>8. Searched(a) /\ EmptyHanded(a) => Sought(job[t])'
  <2> SUFFICES ASSUME Searched(a), EmptyHanded(a) PROVE Sought(job[t])'
    OBVIOUS
  <2>1. a.at # "drop"
    BY <1>3 DEF BecomesNext, BecomesAsked
  <2>2. QED
    BY <1>1, <1>3, <2>1 DEF Sought, Searched, EmptyHanded, Running, Matches
<1>9. CASE BecomesNext(a, b)
  <2>1. a.at = "ask" /\ a.n = b.n + 1
    BY <1>9 DEF BecomesNext
  <2>2. a.n - 1 = b.n
    BY <1>4, <1>5, <2>1
  <2>3. QED
    BY <1>6, <1>7, <1>8, <2>1, <2>2 DEF Searched, EmptyHanded
<1>10. CASE BecomesAsked(a, b)
  <2>1. a.at = "done" /\ b.n = Len(Queries(b.r))
    BY <1>10 DEF BecomesAsked
  <2>2. a.own => a.failed \/ a.moved
    <3> SUFFICES ASSUME a.own, ~a.failed, ~a.moved PROVE FALSE
      OBVIOUS
    <3>1. PICK s \in live : s \in Own(b.r)
      BY <1>3, <1>6
    <3>2. PICK i \in 1 .. b.n : Fits(s, Queries(b.r)[i])
      BY <1>4, <1>5, <2>1, <3>1 DEF QueriesFindOwn
    <3>3. Matches(Queries(b.r)[i]) = {}
      BY <1>3, <1>7
    <3>4. QED
      BY <3>1, <3>2, <3>3 DEF Matches
  <2>3. QED
    BY <1>8, <2>1, <2>2 DEF Searched, EmptyHanded, Running
<1>11. QED
  BY <1>3, <1>9, <1>10

LEMMA SearchStep ==
  ASSUME QueriesFindOwn
  PROVE  SearchInv /\ [Next]_vars => SearchInv'
<1> SUFFICES ASSUME SearchInv, [Next]_vars PROVE SearchInv'
  OBVIOUS
<1>1. TypeInv /\ TypeInv' /\ \A u \in Threads : Sought(job[u])
  BY TypeStep DEF SearchInv, Sought
<1> SUFFICES ASSUME NEW u \in Threads PROVE Sought(job[u])'
  BY <1>1 DEF SearchInv, Sought
<1>2. CASE UNCHANGED <<live, misses>> /\ job'[u] = job[u]
  <2>1. Marked(job'[u], job[u])
    BY <1>2 DEF Marked
  <2>2. QED
    BY <1>1, <1>2, <2>1, SoughtMarked
<1>k. job[u].at = "drop" => MissKey(job[u].r) \in Keys
  <2> SUFFICES ASSUME job[u].at = "drop" PROVE MissKey(job[u].r) \in Keys
    OBVIOUS
  <2>1. job[u].r \in Readings
    BY <1>1 DEF TypeInv, Placed
  <2>2. 1 \in 1 .. Len(Queries(job[u].r))
    BY <2>1, QueriesProperties
  <2>3. QED
    BY <2>1, <2>2, KeysProperties
<1>3. CASE WarmUp
  BY <1>1, <1>2, <1>3, WarmUpSteps
<1>4. CASE Tick
  <2>1. UNCHANGED <<live, job>> /\ \A k \in Keys : misses[k] # Absent => misses'[k] # Absent
    BY <1>1, <1>4, TickSteps
  <2>2. Marked(job'[u], job[u])
    BY <2>1 DEF Marked
  <2>3. QED
    BY <1>1, <1>k, <2>1, <2>2, SoughtMarked
<1>5. CASE TargetStep
  <2>1. Marked(job'[u], job[u]) /\ (job[u].at # "idle" => job'[u].moved) /\ misses' = misses
    BY <1>1, <1>5, TargetSteps
  <2>2. QED
    BY <1>1, <2>1, SoughtMarked
<1>6. ASSUME NEW t \in Threads, LocalStep(t) PROVE Sought(job[u])'
  <2>1. AsBefore /\ (u # t => job'[u] = job[u])
    BY <1>1, <1>6, LocalSteps DEF OnlyJob
  <2>2. CASE u = t
    BY <1>6, <2>2, SoughtLocally
  <2>3. CASE u # t
    BY <1>2, <2>1, <2>3 DEF AsBefore
  <2>4. QED
    BY <2>2, <2>3
<1>7. ASSUME NEW t \in Threads, Drop(t) PROVE Sought(job[u])'
  <2> DEFINE k == MissKey(job[t].r)
  <2>1. live' = live /\ misses' = [misses EXCEPT ![k] = Absent]
        /\ job[t].at = "drop" /\ BecomesAsking(job'[t], job[t])
    BY <1>1, <1>7, DropSteps
  <2>2. CASE u = t
    <3>1. PICK a, b : a = job'[t] /\ b = job[t]
      OBVIOUS
    <3>2. b.at = "drop" /\ a.at = "ask" /\ a.n = 1 /\ a.r = b.r /\ a.own = b.own
          /\ a.moved = b.moved
      BY <2>1, <3>1 DEF BecomesAsking, Keeps
    <3>3. Searched(b)
      BY <1>1, <2>2, <3>1 DEF Sought
    <3>4. a.own /\ ~a.moved => live \intersect Own(a.r) # {}
      BY <3>2, <3>3 DEF Searched, Running
    <3>5. 1 .. a.n - 1 = {}
      BY <3>2
    <3>6. QED
      BY <2>1, <2>2, <3>1, <3>2, <3>4, <3>5 DEF Sought, Searched, EmptyHanded, Running
  <2>3. CASE u # t
    <3>1. /\ Marked(job'[u], job[u])
          /\ job[u].at = "drop" /\ MissKey(job[u].r) = k => job'[u].raced
      BY <1>1, <1>7, <2>3, DropSteps
    <3>2. job[u].at = "drop" /\ misses[MissKey(job[u].r)] # Absent =>
            misses'[MissKey(job[u].r)] # Absent \/ job'[u].raced
      <4> DEFINE l == MissKey(job[u].r)
      <4>1. l # k /\ l \in Keys => misses'[l] = misses[l]
        <5> HIDE DEF k, l
        <5>1. misses \in [Keys -> Absent .. TTL]
          BY <1>1 DEF TypeInv, SharedOK
        <5>2. QED
          BY <2>1, <5>1
      <4>2. QED
        BY <1>k, <3>1, <4>1
    <3>3. QED
      BY <1>1, <2>1, <3>1, <3>2, SoughtMarked
  <2>4. QED
    BY <2>2, <2>3
<1>8. ASSUME NEW t \in Threads, AskFinds(t) PROVE Sought(job[u])'
  <2>1. UNCHANGED <<live, misses>>
    BY <1>1, <1>8, AskFindsSteps
  <2>2. CASE u = t
    <3>1. PICK s \in Streams, k \in Keys : BecomesFound(job'[t], job[t], s, k)
      BY <1>1, <1>8, AskFindsSteps
    <3>2. job'[t].at = "done" /\ job'[t].id # None
      BY <3>1, LookupAssumption DEF BecomesFound
    <3>3. QED
      BY <2>2, <3>2 DEF Sought, Searched, EmptyHanded, Running
  <2>3. CASE u # t
    <3>1. Marked(job'[u], job[u])
      BY <1>1, <1>8, <2>3, AskFindsSteps
    <3>2. QED
      BY <1>1, <2>1, <3>1, SoughtMarked
  <2>4. QED
    BY <2>2, <2>3
<1>9. ASSUME NEW t \in Threads, AskFindsNone(t) \/ AskFails(t) PROVE Sought(job[u])'
  <2> DEFINE k == MissKey(job[t].r)
  <2>1. /\ live' = live /\ OnlyJob(t)
        /\ misses' = misses \/ misses' = [misses EXCEPT ![k] = TTL]
    BY <1>1, <1>9, FruitlessSteps
  <2>2. CASE u = t
    BY <1>9, <2>2, SoughtInVain
  <2>3. CASE u # t
    <3>1. Marked(job'[u], job[u])
      BY <2>1, <2>3 DEF Marked, OnlyJob
    <3>2. \A l \in Keys : misses[l] # Absent => misses'[l] # Absent
      <4> HIDE DEF k
      <4>1. misses \in [Keys -> Absent .. TTL] /\ TTL \in Nat
        BY <1>1, LookupAssumption DEF TypeInv, SharedOK
      <4>2. TTL # Absent
        BY <4>1 DEF Absent
      <4>3. QED
        BY <2>1, <4>1, <4>2
    <3>3. QED
      BY <1>1, <1>k, <2>1, <3>1, <3>2, SoughtMarked
  <2>4. QED
    BY <2>2, <2>3
<1>10. CASE UNCHANGED vars
  BY <1>2, <1>10 DEF vars
<1>11. QED
  BY <1>3, <1>4, <1>5, <1>6, <1>7, <1>8, <1>9, <1>10, Steps

(* When a reading's own datastreams belong to its device or to its Thing,  *)
(* a lookup of a datastream that is there comes back empty only for one of *)
(* the causes UnresolvedNeedsCause names.                                  *)
THEOREM EmptyHandedForCause ==
  ASSUME OwnIsNearby
  PROVE  Spec => []UnresolvedNeedsCause
<1>1. SearchInv => UnresolvedNeedsCause
  BY DEF SearchInv, EmptyHanded, UnresolvedNeedsCause, Unresolved, Done, Found
<1>2. SearchInv /\ [Next]_vars => SearchInv'
  BY NearbyIsAsked, SearchStep
<1>3. QED
  BY <1>1, <1>2, SearchInit, PTL DEF Spec

-----------------------------------------------------------------------------
(* An id can be traced to its cause.                                       *)
LEMMA OwnByName ==
  ASSUME NEW r \in Readings, NEW s \in Streams, DsKey(r) \in NamesOf(s)
  PROVE  s \in Own(r)
<1>1. r.prop # ""
  BY LookupAssumption
<1>2. DsKey(r) = DsKey(s) \/ DsKey(r) = KeyKey(s) \/ DsKey(r) = SensorKey(s)
  BY DEF NamesOf
<1>3. PICK a, b, c, d, e : a = r.sensor /\ b = r.prop /\ c = s.sensor /\ d = s.prop /\ e = s.key
  OBVIOUS
<1>4. <<a, b>> = <<c, d>> \/ <<a, b>> = <<e>> \/ <<a, b>> = <<c, "">>
  BY <1>2, <1>3 DEF DsKey, KeyKey, SensorKey
<1>5. <<a, b>> # <<e>>
  OBVIOUS
<1>6. <<a, b>> # <<c, "">>
  BY <1>1, <1>3
<1>7. a = c /\ b = d
  BY <1>4, <1>5, <1>6
<1>8. QED
  BY <1>3, <1>7 DEF Own

LEMMA MapIsOwnStep ==
  ASSUME TypeInv, MapIsOwn, [Next]_vars
  PROVE  MapIsOwn'
<1>1. idMap \in [Names -> Streams \union {None}]
  BY DEF TypeInv, SharedOK
<1>2. \A r \in Readings : DsKey(r) \in Names
  BY DEF Names, NamesOf
<1>3. CASE idMap' = idMap
  BY <1>3 DEF MapIsOwn
<1>4. CASE WarmUp
  <2>1. \A n \in Names :
          \/ idMap'[n] = idMap[n]
          \/ idMap'[n] \in Streams /\ n \in NamesOf(idMap'[n]) /\ ~Nameless(n)
    BY <1>4, WarmUpSteps
  <2>2. ASSUME NEW r \in Readings, idMap'[DsKey(r)] # None
        PROVE  idMap'[DsKey(r)] \in Own(r)
    <3>1. CASE idMap'[DsKey(r)] = idMap[DsKey(r)]
      BY <2>2, <3>1 DEF MapIsOwn
    <3>2. CASE idMap'[DsKey(r)] \in Streams /\ DsKey(r) \in NamesOf(idMap'[DsKey(r)])
      BY <3>2, OwnByName
    <3>3. QED
      BY <1>2, <2>1, <3>1, <3>2
  <2>3. \A n \in Names : Nameless(n) => idMap'[n] = None
    BY <2>1 DEF MapIsOwn
  <2>4. QED
    BY <2>2, <2>3 DEF MapIsOwn
<1>5. CASE TargetStep
  <2>1. CASE \E s \in Streams : s.sensor # "" /\ idMap' = [idMap EXCEPT ![DsKey(s)] = s]
    <3>1. PICK s \in Streams : s.sensor # "" /\ idMap' = [idMap EXCEPT ![DsKey(s)] = s]
      BY <2>1
    <3>2. DsKey(s) \in NamesOf(s) /\ ~Nameless(DsKey(s))
      BY <3>1 DEF NamesOf, DsKey, Nameless
    <3>3. \A n \in Names : idMap'[n] = IF n = DsKey(s) THEN s ELSE idMap[n]
      BY <1>1, <3>1
    <3>4. ASSUME NEW r \in Readings, idMap'[DsKey(r)] # None
          PROVE  idMap'[DsKey(r)] \in Own(r)
      <4>1. CASE DsKey(r) = DsKey(s)
        <5>1. s \in Own(r)
          BY <3>2, <4>1, OwnByName
        <5>2. QED
          BY <1>2, <3>3, <4>1, <5>1
      <4>2. CASE DsKey(r) # DsKey(s)
        BY <1>2, <3>3, <3>4, <4>2 DEF MapIsOwn
      <4>3. QED
        BY <4>1, <4>2
    <3>5. \A n \in Names : Nameless(n) => idMap'[n] = None
      BY <3>2, <3>3 DEF MapIsOwn
    <3>6. QED
      BY <3>4, <3>5 DEF MapIsOwn
  <2>2. QED
    BY <1>3, <1>5, <2>1, TargetSteps
<1>6. CASE Tick
  BY <1>3, <1>6, TickSteps
<1>7. ASSUME NEW t \in Threads,
             \/ LocalStep(t) \/ Drop(t) \/ AskFinds(t)
             \/ AskFindsNone(t) \/ AskFails(t)
      PROVE  MapIsOwn'
  <2>1. idMap' = idMap
    BY <1>7, LocalSteps, DropSteps, AskFindsSteps, FruitlessSteps DEF AsBefore
  <2>2. QED
    BY <1>3, <2>1
<1>8. CASE UNCHANGED vars
  BY <1>3, <1>8 DEF vars
<1>9. QED
  BY <1>4, <1>5, <1>6, <1>7, <1>8, Steps

(* A key that is not soft is cached by a search that had an answer to each *)
(* query so far and whose own datastream is there.                         *)
LEMMA FirmKeys ==
  ASSUME KeysFindOwn, KeysFindOnlyOwn, SearchInv, NEW t \in Threads,
         NEW s \in Streams, NEW k \in Keys, BecomesFound(job'[t], job[t], s, k),
         ~job[t].failed, ~job[t].moved, job[t].own
  PROVE  \A r \in Readings : k \in Range(KeysOf[r]) => s \in Own(r)
<1>1. PICK b : b = job[t]
  OBVIOUS
<1>2. Searched(b) /\ Placed(b) /\ live \subseteq Streams
  BY <1>1 DEF SearchInv, TypeInv, SharedOK
<1>3. b.at = "ask" /\ s \in Matches(Queries(b.r)[b.n]) /\ k = Queries(b.r)[b.n].under
  BY <1>1 DEF BecomesFound
<1>4. b.r \in Readings /\ b.n \in 1 .. Len(Queries(b.r))
  BY <1>2, <1>3 DEF Placed
<1>5. Len(Queries(b.r)) \in Nat /\ DOMAIN Queries(b.r) = 1 .. Len(Queries(b.r))
  BY <1>4, QueriesProperties
<1>6. /\ live \intersect Own(b.r) # {}
      /\ \A i \in 1 .. b.n - 1 : Matches(Queries(b.r)[i]) = {}
  BY <1>1, <1>2, <1>3 DEF Searched, Running
<1>7. PICK o \in live : o \in Own(b.r)
  BY <1>6
<1>8. PICK i \in DOMAIN Queries(b.r) :
        Fits(o, Queries(b.r)[i]) /\ \A m \in 1 .. i : AsksForKey(Queries(b.r)[m])
  BY <1>4, <1>7 DEF KeysFindOwn
<1>9. o \in Matches(Queries(b.r)[i])
  BY <1>7, <1>8 DEF Matches
<1>10. PICK n : n = b.n
  OBVIOUS
<1>11. i \notin 1 .. n - 1
  BY <1>6, <1>9, <1>10
<1>12. n \in 1 .. i
  BY <1>4, <1>5, <1>10, <1>11
<1>13. AsksForKey(Queries(b.r)[n]) /\ Fits(s, Queries(b.r)[n])
  BY <1>3, <1>8, <1>10, <1>12 DEF Matches
<1>14. n \in DOMAIN Queries(b.r)
  BY <1>4, <1>5, <1>10
<1>15. QED
  BY <1>3, <1>4, <1>10, <1>13, <1>14 DEF KeysFindOnlyOwn

LEMMA HitsAreOwnStep ==
  ASSUME KeysFindOwn, KeysFindOnlyOwn, SearchInv, HitsAreOwn, [Next]_vars
  PROVE  HitsAreOwn'
<1>1. TypeInv /\ hits \in [Keys -> Streams \union {None}]
  BY DEF SearchInv, TypeInv, SharedOK
<1>2. CASE UNCHANGED <<hits, soft>>
  BY <1>2 DEF HitsAreOwn
<1>3. ASSUME NEW t \in Threads, AskFinds(t) PROVE HitsAreOwn'
  <2>1. PICK s \in Streams, k \in Keys :
          /\ hits' = [hits EXCEPT ![k] = s]
          /\ soft' = IF job[t].failed \/ job[t].moved \/ ~job[t].own
                     THEN soft \union {k} ELSE soft
          /\ BecomesFound(job'[t], job[t], s, k)
    BY <1>1, <1>3, AskFindsSteps
  <2>2. SUFFICES ASSUME NEW l \in Keys \ soft', hits'[l] # None,
                        NEW r \in Readings, l \in Range(KeysOf[r])
                 PROVE  hits'[l] \in Own(r)
    BY DEF HitsAreOwn
  <2>3. CASE l = k
    <3>1. ~job[t].failed /\ ~job[t].moved /\ job[t].own
      BY <2>1, <2>2, <2>3
    <3>2. s \in Own(r)
      BY <2>1, <2>2, <2>3, <3>1, FirmKeys
    <3>3. QED
      BY <1>1, <2>1, <2>3, <3>2
  <2>4. CASE l # k
    <3>1. l \in Keys \ soft /\ hits'[l] = hits[l]
      BY <1>1, <2>1, <2>2, <2>4
    <3>2. QED
      BY <2>2, <3>1 DEF HitsAreOwn
  <2>5. QED
    BY <2>3, <2>4
<1>4. CASE WarmUp
  BY <1>1, <1>2, <1>4, WarmUpSteps
<1>5. CASE Tick
  BY <1>1, <1>2, <1>5, TickSteps
<1>6. CASE TargetStep
  BY <1>1, <1>2, <1>6, TargetSteps
<1>7. ASSUME NEW t \in Threads,
             LocalStep(t) \/ Drop(t) \/ AskFindsNone(t) \/ AskFails(t)
      PROVE  HitsAreOwn'
  <2>1. UNCHANGED <<hits, soft>>
    BY <1>1, <1>7, LocalSteps, DropSteps, FruitlessSteps DEF AsBefore
  <2>2. QED
    BY <1>2, <2>1
<1>8. CASE UNCHANGED vars
  BY <1>2, <1>8 DEF vars
<1>9. QED
  BY <1>3, <1>4, <1>5, <1>6, <1>7, <1>8, Steps

LEMMA TracedMarked ==
  ASSUME NEW u \in Threads, Traced(job[u]), Marked(job'[u], job[u]),
         UNCHANGED <<role, idMap>> \/ job[u].at = "idle" \/ job'[u].moved,
         soft \subseteq soft'
  PROVE  Traced(job[u])'
<1>1. PICK a, b : a = job'[u] /\ b = job[u]
  OBVIOUS
<1>2. /\ a.for = b.for /\ a.at = b.at /\ a.r = b.r /\ a.id = b.id /\ a.by = b.by
      /\ (b.moved => a.moved)
  BY <1>1 DEF Marked
<1>3. b.at = "done" /\ b.id # None =>
        IF b.by = <<"map">> THEN b.moved \/ b.id = Mapped(b.for, b.r)
        ELSE b.by \in soft \/ b.id \in Own(b.r)
  BY <1>1 DEF Traced
<1>4. PICK m : m = Mapped(a.for, a.r)'
  OBVIOUS
<1>5. UNCHANGED <<role, idMap>> => m = Mapped(b.for, b.r)
  BY <1>2, <1>4, SteadyMap
<1>6. a.at = "done" /\ a.id # None =>
        IF a.by = <<"map">> THEN a.moved \/ a.id = m
        ELSE a.by \in soft' \/ a.id \in Own(a.r)
  BY <1>1, <1>2, <1>3, <1>5
<1>7. QED
  BY <1>1, <1>4, <1>6 DEF Traced

LEMMA TracedLocally ==
  ASSUME TypeInv, HitsAreOwn, NEW t \in Threads, LocalStep(t)
  PROVE  Traced(job[t])'
<1>1. AsBefore /\ LocalChange(job'[t], job[t])
  BY LocalSteps
<1>2. PICK a, b : a = job'[t] /\ b = job[t]
  OBVIOUS
<1>3. SharedOK /\ Placed(b)
  BY <1>2 DEF TypeInv
<1>4. LocalChange(a, b)
  BY <1>1, <1>2
<1>5. CASE a.at # "done" \/ a.id = None
  BY <1>2, <1>5 DEF Traced
<1>6. CASE BecomesMapped(a, b)
  <2>1. a.by = <<"map">> /\ a.id = Mapped(a.for, a.r)
    BY <1>6 DEF BecomesMapped, Keeps
  <2>2. Mapped(a.for, a.r)' = Mapped(a.for, a.r)
    BY <1>1, SteadyMap DEF AsBefore
  <2>3. QED
    BY <1>2, <2>1, <2>2 DEF Traced
<1>7. CASE BecomesHit(a, b)
  <2>1. /\ a.r = b.r /\ a.id = Hit(b.r) /\ Hit(b.r) # None /\ b.at = "cache"
        /\ a.by = KeysOf[b.r][CachedAt(hits, b.r)] /\ a.by \in Keys
    BY <1>7 DEF BecomesHit, Keeps
  <2>2. b.r \in Readings
    BY <1>3, <2>1 DEF Placed
  <2>3. a.by \in Range(KeysOf[b.r]) /\ hits[a.by] = Hit(b.r)
    BY <1>3, <2>1, <2>2, FoundAreStreams
  <2>4. a.by \in soft \/ a.id \in Own(a.r)
    BY <2>1, <2>2, <2>3 DEF HitsAreOwn
  <2>5. a.by # <<"map">>
    BY <2>1, KeysAreNoWords
  <2>6. soft' = soft
    BY <1>1 DEF AsBefore
  <2>7. QED
    BY <1>2, <2>4, <2>5, <2>6 DEF Traced
<1>8. BecomesMapped(a, b) \/ BecomesHit(a, b) \/ a.at # "done" \/ a.id = None
  BY <1>4, IdleRecord
     DEF LocalChange, BecomesIdle, BecomesForward, BecomesStarted, BecomesRefused,
         BecomesLive, BecomesUncached, BecomesMissed, BecomesAsking, BecomesDropping,
         BecomesRaised
<1>9. QED
  BY <1>5, <1>6, <1>7, <1>8

LEMMA TraceInit == Init => TraceInv
<1> SUFFICES ASSUME Init PROVE TraceInv
  OBVIOUS
<1>1. /\ idMap = [n \in Names |-> None] /\ hits = [k \in Keys |-> None]
      /\ \A t \in Threads : job[t].at = "idle"
  BY IdleRecord DEF Init
<1>2. \A r \in Readings : DsKey(r) \in Names
  BY DEF Names, NamesOf
<1>3. MapIsOwn
  BY <1>1, <1>2 DEF MapIsOwn
<1>4. HitsAreOwn
  BY <1>1 DEF HitsAreOwn
<1>5. \A t \in Threads : Traced(job[t])
  BY <1>1 DEF Traced
<1>6. QED
  BY <1>3, <1>4, <1>5, SearchInit DEF TraceInv

LEMMA TraceStep ==
  ASSUME KeysFindOwn, KeysFindOnlyOwn
  PROVE  TraceInv /\ [Next]_vars => TraceInv'
<1> SUFFICES ASSUME TraceInv, [Next]_vars PROVE TraceInv'
  OBVIOUS
<1>1. QueriesFindOwn
  BY DEF KeysFindOwn, QueriesFindOwn
<1>2. /\ TypeInv /\ SearchInv /\ SearchInv' /\ MapIsOwn' /\ HitsAreOwn /\ HitsAreOwn'
      /\ \A u \in Threads : Traced(job[u])
  BY <1>1, SearchStep, MapIsOwnStep, HitsAreOwnStep DEF TraceInv, SearchInv
<1> SUFFICES ASSUME NEW u \in Threads PROVE Traced(job[u])'
  BY <1>2 DEF TraceInv
<1>3. CASE UNCHANGED <<role, idMap, soft>> /\ job'[u] = job[u]
  <2>1. Marked(job'[u], job[u])
    BY <1>3 DEF Marked
  <2>2. QED
    BY <1>2, <1>3, <2>1, TracedMarked
<1>4. CASE WarmUp
  <2>1. soft' = soft /\ job' = job /\ job[u].at = "idle"
    BY <1>2, <1>4, WarmUpSteps
  <2>2. Marked(job'[u], job[u])
    BY <2>1 DEF Marked
  <2>3. QED
    BY <1>2, <2>1, <2>2, TracedMarked
<1>5. CASE Tick
  BY <1>2, <1>3, <1>5, TickSteps
<1>6. CASE TargetStep
  <2>1. /\ Marked(job'[u], job[u]) /\ (job[u].at # "idle" => job'[u].moved)
        /\ soft' = soft
    BY <1>2, <1>6, TargetSteps
  <2>2. QED
    BY <1>2, <2>1, TracedMarked
<1>7. ASSUME NEW t \in Threads, LocalStep(t) PROVE Traced(job[u])'
  <2>1. AsBefore /\ (u # t => job'[u] = job[u])
    BY <1>2, <1>7, LocalSteps DEF OnlyJob
  <2>2. CASE u = t
    BY <1>2, <1>7, <2>2, TracedLocally
  <2>3. CASE u # t
    BY <1>3, <2>1, <2>3 DEF AsBefore
  <2>4. QED
    BY <2>2, <2>3
<1>8. ASSUME NEW t \in Threads, Drop(t) PROVE Traced(job[u])'
  <2>1. UNCHANGED <<role, idMap, soft>> /\ BecomesAsking(job'[t], job[t])
    BY <1>2, <1>8, DropSteps
  <2>2. CASE u = t
    BY <2>1, <2>2 DEF Traced, BecomesAsking
  <2>3. CASE u # t
    <3>1. Marked(job'[u], job[u])
      BY <1>2, <1>8, <2>3, DropSteps
    <3>2. QED
      BY <1>2, <2>1, <3>1, TracedMarked
  <2>4. QED
    BY <2>2, <2>3
<1>9. ASSUME NEW t \in Threads, AskFinds(t) PROVE Traced(job[u])'
  <2>1. UNCHANGED <<role, idMap>>
    BY <1>2, <1>9, AskFindsSteps
  <2>2. PICK s \in Streams, k \in Keys :
          /\ soft' = IF job[t].failed \/ job[t].moved \/ ~job[t].own
                     THEN soft \union {k} ELSE soft
          /\ BecomesFound(job'[t], job[t], s, k)
    BY <1>2, <1>9, AskFindsSteps
  <2>3. CASE u = t
    <3>1. PICK a, b : a = job'[t] /\ b = job[t]
      OBVIOUS
    <3>2. /\ a.at = "done" /\ a.id = s /\ a.by = k /\ a.r = b.r /\ b.at = "ask"
          /\ k = Queries(b.r)[b.n].under
      BY <2>2, <3>1 DEF BecomesFound
    <3>3. b.r \in Readings /\ b.n \in 1 .. Len(Queries(b.r))
      BY <1>2, <3>1, <3>2 DEF TypeInv, Placed
    <3>4. k \in Range(KeysOf[b.r])
      BY <3>2, <3>3, KeysProperties
    <3>5. k \in soft' \/ s \in Own(b.r)
      <4>1. CASE job[t].failed \/ job[t].moved \/ ~job[t].own
        BY <2>2, <4>1
      <4>2. CASE ~(job[t].failed \/ job[t].moved \/ ~job[t].own)
        BY <1>2, <2>2, <3>3, <3>4, <4>2, FirmKeys
      <4>3. QED
        BY <4>1, <4>2
    <3>6. k # <<"map">>
      BY KeysAreNoWords
    <3>7. QED
      BY <2>3, <3>1, <3>2, <3>5, <3>6 DEF Traced
  <2>4. CASE u # t
    <3>1. Marked(job'[u], job[u])
      BY <1>2, <1>9, <2>4, AskFindsSteps
    <3>2. QED
      BY <1>2, <2>1, <2>2, <3>1, TracedMarked
  <2>5. QED
    BY <2>3, <2>4
<1>10. ASSUME NEW t \in Threads, AskFindsNone(t) \/ AskFails(t) PROVE Traced(job[u])'
  <2>1. UNCHANGED <<role, idMap, soft>> /\ OnlyJob(t)
    BY <1>2, <1>10, FruitlessSteps
  <2>2. CASE u = t
    <3>1. job'[t].at = "ask" \/ job'[t].id = None
      BY <1>2, <1>10, FruitlessSteps DEF BecomesNext, BecomesAsked
    <3>2. QED
      BY <2>2, <3>1 DEF Traced
  <2>3. CASE u # t
    BY <1>3, <2>1, <2>3 DEF OnlyJob
  <2>4. QED
    BY <2>2, <2>3
<1>11. CASE UNCHANGED vars
  BY <1>3, <1>11 DEF vars
<1>12. QED
  BY <1>4, <1>5, <1>6, <1>7, <1>8, <1>9, <1>10, <1>11, Steps

(* When a reading's own datastreams, and no others, bear its stream key in *)
(* its device or its Thing, a reading goes astray only for one of the      *)
(* causes AstrayNeedsCause names: the fallback of the id map, or an answer *)
(* cached after a better query had none.                                   *)
THEOREM AstrayForCause ==
  ASSUME OwnIsKeyed, KeyedIsOwn
  PROVE  Spec => []AstrayNeedsCause
<1>1. TraceInv => AstrayNeedsCause
  <2> SUFFICES ASSUME TraceInv, NEW t \in Threads, Astray(t)
               PROVE  IF job[t].by = <<"map">>
                      THEN idMap[DsKey(job[t].r)] = None \/ job[t].moved
                      ELSE job[t].by \in soft
    BY DEF AstrayNeedsCause
  <2>1. PICK j : j = job[t]
    OBVIOUS
  <2>2. j.at = "done" /\ j.id # None /\ j.id \notin Own(j.r) /\ Traced(j) /\ Placed(j)
    BY <2>1 DEF Astray, Done, Found, TraceInv, SearchInv, TypeInv
  <2>3. j.r \in Readings
    BY <2>2 DEF Placed
  <2>4. CASE j.by = <<"map">>
    <3> SUFFICES ASSUME idMap[DsKey(j.r)] # None, ~j.moved PROVE FALSE
      BY <2>1, <2>4
    <3>1. idMap[DsKey(j.r)] \in Own(j.r) /\ ~Nameless(DsKey(j.r))
      BY <2>3 DEF TraceInv, MapIsOwn, Names, NamesOf
    <3>2. Lookup(DsKey(j.r)) = idMap[DsKey(j.r)]
      BY <3>1 DEF Lookup
    <3>3. j.id = Mapped(j.for, j.r)
      BY <2>2, <2>4 DEF Traced
    <3>4. QED
      BY <2>2, <2>3, <3>1, <3>2, <3>3, MappedProperties
  <2>5. CASE j.by # <<"map">>
    BY <2>1, <2>2, <2>5 DEF Traced
  <2>6. QED
    BY <2>1, <2>4, <2>5
<1>2. TraceInv /\ [Next]_vars => TraceInv'
  BY KeyedIsAskedFirst, KeyedIsFoundOnly, TraceStep
<1>3. QED
  BY <1>1, <1>2, TraceInit, PTL DEF Spec
=============================================================================
