---------------------- MODULE DeadLetterQueueProofs ----------------------
(***************************************************************************)
(* What the dead-letter file guarantees for every set of observations and  *)
(* targets and every number of threads.                                    *)
(***************************************************************************)
EXTENDS DeadLetterQueue, SequenceTheorems, FiniteSetTheorems, FunctionTheorems, TLAPS

-----------------------------------------------------------------------------
(* The operations on the lines of a file.                                  *)
LEMMA LinesOfFile ==
  ASSUME NEW S, NEW s \in Seq(S)
  PROVE  /\ Range(s) \subseteq S
         /\ \A i \in 1 .. Len(s) : s[i] \in Range(s)
         /\ \A x \in Range(s) : \E i \in 1 .. Len(s) : x = s[i]
<1>1. DOMAIN s = 1 .. Len(s) /\ \A i \in 1 .. Len(s) : s[i] \in S
  BY LenProperties, ElementOfSeq
<1>2. \A i \in 1 .. Len(s) : s[i] \in Range(s)
  BY <1>1 DEF Range
<1>3. \A x \in Range(s) : \E i \in 1 .. Len(s) : x = s[i]
  BY <1>1 DEF Range
<1>4. QED
  BY <1>1, <1>2, <1>3

LEMMA RangeOfAppend ==
  ASSUME NEW S, NEW s \in Seq(S), NEW e \in S
  PROVE  Range(Append(s, e)) = Range(s) \union {e}
<1> DEFINE t == Append(s, e)
<1>1. /\ t \in Seq(S) /\ Len(t) = Len(s) + 1 /\ Len(s) \in Nat
      /\ \A i \in 1 .. Len(s) : t[i] = s[i]
      /\ t[Len(s) + 1] = e
  BY AppendProperties, LenProperties
<1> HIDE DEF t
<1>2. DOMAIN t = 1 .. Len(s) + 1 /\ DOMAIN s = 1 .. Len(s)
  BY <1>1, LenProperties
<1>3. \A i \in 1 .. Len(s) + 1 : i \in 1 .. Len(s) \/ i = Len(s) + 1
  BY <1>1
<1>4. Range(t) \subseteq Range(s) \union {e}
  BY <1>1, <1>2, <1>3 DEF Range
<1>5. Range(s) \union {e} \subseteq Range(t)
  <2>1. \A i \in 1 .. Len(s) : i \in 1 .. Len(s) + 1
    BY <1>1
  <2>2. Len(s) + 1 \in 1 .. Len(s) + 1
    BY <1>1
  <2>3. QED
    BY <1>1, <1>2, <2>1, <2>2 DEF Range
<1>6. QED
  BY <1>4, <1>5 DEF t

LEMMA WriteAtProperties ==
  ASSUME NEW S, NEW s \in Seq(S), NEW n \in Nat, NEW e \in S
  PROVE  /\ WriteAt(s, n, e) \in Seq(S)
         /\ n = Len(s) => WriteAt(s, n, e) = Append(s, e)
<1>1. Len(s) \in Nat
  BY LenProperties
<1>2. CASE n < Len(s)
  <2>1. n + 1 \in 1 .. Len(s)
    BY <1>1, <1>2
  <2>2. [s EXCEPT ![n + 1] = e] \in Seq(S)
    BY <2>1, ExceptSeq
  <2>3. QED
    BY <1>1, <1>2, <2>2 DEF WriteAt
<1>3. CASE ~(n < Len(s))
  BY <1>3, AppendProperties DEF WriteAt
<1>4. QED
  BY <1>2, <1>3

LEMMA OverwriteProperties ==
  ASSUME NEW S, NEW s \in Seq(S), NEW t \in Seq(S)
  PROVE  /\ Overwrite(s, t) \in Seq(S)
         /\ Range(t) \subseteq Range(Overwrite(s, t))
<1> DEFINE n == IF Len(s) > Len(t) THEN Len(s) ELSE Len(t)
           u == [i \in 1 .. n |-> IF i <= Len(t) THEN t[i] ELSE s[i]]
<1>1. /\ Len(s) \in Nat /\ Len(t) \in Nat /\ n \in Nat /\ Len(t) <= n
      /\ \A i \in 1 .. n : i <= Len(t) \/ i <= Len(s)
  BY LenProperties
<1>2. \A i \in 1 .. n : (IF i <= Len(t) THEN t[i] ELSE s[i]) \in S
  BY <1>1, ElementOfSeq
<1> HIDE DEF n
<1>3. u \in Seq(S)
  BY <1>1, <1>2
<1>4. Overwrite(s, t) = u
  BY DEF Overwrite, n
<1>5. \A i \in 1 .. Len(t) : i \in 1 .. n /\ u[i] = t[i]
  BY <1>1
<1>6. DOMAIN t = 1 .. Len(t) /\ DOMAIN u = 1 .. n
  BY LenProperties
<1> HIDE DEF u
<1>7. Range(t) \subseteq Range(u)
  BY <1>5, <1>6 DEF Range
<1>8. QED
  BY <1>3, <1>4, <1>7

LEMMA TailProperties ==
  ASSUME NEW S, NEW s \in Seq(S)
  PROVE  TailToKeep(s) \in Seq(S)
<1>1. Len(s) \in Nat /\ KeepLines \in Nat
  BY LenProperties, DlqAssumption
<1>2. CASE KeepLines > 0 /\ Len(s) > KeepLines
  <2>1. \A i \in Len(s) - KeepLines + 1 .. Len(s) : s[i] \in S
    <3>1. \A i \in Len(s) - KeepLines + 1 .. Len(s) : i \in 1 .. Len(s)
      BY <1>1, <1>2
    <3>2. QED
      BY <3>1, ElementOfSeq
  <2>2. SubSeq(s, Len(s) - KeepLines + 1, Len(s)) \in Seq(S)
    BY <1>1, <2>1, SubSeqProperties
  <2>3. QED
    BY <1>2, <2>2 DEF TailToKeep
<1>3. CASE ~(KeepLines > 0 /\ Len(s) > KeepLines)
  BY <1>3, EmptySeq DEF TailToKeep
<1>4. QED
  BY <1>2, <1>3

LEMMA ReclaimProperties ==
  ASSUME NEW S, NEW f \in [Inodes -> Seq(S)], NEW used
  PROVE  /\ Reclaim(f, used) \in [Inodes -> Seq(S)]
         /\ \A i \in Inodes : i \in used => Reclaim(f, used)[i] = f[i]
BY EmptySeq DEF Reclaim

-----------------------------------------------------------------------------
(* There is always an inode nobody names: a new file is one of those.      *)
LEMMA ImageIsSmall ==
  ASSUME NEW S, IsFiniteSet(S), NEW f, f = [x \in S |-> f[x]]
  PROVE  /\ IsFiniteSet({f[x] : x \in S})
         /\ Cardinality({f[x] : x \in S}) <= Cardinality(S)
         /\ Cardinality({f[x] : x \in S}) \in Nat
<1>1. f \in Surjection(S, {f[x] : x \in S})
  BY DEF Surjection
<1>2. QED
  BY <1>1, FS_Surjection, FS_CardinalityType

LEMMA UnionIsSmall ==
  ASSUME NEW S, IsFiniteSet(S), NEW T, IsFiniteSet(T)
  PROVE  /\ IsFiniteSet(S \union T) /\ Cardinality(S \union T) \in Nat
         /\ Cardinality(S \union T) <= Cardinality(S) + Cardinality(T)
<1>1. /\ IsFiniteSet(S \union T) /\ IsFiniteSet(S \cap T)
      /\ Cardinality(S \union T) = Cardinality(S) + Cardinality(T) - Cardinality(S \cap T)
  BY FS_Union, FS_Intersection
<1>2. /\ Cardinality(S) \in Nat /\ Cardinality(T) \in Nat
      /\ Cardinality(S \cap T) \in Nat /\ Cardinality(S \union T) \in Nat
  BY <1>1, FS_CardinalityType
<1>3. QED
  BY <1>1, <1>2

LEMMA FreshProperties == Fresh \in Inodes /\ Fresh \notin InUse
<1> DEFINE W == {writer[a].fd : a \in Appenders}
           I == {pass[r].in : r \in Replayers}
           O == {pass[r].out : r \in Replayers}
           C == {clearing[c].fd : c \in Clearers}
           nA == Cardinality(Appenders)  nR == Cardinality(Replayers)
           nC == Cardinality(Clearers)
<1>1. IsFiniteSet(W) /\ Cardinality(W) <= nA /\ Cardinality(W) \in Nat
  <2> DEFINE f == [a \in Appenders |-> writer[a].fd]
  <2>1. {f[a] : a \in Appenders} = W
    OBVIOUS
  <2>2. f = [a \in Appenders |-> f[a]]
    OBVIOUS
  <2> HIDE DEF f, W
  <2>3. QED
    BY <2>1, <2>2, ImageIsSmall, InodesAssumption
<1>2. IsFiniteSet(I) /\ Cardinality(I) <= nR /\ Cardinality(I) \in Nat
  <2> DEFINE f == [r \in Replayers |-> pass[r].in]
  <2>1. {f[r] : r \in Replayers} = I
    OBVIOUS
  <2>2. f = [r \in Replayers |-> f[r]]
    OBVIOUS
  <2> HIDE DEF f, I
  <2>3. QED
    BY <2>1, <2>2, ImageIsSmall, InodesAssumption
<1>3. IsFiniteSet(O) /\ Cardinality(O) <= nR /\ Cardinality(O) \in Nat
  <2> DEFINE f == [r \in Replayers |-> pass[r].out]
  <2>1. {f[r] : r \in Replayers} = O
    OBVIOUS
  <2>2. f = [r \in Replayers |-> f[r]]
    OBVIOUS
  <2> HIDE DEF f, O
  <2>3. QED
    BY <2>1, <2>2, ImageIsSmall, InodesAssumption
<1>4. IsFiniteSet(C) /\ Cardinality(C) <= nC /\ Cardinality(C) \in Nat
  <2> DEFINE f == [c \in Clearers |-> clearing[c].fd]
  <2>1. {f[c] : c \in Clearers} = C
    OBVIOUS
  <2>2. f = [c \in Clearers |-> f[c]]
    OBVIOUS
  <2> HIDE DEF f, C
  <2>3. QED
    BY <2>1, <2>2, ImageIsSmall, InodesAssumption
<1>5. IsFiniteSet({dlq, tmp}) /\ Cardinality({dlq, tmp}) <= 2
      /\ Cardinality({dlq, tmp}) \in Nat
  <2>1. {dlq, tmp} = {dlq} \union {tmp}
    OBVIOUS
  <2>2. /\ IsFiniteSet({dlq}) /\ Cardinality({dlq}) = 1
        /\ IsFiniteSet({tmp}) /\ Cardinality({tmp}) = 1
    BY FS_Singleton
  <2>3. QED
    BY <2>1, <2>2, UnionIsSmall
<1>6. InUse = (((({dlq, tmp} \union W) \union I) \union O) \union C)
  BY DEF InUse
<1>7. IsFiniteSet(InUse) /\ Cardinality(InUse) \in Nat
      /\ Cardinality(InUse) <= 2 + nA + nC + nR + nR
  <2> DEFINE D1 == {dlq, tmp} \union W  D2 == D1 \union I  D3 == D2 \union O
  <2>0. nA \in Nat /\ nR \in Nat /\ nC \in Nat
    BY InodesAssumption, FS_CardinalityType
  <2> HIDE DEF W, I, O, C, nA, nR, nC
  <2>1. IsFiniteSet(D1) /\ Cardinality(D1) \in Nat /\ Cardinality(D1) <= 2 + nA
    BY <1>1, <1>5, <2>0, UnionIsSmall
  <2> HIDE DEF D1
  <2>2. IsFiniteSet(D2) /\ Cardinality(D2) \in Nat /\ Cardinality(D2) <= 2 + nA + nR
    BY <1>2, <2>0, <2>1, UnionIsSmall
  <2> HIDE DEF D2
  <2>3. IsFiniteSet(D3) /\ Cardinality(D3) \in Nat /\ Cardinality(D3) <= 2 + nA + nR + nR
    BY <1>3, <2>0, <2>2, UnionIsSmall
  <2> HIDE DEF D3
  <2>4. /\ IsFiniteSet(D3 \union C) /\ Cardinality(D3 \union C) \in Nat
        /\ Cardinality(D3 \union C) <= 2 + nA + nC + nR + nR
    BY <1>4, <2>0, <2>3, UnionIsSmall
  <2>5. InUse = D3 \union C
    BY <1>6 DEF D1, D2, D3
  <2>6. QED
    BY <2>4, <2>5
<1>8. ~(Inodes \subseteq InUse)
  <2>1. SUFFICES ASSUME Inodes \subseteq InUse PROVE FALSE
    OBVIOUS
  <2>2. Cardinality(Inodes) <= Cardinality(InUse)
    BY <1>7, <2>1, FS_Subset
  <2>3. Cardinality(Inodes) \in Nat /\ nA \in Nat /\ nR \in Nat /\ nC \in Nat
    BY InodesAssumption, FS_CardinalityType
  <2>4. Cardinality(Inodes) > 2 + nA + nC + nR + nR
    BY InodesAssumption
  <2>5. QED
    BY <1>7, <2>2, <2>3, <2>4
<1>9. QED
  BY <1>8 DEF Fresh

-----------------------------------------------------------------------------
(* The type invariant.  Only observations that have been dead-lettered are *)
(* in a file or in the hands of a thread.                                  *)
Known == {o \in Obs : fate[o] # "fresh"}

FilesOK ==
  /\ content \in [Inodes -> Seq(Known)]
  /\ dlq \in Inodes \union {NoFile} /\ tmp \in Inodes \union {NoFile}
  /\ dlq = NoFile => \A i \in Inodes : content[i] = <<>>

WriterType == [stage : {"idle", "opening", "writing"}, obs : SUBSET Obs,
               fd : Inodes \union {NoFile}]

WritersOK ==
  /\ writer \in [Appenders -> WriterType]
  /\ \A a \in Appenders :
       /\ writer[a].obs \subseteq Known
       /\ writer[a].stage = "writing" => writer[a].fd \in Inodes /\ dlq # NoFile

PassType == [stage : {"idle", "opening", "reading", "posting", "replacing"},
             in : Inodes \union {NoFile}, out : Inodes \union {NoFile},
             pos : Nat, wrote : Nat, attempted : 0 .. MaxLines, line : SUBSET Obs]

HasFiles(r) == pass[r].stage \in {"reading", "posting", "replacing"}

PassesOK ==
  /\ pass \in [Replayers -> PassType]
  /\ \A r \in Replayers :
       /\ pass[r].line \subseteq Known
       /\ pass[r].stage # "idle" => dlq # NoFile
       /\ HasFiles(r) => pass[r].in \in Inodes /\ pass[r].out \in Inodes
       /\ pass[r].stage = "posting" <=> pass[r].line # {}

ClearType == [stage : {"idle", "truncating", "writing"},
              fd : Inodes \union {NoFile}, tail : Seq(Obs)]

ClearsOK ==
  /\ clearing \in [Clearers -> ClearType]
  /\ \A c \in Clearers :
       /\ clearing[c].tail \in Seq(Known)
       /\ clearing[c].stage # "idle" => dlq # NoFile
       /\ clearing[c].stage = "writing" => clearing[c].fd \in Inodes

Fates == {"fresh", "pending", "queued", "capped", "delivered", "expired",
          "rejected", "cleared", "crashed"}

OutsideOK ==
  /\ refused \subseteq Targets /\ old \subseteq Obs
  /\ rows \in [Obs -> 0 .. RowsMax]
  /\ fate \in [Obs -> Fates]
  /\ exposed \subseteq Obs

TypeInv == FilesOK /\ WritersOK /\ PassesOK /\ ClearsOK /\ OutsideOK

-----------------------------------------------------------------------------
(* With one pass at a time: its files are the two paths, and no other      *)
(* thread has a handle of the temporary one.                               *)
PassHasItsFiles ==
  \A r \in Replayers :
    /\ pass[r].stage = "opening" => tmp = NoFile
    /\ HasFiles(r) =>
         /\ pass[r].in = dlq /\ pass[r].out = tmp /\ tmp # dlq
         /\ Len(content[tmp]) = pass[r].wrote
         /\ \A a \in Appenders : writer[a].fd # tmp
         /\ \A c \in Clearers : clearing[c].fd # tmp

(* What a pass has read of a file nobody truncates.                        *)
Busy == {a \in Appenders : writer[a].stage # "idle"}

SizesAddUp ==
  /\ Len(Lines(dlq)) + Cardinality(Busy) <= DlqMax - 1 + Cardinality(Appenders)
  /\ \A r \in Replayers :
       /\ HasFiles(r) => pass[r].wrote <= pass[r].pos /\ pass[r].pos <= Len(content[dlq])
       /\ pass[r].stage = "posting" => pass[r].pos < Len(content[dlq])

(* A POST is made only for a record without a row.                         *)
PostsAreNew ==
  /\ NoDuplicateRows
  /\ \A r \in Replayers : \A o \in pass[r].line : rows[o] = 0

(* The records that must not go missing, and where they are.               *)
Kept == {o \in Obs : fate[o] = "queued" /\ o \notin exposed}

WritersAreOnTheFile ==
  \A a \in Appenders : writer[a].stage = "writing" =>
    \/ writer[a].obs \subseteq exposed
    \/ writer[a].fd = dlq /\ ~Rewriting

TailHoldsKept ==
  \A c \in Clearers :
    /\ clearing[c].stage # "idle" /\ Passing => Range(clearing[c].tail) \subseteq exposed
    /\ clearing[c].stage = "writing" =>
         /\ Kept \subseteq Range(clearing[c].tail)
         /\ clearing[c].fd = dlq \/ Kept = {}

Ahead(r) == {content[dlq][k] : k \in pass[r].pos + 1 .. Len(content[dlq])}

PassHoldsKept ==
  \A r \in Replayers :
    /\ pass[r].stage \in {"reading", "posting"} =>
         Kept \subseteq Range(content[tmp]) \union Ahead(r)
    /\ pass[r].stage = "posting" =>
         \/ Kept = {}
         \/ /\ pass[r].pos < Len(content[dlq])
            /\ pass[r].line = {content[dlq][pass[r].pos + 1]}
    /\ pass[r].stage = "replacing" => Kept \subseteq Range(content[tmp])

KeptIsHeld == Kept \subseteq Queued \union BeingRewritten

LossInv == KeptIsHeld /\ WritersAreOnTheFile /\ TailHoldsKept /\ PassHoldsKept

-----------------------------------------------------------------------------
(* The type invariant holds.                                               *)
LEMMA InitType == Init => TypeInv
<1> SUFFICES ASSUME Init PROVE TypeInv
  OBVIOUS
<1> USE DEF Init
<1>1. FilesOK
  <2>1. \A S : <<>> \in Seq(S)
    BY EmptySeq
  <2>2. QED
    BY <2>1 DEF FilesOK
<1>2. WritersOK
  BY DEF WritersOK, WriterType, IdleWriter
<1>3. PassesOK
  BY DlqAssumption DEF PassesOK, PassType, HasFiles, IdlePass
<1>4. ClearsOK
  <2>1. \A S : <<>> \in Seq(S)
    BY EmptySeq
  <2>2. QED
    BY <2>1 DEF ClearsOK, ClearType, IdleClear
<1>5. OutsideOK
  BY DEF OutsideOK, RowsMax, Fates
<1>6. QED
  BY <1>1, <1>2, <1>3, <1>4, <1>5 DEF TypeInv

(* What a step leaves alone stays well-typed.                              *)
Grows == Known \subseteq Known' /\ (dlq # NoFile => dlq' # NoFile)

LEMMA Unchanged ==
  ASSUME Grows
  PROVE  /\ Seq(Known) \subseteq Seq(Known')
         /\ FilesOK /\ UNCHANGED files => FilesOK'
         /\ WritersOK /\ UNCHANGED writer => WritersOK'
         /\ PassesOK /\ UNCHANGED pass => PassesOK'
         /\ ClearsOK /\ UNCHANGED clearing => ClearsOK'
<1>1. Seq(Known) \subseteq Seq(Known')
  BY SeqMonotonic DEF Grows
<1>2. FilesOK /\ UNCHANGED files => FilesOK'
  BY <1>1 DEF FilesOK, files
<1>3. WritersOK /\ UNCHANGED writer => WritersOK'
  BY DEF WritersOK, Grows
<1>4. PassesOK /\ UNCHANGED pass => PassesOK'
  BY DEF PassesOK, HasFiles, Grows
<1>5. ClearsOK /\ UNCHANGED clearing => ClearsOK'
  BY <1>1 DEF ClearsOK, Grows
<1>6. QED
  BY <1>1, <1>2, <1>3, <1>4, <1>5

LEMMA PassStep ==
  ASSUME PassesOK, Grows, NEW r \in Replayers, NEW p \in PassType,
         pass' = [pass EXCEPT ![r] = p],
         p.line \subseteq Known', dlq' # NoFile,
         p.stage \in {"reading", "posting", "replacing"} => p.in \in Inodes /\ p.out \in Inodes,
         p.stage = "posting" <=> p.line # {}
  PROVE  PassesOK'
BY DEF PassesOK, HasFiles, Grows

(* The record of a pass that has dealt with a line, or has just opened its *)
(* files.                                                                  *)
NextLine(p, n, m) ==
  [p EXCEPT !.stage = "reading", !.pos = n, !.wrote = m, !.line = {}]
SkipLine(p, n)    == [p EXCEPT !.stage = "reading", !.pos = n, !.line = {}]
Opened(i, o)      == [IdlePass EXCEPT !.stage = "reading", !.in = i, !.out = o]

LEMMA NextLineRecord ==
  ASSUME NEW p \in PassType, NEW n \in Nat, NEW m \in Nat
  PROVE  LET q == NextLine(p, n, m)
         IN  /\ q \in PassType /\ q.stage = "reading" /\ q.line = {}
             /\ q.in = p.in /\ q.out = p.out /\ q.pos = n /\ q.wrote = m
BY DEF NextLine, PassType

LEMMA SkippedLineRecord ==
  ASSUME NEW p \in PassType, NEW n \in Nat
  PROVE  LET q == SkipLine(p, n)
         IN  /\ q \in PassType /\ q.stage = "reading" /\ q.line = {}
             /\ q.in = p.in /\ q.out = p.out /\ q.pos = n /\ q.wrote = p.wrote
BY DEF SkipLine, PassType

LEMMA OpenedRecord ==
  ASSUME NEW i \in Inodes, NEW o \in Inodes
  PROVE  LET q == Opened(i, o)
         IN  /\ q \in PassType /\ q.stage = "reading" /\ q.line = {}
             /\ q.in = i /\ q.out = o /\ q.pos = 0 /\ q.wrote = 0
<1>1. IdlePass \in PassType /\ IdlePass.line = {} /\ IdlePass.pos = 0 /\ IdlePass.wrote = 0
  BY DlqAssumption DEF IdlePass, PassType
<1>2. QED
  BY <1>1 DEF Opened, PassType

LEMMA LineIsKnown ==
  ASSUME TypeInv, NEW r \in Replayers, Reading(r) \/ pass[r].stage = "posting"
  PROVE  Line(r) \in Known /\ Line(r) \in Obs
<1>1. CASE Reading(r)
  <2>1. /\ pass[r].line = {} /\ pass[r].in \in Inodes /\ pass[r].pos \in Nat
        /\ pass[r].pos < Len(content[pass[r].in])
    BY <1>1 DEF TypeInv, PassesOK, PassType, HasFiles, Reading, HasLine
  <2>2. content[pass[r].in] \in Seq(Known) /\ Len(content[pass[r].in]) \in Nat
    BY <2>1, LenProperties DEF TypeInv, FilesOK
  <2>3. content[pass[r].in][pass[r].pos + 1] \in Known
    BY <2>1, <2>2, ElementOfSeq
  <2>4. QED
    BY <2>1, <2>3 DEF Line, Known
<1>2. CASE pass[r].stage = "posting"
  BY <1>2 DEF TypeInv, PassesOK, Line, Known
<1>3. QED
  BY <1>1, <1>2

LEMMA BeginAppendType ==
  ASSUME TypeInv, NEW a \in Appenders, NEW o \in Obs, BeginAppend(a, o)
  PROVE  TypeInv'
<1>1. /\ UNCHANGED <<content, dlq, tmp, pass, clearing, refused, old, exposed>>
      /\ \E n \in 0 .. 1 : rows' = [rows EXCEPT ![o] = n]
      /\ fate' = [fate EXCEPT ![o] = IF AtCap THEN "capped" ELSE "pending"]
      /\ writer' = [writer EXCEPT ![a] =
           IF AtCap THEN writer[a] ELSE [stage |-> "opening", obs |-> {o}, fd |-> NoFile]]
  BY DEF BeginAppend, files, outside
<1>2. fate' \in [Obs -> Fates] /\ o \in Known' /\ Grows
  BY <1>1 DEF TypeInv, OutsideOK, Fates, Known, Grows
<1>3. FilesOK' /\ PassesOK' /\ ClearsOK'
  BY <1>1, <1>2, Unchanged DEF TypeInv, files
<1>4. WritersOK'
  <2>1. CASE AtCap
    <3>1. writer' = writer
      BY <1>1, <2>1 DEF TypeInv, WritersOK
    <3>2. QED
      BY <1>2, <3>1, Unchanged DEF TypeInv
  <2>2. CASE ~AtCap
    <3> DEFINE w == [stage |-> "opening", obs |-> {o}, fd |-> NoFile]
    <3>1. w \in WriterType /\ w.obs \subseteq Known' /\ w.stage # "writing"
      BY <1>2 DEF WriterType
    <3>2. writer' = [writer EXCEPT ![a] = w]
      BY <1>1, <2>2
    <3> HIDE DEF w
    <3>3. QED
      BY <1>1, <1>2, <3>1, <3>2 DEF TypeInv, WritersOK, Grows
  <2>3. QED
    BY <2>1, <2>2
<1>5. OutsideOK'
  BY <1>1, <1>2 DEF TypeInv, OutsideOK, RowsMax
<1>6. QED
  BY <1>3, <1>4, <1>5 DEF TypeInv

LEMMA OpenForAppendType ==
  ASSUME TypeInv, NEW a \in Appenders, OpenForAppend(a)
  PROVE  TypeInv'
<1> DEFINE fd == IF dlq = NoFile THEN Fresh ELSE dlq
<1>1. /\ UNCHANGED <<content, tmp, pass, clearing, refused, old, rows, fate>>
      /\ dlq' = fd
      /\ writer' = [writer EXCEPT ![a].stage = "writing", ![a].fd = fd]
      /\ exposed' = exposed \/ exposed' = exposed \union writer[a].obs
  BY DEF OpenForAppend, outside
<1>2. fd \in Inodes /\ fd # NoFile
  BY FreshProperties, InodesAssumption DEF TypeInv, FilesOK
<1> HIDE DEF fd
<1>3. Known' = Known /\ Grows
  BY <1>1, <1>2 DEF Known, Grows
<1>4. FilesOK'
  BY <1>1, <1>2, <1>3 DEF TypeInv, FilesOK
<1>5. PassesOK' /\ ClearsOK'
  BY <1>1, <1>3, Unchanged DEF TypeInv
<1>6. WritersOK'
  <2> DEFINE w == [writer[a] EXCEPT !.stage = "writing", !.fd = fd]
  <2>1. w \in WriterType /\ w.obs \subseteq Known /\ w.fd \in Inodes
    BY <1>2 DEF TypeInv, WritersOK, WriterType
  <2>2. writer' = [writer EXCEPT ![a] = w]
    BY <1>1 DEF TypeInv, WritersOK
  <2> HIDE DEF w
  <2>3. QED
    BY <1>1, <1>2, <1>3, <2>1, <2>2 DEF TypeInv, WritersOK
<1>7. OutsideOK'
  BY <1>1 DEF TypeInv, OutsideOK, WritersOK, WriterType
<1>8. QED
  BY <1>4, <1>5, <1>6, <1>7 DEF TypeInv

LEMMA WriteLineType ==
  ASSUME TypeInv, NEW a \in Appenders, WriteLine(a)
  PROVE  TypeInv'
<1>1. /\ UNCHANGED <<dlq, tmp, pass, clearing, refused, old, rows>>
      /\ writer[a].stage = "writing"
      /\ writer' = [writer EXCEPT ![a] = IdleWriter]
  BY DEF WriteLine, outside
<1>2. PICK o \in writer[a].obs :
        /\ content' = Reclaim([content EXCEPT ![writer[a].fd] = Append(@, o)], InUse')
        /\ fate' = [fate EXCEPT ![o] = "queued"]
        /\ exposed' = IF Rewriting THEN exposed \union {o} ELSE exposed
  BY DEF WriteLine
<1>3. o \in Known /\ o \in Obs /\ writer[a].fd \in Inodes /\ dlq # NoFile
  BY <1>1 DEF TypeInv, WritersOK, Known
<1>4. fate' \in [Obs -> Fates] /\ Grows
  BY <1>1, <1>2, <1>3 DEF TypeInv, OutsideOK, Fates, Known, Grows
<1>5. FilesOK'
  <2>1. content[writer[a].fd] \in Seq(Known)
    BY <1>3 DEF TypeInv, FilesOK
  <2>2. Append(content[writer[a].fd], o) \in Seq(Known)
    BY <1>3, <2>1, AppendProperties
  <2>3. [content EXCEPT ![writer[a].fd] = Append(@, o)] \in [Inodes -> Seq(Known)]
    BY <1>3, <2>2 DEF TypeInv, FilesOK
  <2>4. content' \in [Inodes -> Seq(Known)]
    BY <1>2, <2>3, ReclaimProperties
  <2>5. content' \in [Inodes -> Seq(Known')]
    BY <1>4, <2>4, Unchanged
  <2>6. QED
    BY <1>1, <1>3, <2>5 DEF TypeInv, FilesOK
<1>6. PassesOK' /\ ClearsOK'
  BY <1>1, <1>4, Unchanged DEF TypeInv
<1>7. WritersOK'
  <2>1. /\ IdleWriter \in WriterType /\ IdleWriter.obs = {}
        /\ IdleWriter.stage # "writing"
    BY DEF IdleWriter, WriterType
  <2>2. QED
    BY <1>1, <1>4, <2>1 DEF TypeInv, WritersOK, Grows
<1>8. OutsideOK'
  BY <1>1, <1>2, <1>3, <1>4 DEF TypeInv, OutsideOK
<1>9. QED
  BY <1>5, <1>6, <1>7, <1>8 DEF TypeInv

LEMMA CleanTmpType ==
  ASSUME TypeInv, NEW r \in Replayers, CleanTmp(r)
  PROVE  TypeInv'
<1>1. /\ UNCHANGED <<dlq, writer, clearing, refused, old, rows, fate>>
      /\ dlq # NoFile /\ tmp' = NoFile /\ pass[r].stage = "idle"
      /\ pass' = [pass EXCEPT ![r].stage = "opening"]
      /\ exposed' = exposed \union MidAppend \union InMemory
      /\ content' = Reclaim(content, InUse')
  BY DEF CleanTmp, outside
<1>2. Known' = Known /\ Grows
  BY <1>1 DEF Known, Grows
<1>3. FilesOK'
  <2>1. content' \in [Inodes -> Seq(Known)]
    BY <1>1, ReclaimProperties DEF TypeInv, FilesOK
  <2>2. QED
    BY <1>1, <1>2, <2>1 DEF TypeInv, FilesOK
<1>4. WritersOK' /\ ClearsOK'
  BY <1>1, <1>2, Unchanged DEF TypeInv
<1>5. PassesOK'
  <2> DEFINE p == [pass[r] EXCEPT !.stage = "opening"]
  <2>1. /\ p \in PassType /\ p.line \subseteq Known /\ p.line = {}
        /\ p.stage = "opening"
    BY <1>1 DEF TypeInv, PassesOK, PassType
  <2>2. pass' = [pass EXCEPT ![r] = p]
    BY <1>1 DEF TypeInv, PassesOK
  <2> HIDE DEF p
  <2>3. QED
    BY <1>1, <1>2, <2>1, <2>2, PassStep DEF TypeInv
<1>6. OutsideOK'
  <2>1. MidAppend \subseteq Obs
    BY DEF MidAppend, TypeInv, WritersOK, WriterType
  <2>2. InMemory \subseteq Obs
    BY LinesOfFile DEF InMemory, TypeInv, ClearsOK, ClearType
  <2>3. QED
    BY <1>1, <2>1, <2>2 DEF TypeInv, OutsideOK
<1>7. QED
  BY <1>3, <1>4, <1>5, <1>6 DEF TypeInv

LEMMA OpenFilesType ==
  ASSUME TypeInv, NEW r \in Replayers, OpenFiles(r)
  PROVE  TypeInv'
<1> DEFINE out == IF tmp = NoFile THEN Fresh ELSE tmp
           p   == Opened(dlq, out)
<1>1. /\ UNCHANGED <<dlq, writer, clearing, refused, old, rows, fate, exposed>>
      /\ tmp' = out
      /\ content' = [content EXCEPT ![out] = <<>>]
      /\ pass' = [pass EXCEPT ![r] = p]
      /\ pass[r].stage = "opening"
  BY DEF OpenFiles, outside, history, Opened
<1>2. out \in Inodes /\ out # NoFile /\ dlq \in Inodes /\ dlq # NoFile
  BY <1>1, FreshProperties, InodesAssumption DEF TypeInv, FilesOK, PassesOK
<1> HIDE DEF out
<1>3. Known' = Known /\ Grows
  BY <1>1 DEF Known, Grows
<1>4. FilesOK'
  <2>1. <<>> \in Seq(Known)
    BY EmptySeq
  <2>2. QED
    BY <1>1, <1>2, <1>3, <2>1 DEF TypeInv, FilesOK
<1>5. WritersOK' /\ ClearsOK'
  BY <1>1, <1>3, Unchanged DEF TypeInv
<1>6. PassesOK'
  <2>1. /\ p \in PassType /\ p.line = {} /\ p.stage = "reading"
        /\ p.in \in Inodes /\ p.out \in Inodes
    BY <1>2, OpenedRecord
  <2> HIDE DEF p
  <2>2. QED
    BY <1>1, <1>2, <1>3, <2>1, PassStep DEF TypeInv
<1>7. OutsideOK'
  BY <1>1 DEF TypeInv, OutsideOK
<1>8. QED
  BY <1>4, <1>5, <1>6, <1>7 DEF TypeInv

LEMMA KeepLineType ==
  ASSUME TypeInv, NEW r \in Replayers, Reading(r) \/ pass[r].stage = "posting",
         KeepLine(r), dlq' = dlq, tmp' = tmp
  PROVE  FilesOK' /\ PassesOK' /\ Known' = Known /\ Grows
<1>1. /\ content' = WithLineKept(r) /\ fate' = fate
      /\ pass' = [pass EXCEPT ![r].stage = "reading", ![r].pos = @ + 1,
                              ![r].wrote = @ + 1, ![r].line = {}]
  BY DEF KeepLine
<1>2. Known' = Known /\ Grows
  BY <1>1 DEF Known, Grows
<1>3. /\ pass[r] \in PassType /\ pass[r].in \in Inodes /\ pass[r].out \in Inodes
      /\ dlq # NoFile
  BY DEF TypeInv, PassesOK, HasFiles, Reading
<1>4. Line(r) \in Known
  BY LineIsKnown
<1>5. FilesOK'
  <2>1. content[pass[r].out] \in Seq(Known) /\ pass[r].wrote \in Nat
    BY <1>3 DEF TypeInv, FilesOK, PassType
  <2>2. WriteAt(content[pass[r].out], pass[r].wrote, Line(r)) \in Seq(Known)
    BY <1>4, <2>1, WriteAtProperties
  <2>3. content' \in [Inodes -> Seq(Known)]
    BY <1>1, <1>3, <2>2 DEF WithLineKept, TypeInv, FilesOK
  <2>4. QED
    BY <1>2, <1>3, <2>3 DEF TypeInv, FilesOK
<1>6. PassesOK'
  <2> DEFINE p == NextLine(pass[r], pass[r].pos + 1, pass[r].wrote + 1)
  <2>1. /\ p \in PassType /\ p.line = {} /\ p.stage = "reading"
        /\ p.in \in Inodes /\ p.out \in Inodes
    <3>1. pass[r].pos + 1 \in Nat /\ pass[r].wrote + 1 \in Nat
      BY <1>3 DEF PassType
    <3>2. \A n, m \in Nat : LET q == NextLine(pass[r], n, m) IN
            /\ q \in PassType /\ q.stage = "reading" /\ q.line = {}
            /\ q.in = pass[r].in /\ q.out = pass[r].out
      BY <1>3, NextLineRecord
    <3>3. QED
      BY <1>3, <3>1, <3>2
  <2>2. pass' = [pass EXCEPT ![r] = p]
    BY <1>1 DEF TypeInv, PassesOK, NextLine
  <2> HIDE DEF p
  <2>3. QED
    BY <1>2, <1>3, <2>1, <2>2, PassStep DEF TypeInv
<1>7. QED
  BY <1>2, <1>5, <1>6

LEMMA RemoveLineType ==
  ASSUME TypeInv, NEW r \in Replayers, Reading(r) \/ pass[r].stage = "posting",
         NEW f \in {"delivered", "expired", "rejected"}, RemoveLine(r, f),
         dlq' = dlq, tmp' = tmp
  PROVE  FilesOK' /\ PassesOK' /\ Known' = Known /\ Grows /\ fate' \in [Obs -> Fates]
<1>1. /\ content' = content /\ fate' = [fate EXCEPT ![Line(r)] = f]
      /\ pass' = [pass EXCEPT ![r].stage = "reading", ![r].pos = @ + 1,
                              ![r].line = {}]
  BY DEF RemoveLine
<1>2. Line(r) \in Known /\ Line(r) \in Obs
  BY LineIsKnown
<1>3. fate' \in [Obs -> Fates]
  BY <1>1, <1>2 DEF TypeInv, OutsideOK, Fates
<1>4. Known' = Known /\ Grows
  <2>1. \A o \in Obs : (fate'[o] # "fresh") = (fate[o] # "fresh")
    BY <1>1, <1>2 DEF TypeInv, OutsideOK, Known
  <2>2. QED
    BY <2>1 DEF Known, Grows
<1>5. /\ pass[r] \in PassType /\ pass[r].in \in Inodes /\ pass[r].out \in Inodes
      /\ dlq # NoFile
  BY DEF TypeInv, PassesOK, HasFiles, Reading
<1>6. FilesOK'
  BY <1>1, <1>4, Unchanged DEF TypeInv, files
<1>7. PassesOK'
  <2> DEFINE p == SkipLine(pass[r], pass[r].pos + 1)
  <2>1. /\ p \in PassType /\ p.line = {} /\ p.stage = "reading"
        /\ p.in \in Inodes /\ p.out \in Inodes
    <3>1. pass[r].pos + 1 \in Nat
      BY <1>5 DEF PassType
    <3>2. QED
      BY <1>5, <3>1, SkippedLineRecord, ZenonT(30)
  <2>2. pass' = [pass EXCEPT ![r] = p]
    BY <1>1 DEF TypeInv, PassesOK, SkipLine
  <2> HIDE DEF p
  <2>3. QED
    BY <1>4, <1>5, <2>1, <2>2, PassStep DEF TypeInv
<1>8. QED
  BY <1>3, <1>4, <1>6, <1>7

(* What a pass does with a line, for the invariants: it keeps the record,  *)
(* or removes it for one of three reasons.                                 *)
LineStep(r) ==
  \/ CopyLine(r) \/ ExpireLine(r) \/ ProbeFinds(r)
  \/ \E reply \in ReplyKinds : PostReply(r, reply)

(* The target has the row, or it answers 409 whether it has or not.        *)
Answered(r) == rows'[Line(r)] > 0 \/ Line(r) \in Unlocated

LEMMA LineStepCases ==
  ASSUME TypeInv, NEW r \in Replayers, LineStep(r)
  PROVE  /\ UNCHANGED <<dlq, tmp, writer, clearing, refused, old, exposed>>
         /\ Reading(r) \/ pass[r].stage = "posting"
         /\ \/ KeepLine(r)
            \/ RemoveLine(r, "expired")
            \/ RemoveLine(r, "rejected")
            \/ RemoveLine(r, "delivered") /\ Answered(r)
         /\ \/ rows' = rows
            \/ pass[r].stage = "posting" /\ rows' = Store(Line(r))
<1>0. Line(r) \in Obs
  <2>1. Reading(r) \/ pass[r].stage = "posting"
    BY DEF LineStep, CopyLine, ExpireLine, ProbeFinds, PostReply
  <2>2. QED
    BY <2>1, LineIsKnown
<1>1. CASE CopyLine(r)
  BY <1>1 DEF CopyLine, outside
<1>2. CASE ExpireLine(r)
  BY <1>2 DEF ExpireLine, outside
<1>3. CASE ProbeFinds(r)
  BY <1>3 DEF ProbeFinds, Answered, outside
<1>4. ASSUME NEW reply \in ReplyKinds, PostReply(r, reply)
      PROVE  /\ UNCHANGED <<dlq, tmp, writer, clearing, refused, old, exposed>>
             /\ pass[r].stage = "posting"
             /\ rows' = rows \/ rows' = Store(Line(r))
             /\ \/ KeepLine(r)
                \/ RemoveLine(r, "rejected")
                \/ RemoveLine(r, "delivered") /\ Answered(r)
  <2>1. /\ UNCHANGED <<dlq, tmp, writer, clearing, refused, old, exposed>>
        /\ pass[r].stage = "posting"
        /\ reply = "conflict" => rows[Line(r)] > 0 \/ Line(r) \in Unlocated
        /\ rows' = IF reply \in {"created", "late_commit"} THEN Store(Line(r)) ELSE rows
    BY <1>4 DEF PostReply, Conflicting, outside
  <2>2. CASE reply \in Retryable
    <3>1. KeepLine(r)
      BY <1>4, <2>2 DEF PostReply, Retryable
    <3>2. QED
      BY <2>1, <3>1
  <2>3. CASE reply = "rejected"
    <3>1. RemoveLine(r, "rejected")
      BY <1>4, <2>3 DEF PostReply, Retryable
    <3>2. QED
      BY <2>1, <3>1
  <2>4. CASE reply \notin Retryable /\ reply # "rejected"
    <3>1. RemoveLine(r, "delivered")
      BY <1>4, <2>4 DEF PostReply
    <3>2. reply = "created" \/ reply = "conflict"
      BY <2>4 DEF Retryable, ReplyKinds
    <3>3. Answered(r)
      <4>1. rows \in [Obs -> 0 .. RowsMax]
        BY DEF TypeInv, OutsideOK
      <4>2. Store(Line(r))[Line(r)] > 0
        BY <1>0, <4>1 DEF Store, RowsMax
      <4>3. QED
        BY <2>1, <3>2, <4>2 DEF Answered
    <3>4. QED
      BY <2>1, <3>1, <3>3
  <2>5. QED
    BY <2>2, <2>3, <2>4
<1>5. QED
  BY <1>1, <1>2, <1>3, <1>4 DEF LineStep

LEMMA LineStepType ==
  ASSUME TypeInv, NEW r \in Replayers, LineStep(r)
  PROVE  TypeInv' /\ Known' = Known
<1>1. /\ UNCHANGED <<dlq, tmp, writer, clearing, refused, old, exposed>>
      /\ Reading(r) \/ pass[r].stage = "posting"
      /\ rows' = rows \/ rows' = Store(Line(r))
      /\ \/ KeepLine(r) \/ RemoveLine(r, "expired") \/ RemoveLine(r, "rejected")
         \/ RemoveLine(r, "delivered")
  BY LineStepCases
<1>2. FilesOK' /\ PassesOK' /\ Known' = Known /\ Grows /\ fate' \in [Obs -> Fates]
  <2>1. CASE KeepLine(r)
    <3>1. fate' = fate
      BY <2>1 DEF KeepLine
    <3>2. QED
      BY <1>1, <2>1, <3>1, KeepLineType DEF TypeInv, OutsideOK
  <2>2. ASSUME NEW f \in {"delivered", "expired", "rejected"}, RemoveLine(r, f)
        PROVE  FilesOK' /\ PassesOK' /\ Known' = Known /\ Grows
               /\ fate' \in [Obs -> Fates]
    BY <1>1, <2>2, RemoveLineType
  <2>3. QED
    BY <1>1, <2>1, <2>2
<1>3. rows' \in [Obs -> 0 .. RowsMax]
  BY <1>1 DEF TypeInv, OutsideOK, Store, RowsMax
<1>4. OutsideOK'
  BY <1>1, <1>2, <1>3 DEF TypeInv, OutsideOK
<1>5. WritersOK' /\ ClearsOK'
  BY <1>1, <1>2, Unchanged DEF TypeInv
<1>6. QED
  BY <1>2, <1>4, <1>5 DEF TypeInv

LEMMA AttemptType ==
  ASSUME TypeInv, NEW r \in Replayers, Attempt(r)
  PROVE  TypeInv' /\ Known' = Known
<1> DEFINE l == {Line(r)}
           n == pass[r].attempted + 1
           p == [pass[r] EXCEPT !.stage = "posting", !.attempted = n, !.line = l]
<1>1. /\ UNCHANGED <<content, dlq, tmp, writer, clearing, refused, old, rows, fate, exposed>>
      /\ Reading(r) /\ ~Spent(r)
      /\ pass' = [pass EXCEPT ![r].stage = "posting",
                              ![r].attempted = @ + 1, ![r].line = {Line(r)}]
  BY DEF Attempt, files, outside, history, Posts, Untried
<1>2. Known' = Known /\ Grows
  BY <1>1 DEF Known, Grows
<1>3. FilesOK' /\ WritersOK' /\ ClearsOK'
  BY <1>1, <1>2, Unchanged DEF TypeInv, files
<1>4. OutsideOK'
  BY <1>1 DEF TypeInv, OutsideOK
<1>5. PassesOK'
  <2>1. /\ pass[r] \in PassType /\ pass[r].in \in Inodes /\ pass[r].out \in Inodes
        /\ dlq # NoFile
    BY <1>1 DEF TypeInv, PassesOK, HasFiles, Reading
  <2>2. l \subseteq Known /\ l # {} /\ l \in SUBSET Obs
    BY <1>1, LineIsKnown
  <2>3. n \in 0 .. MaxLines
    BY <1>1, <2>1, DlqAssumption DEF Spent, PassType
  <2>4. pass' = [pass EXCEPT ![r] = p]
    BY <1>1 DEF TypeInv, PassesOK
  <2> HIDE DEF l, n
  <2>5. /\ p \in PassType /\ p.line = l /\ p.stage = "posting"
        /\ p.in \in Inodes /\ p.out \in Inodes
    BY <2>1, <2>2, <2>3 DEF PassType
  <2> HIDE DEF p
  <2>6. QED
    BY <1>1, <1>2, <2>1, <2>2, <2>4, <2>5, PassStep DEF TypeInv
<1>6. QED
  BY <1>2, <1>3, <1>4, <1>5 DEF TypeInv

LEMMA FinishReadingType ==
  ASSUME TypeInv, NEW r \in Replayers, FinishReading(r)
  PROVE  TypeInv' /\ Known' = Known
<1>1. /\ UNCHANGED <<content, dlq, tmp, writer, clearing, refused, old, rows, fate, exposed>>
      /\ pass[r].stage = "reading"
      /\ pass' = [pass EXCEPT ![r].stage = "replacing"]
  BY DEF FinishReading, files, outside, history
<1>2. Known' = Known /\ Grows
  BY <1>1 DEF Known, Grows
<1>3. FilesOK' /\ WritersOK' /\ ClearsOK'
  BY <1>1, <1>2, Unchanged DEF TypeInv, files
<1>4. OutsideOK'
  BY <1>1 DEF TypeInv, OutsideOK
<1>5. PassesOK'
  <2> DEFINE p == [pass[r] EXCEPT !.stage = "replacing"]
  <2>1. /\ p \in PassType /\ p.line = {} /\ p.stage = "replacing"
        /\ p.in \in Inodes /\ p.out \in Inodes /\ dlq # NoFile
    BY <1>1 DEF TypeInv, PassesOK, PassType, HasFiles
  <2>2. pass' = [pass EXCEPT ![r] = p]
    BY <1>1 DEF TypeInv, PassesOK
  <2> HIDE DEF p
  <2>3. QED
    BY <1>1, <1>2, <2>1, <2>2, PassStep DEF TypeInv
<1>6. QED
  BY <1>2, <1>3, <1>4, <1>5 DEF TypeInv

LEMMA ReplaceDlqType ==
  ASSUME TypeInv, NEW r \in Replayers, ReplaceDlq(r)
  PROVE  TypeInv' /\ Known' = Known
<1>1. /\ UNCHANGED <<writer, clearing, refused, old, rows, fate, exposed>>
      /\ pass[r].stage = "replacing"
      /\ dlq' = IF tmp = NoFile THEN dlq ELSE tmp
      /\ tmp' = NoFile
      /\ pass' = [pass EXCEPT ![r] = IdlePass]
      /\ content' = Reclaim(content, InUse')
  BY DEF ReplaceDlq, outside, history
<1>2. dlq # NoFile /\ dlq' # NoFile /\ dlq' \in Inodes
  BY <1>1 DEF TypeInv, PassesOK, FilesOK
<1>3. Known' = Known /\ Grows
  BY <1>1, <1>2 DEF Known, Grows
<1>4. FilesOK'
  <2>1. content' \in [Inodes -> Seq(Known)]
    BY <1>1, ReclaimProperties DEF TypeInv, FilesOK
  <2>2. QED
    BY <1>1, <1>2, <1>3, <2>1 DEF TypeInv, FilesOK
<1>5. WritersOK' /\ ClearsOK'
  BY <1>1, <1>3, Unchanged DEF TypeInv
<1>6. OutsideOK'
  BY <1>1 DEF TypeInv, OutsideOK
<1>7. PassesOK'
  <2>1. IdlePass \in PassType /\ IdlePass.line = {} /\ IdlePass.stage = "idle"
    BY DlqAssumption DEF IdlePass, PassType
  <2>2. QED
    BY <1>1, <1>2, <1>3, <2>1, PassStep DEF TypeInv
<1>8. QED
  BY <1>3, <1>4, <1>5, <1>6, <1>7 DEF TypeInv

LEMMA ReadTailType ==
  ASSUME TypeInv, NEW c \in Clearers, ReadTail(c)
  PROVE  TypeInv' /\ Known' = Known
<1> DEFINE t == TailToKeep(Lines(dlq))
           q == [stage |-> "truncating", fd |-> NoFile, tail |-> t]
<1>1. /\ UNCHANGED <<content, dlq, tmp, writer, pass, refused, old, rows, fate>>
      /\ dlq # NoFile /\ clearing[c].stage = "idle"
      /\ clearing' = [clearing EXCEPT ![c] = q]
      /\ exposed' = exposed \union MidAppend \union (IF Passing THEN Range(t) ELSE {})
  BY DEF ReadTail, files, outside
<1>2. Known' = Known /\ Grows
  BY <1>1 DEF Known, Grows
<1>3. FilesOK' /\ WritersOK' /\ PassesOK'
  BY <1>1, <1>2, Unchanged DEF TypeInv, files
<1>4. t \in Seq(Known) /\ t \in Seq(Obs)
  <2>1. Lines(dlq) \in Seq(Known)
    BY <1>1 DEF Lines, TypeInv, FilesOK
  <2>2. t \in Seq(Known)
    BY <2>1, TailProperties
  <2>3. QED
    BY <2>2, SeqMonotonic DEF Known
<1> HIDE DEF t
<1>5. ClearsOK'
  <2>1. q \in ClearType
    BY <1>4 DEF ClearType
  <2>2. q.tail = t /\ q.stage = "truncating"
    OBVIOUS
  <2> HIDE DEF q
  <2>3. QED
    BY <1>1, <1>2, <1>4, <2>1, <2>2 DEF TypeInv, ClearsOK
<1>6. OutsideOK'
  <2>1. MidAppend \subseteq Obs
    BY DEF MidAppend, TypeInv, WritersOK, WriterType
  <2>2. Range(t) \subseteq Obs
    BY <1>4, LinesOfFile
  <2>3. QED
    BY <1>1, <2>1, <2>2 DEF TypeInv, OutsideOK
<1>7. QED
  BY <1>2, <1>3, <1>5, <1>6 DEF TypeInv

LEMMA TruncateType ==
  ASSUME TypeInv, NEW c \in Clearers, Truncate(c)
  PROVE  TypeInv' /\ Known' = Known
<1> DEFINE gone == {o \in Queued : fate[o] = "queued"} \ Range(clearing[c].tail)
           q    == [clearing[c] EXCEPT !.stage = "writing", !.fd = dlq]
<1>1. /\ UNCHANGED <<dlq, tmp, writer, pass, refused, old, rows, exposed>>
      /\ clearing[c].stage = "truncating"
      /\ content' = [content EXCEPT ![dlq] = <<>>]
      /\ fate' = [o \in Obs |-> IF o \in gone THEN "cleared" ELSE fate[o]]
      /\ clearing' = [clearing EXCEPT ![c].stage = "writing", ![c].fd = dlq]
  BY DEF Truncate, outside
<1>2. fate' \in [Obs -> Fates]
  BY <1>1 DEF TypeInv, OutsideOK, Fates
<1>3. Known' = Known /\ Grows
  <2>1. \A o \in Obs : (fate'[o] # "fresh") = (fate[o] # "fresh")
    <3>1. \A o \in gone : fate[o] = "queued"
      OBVIOUS
    <3> HIDE DEF gone
    <3>2. QED
      BY <1>1, <3>1
  <2>2. QED
    BY <1>1, <2>1 DEF Known, Grows
<1> HIDE DEF gone
<1>4. dlq \in Inodes /\ dlq # NoFile
  BY <1>1, InodesAssumption DEF TypeInv, ClearsOK, FilesOK
<1>5. FilesOK'
  <2>1. <<>> \in Seq(Known)
    BY EmptySeq
  <2>2. QED
    BY <1>1, <1>3, <1>4, <2>1 DEF TypeInv, FilesOK
<1>6. WritersOK' /\ PassesOK'
  BY <1>1, <1>3, Unchanged DEF TypeInv
<1>7. ClearsOK'
  <2>1. /\ q \in ClearType /\ q.tail = clearing[c].tail /\ q.fd = dlq
        /\ q.stage = "writing"
    BY <1>1, <1>4 DEF TypeInv, ClearsOK, ClearType
  <2>2. clearing' = [clearing EXCEPT ![c] = q]
    BY <1>1 DEF TypeInv, ClearsOK
  <2> HIDE DEF q
  <2>3. QED
    BY <1>1, <1>3, <1>4, <2>1, <2>2 DEF TypeInv, ClearsOK
<1>8. OutsideOK'
  BY <1>1, <1>2 DEF TypeInv, OutsideOK
<1>9. QED
  BY <1>3, <1>5, <1>6, <1>7, <1>8 DEF TypeInv

LEMMA WriteTailType ==
  ASSUME TypeInv, NEW c \in Clearers, WriteTail(c)
  PROVE  TypeInv' /\ Known' = Known
<1> DEFINE i == clearing[c].fd
           u == Overwrite(content[i], clearing[c].tail)
<1>1. /\ UNCHANGED <<dlq, tmp, writer, pass, refused, old, rows, fate, exposed>>
      /\ clearing[c].stage = "writing"
      /\ clearing' = [clearing EXCEPT ![c] = IdleClear]
      /\ content' = Reclaim([content EXCEPT ![i] = u], InUse')
  BY DEF WriteTail, outside, history
<1>2. Known' = Known /\ Grows
  BY <1>1 DEF Known, Grows
<1>3. i \in Inodes /\ dlq # NoFile
  BY <1>1 DEF TypeInv, ClearsOK
<1>4. u \in Seq(Known)
  <2>1. content[i] \in Seq(Known) /\ clearing[c].tail \in Seq(Known)
    BY <1>3 DEF TypeInv, FilesOK, ClearsOK
  <2>2. QED
    BY <2>1, OverwriteProperties
<1> HIDE DEF i, u
<1>5. FilesOK'
  <2>1. [content EXCEPT ![i] = u] \in [Inodes -> Seq(Known)]
    BY <1>3, <1>4 DEF TypeInv, FilesOK
  <2>2. content' \in [Inodes -> Seq(Known)]
    BY <1>1, <2>1, ReclaimProperties
  <2>3. QED
    BY <1>1, <1>2, <1>3, <2>2 DEF TypeInv, FilesOK
<1>6. WritersOK' /\ PassesOK'
  BY <1>1, <1>2, Unchanged DEF TypeInv
<1>7. ClearsOK'
  <2>1. <<>> \in Seq(Known) /\ <<>> \in Seq(Obs)
    BY EmptySeq
  <2>2. IdleClear \in ClearType /\ IdleClear.stage = "idle" /\ IdleClear.tail = <<>>
    BY <2>1 DEF IdleClear, ClearType
  <2>3. QED
    BY <1>1, <1>2, <2>1, <2>2 DEF TypeInv, ClearsOK
<1>8. OutsideOK'
  BY <1>1 DEF TypeInv, OutsideOK
<1>9. QED
  BY <1>2, <1>5, <1>6, <1>7, <1>8 DEF TypeInv

LEMMA CrashType ==
  ASSUME TypeInv, Crash
  PROVE  TypeInv' /\ Known' = Known
<1>1. /\ writer' = [a \in Appenders |-> IdleWriter]
      /\ pass' = [r \in Replayers |-> IdlePass]
      /\ clearing' = [c \in Clearers |-> IdleClear]
      /\ fate' = [o \in Obs |-> IF fate[o] = "pending" THEN "crashed" ELSE fate[o]]
      /\ exposed' = exposed \union InMemory
      /\ UNCHANGED <<dlq, tmp, refused, old, rows>>
      /\ content' = Reclaim(content, InUse')
  BY DEF Crash, outside
<1>2. fate' \in [Obs -> Fates]
  BY <1>1 DEF TypeInv, OutsideOK, Fates
<1>3. Known' = Known /\ Grows
  <2>1. \A o \in Obs : (fate'[o] # "fresh") = (fate[o] # "fresh")
    BY <1>1
  <2>2. QED
    BY <1>1, <2>1 DEF Known, Grows
<1>4. FilesOK'
  <2>1. content' \in [Inodes -> Seq(Known)]
    BY <1>1, ReclaimProperties DEF TypeInv, FilesOK
  <2>2. dlq = NoFile => \A i \in Inodes : content'[i] = <<>>
    BY <1>1 DEF Reclaim, TypeInv, FilesOK
  <2>3. QED
    BY <1>1, <1>3, <2>1, <2>2 DEF TypeInv, FilesOK
<1>5. WritersOK'
  BY <1>1 DEF WritersOK, WriterType, IdleWriter
<1>6. PassesOK'
  <2>1. IdlePass \in PassType /\ IdlePass.line = {} /\ IdlePass.stage = "idle"
    BY DlqAssumption DEF IdlePass, PassType
  <2>2. QED
    BY <1>1, <2>1 DEF PassesOK, HasFiles
<1>7. ClearsOK'
  <2>1. \A S : <<>> \in Seq(S)
    BY EmptySeq
  <2>2. IdleClear \in ClearType /\ IdleClear.stage = "idle" /\ IdleClear.tail = <<>>
    BY <2>1 DEF IdleClear, ClearType
  <2>3. QED
    BY <1>1, <2>1, <2>2 DEF ClearsOK
<1>8. OutsideOK'
  <2>1. InMemory \subseteq Obs
    BY LinesOfFile DEF InMemory, TypeInv, ClearsOK, ClearType
  <2>2. QED
    BY <1>1, <1>2, <2>1 DEF TypeInv, OutsideOK
<1>9. QED
  BY <1>3, <1>4, <1>5, <1>6, <1>7, <1>8 DEF TypeInv

LEMMA EnvironmentType ==
  ASSUME TypeInv,
         (\E t \in Targets : BreakerChanges(t)) \/ \E o \in Obs : Age(o)
  PROVE  /\ TypeInv' /\ Known' = Known
         /\ UNCHANGED <<content, dlq, tmp, writer, pass, clearing, rows, fate, exposed>>
<1>1. /\ UNCHANGED <<content, dlq, tmp, writer, pass, clearing, rows, fate, exposed>>
      /\ refused' \subseteq Targets /\ old' \subseteq Obs
  BY DEF BreakerChanges, Age, files, history, TypeInv, OutsideOK
<1>2. Known' = Known /\ Grows
  BY <1>1 DEF Known, Grows
<1>3. QED
  BY <1>1, <1>2, Unchanged DEF TypeInv, OutsideOK, files

(* The steps one by one, for every invariant.                              *)
LEMMA NextType == TypeInv /\ [Next]_vars => TypeInv'
<1> SUFFICES ASSUME TypeInv, [Next]_vars PROVE TypeInv'
  OBVIOUS
<1>1. ASSUME NEW a \in Appenders, AppendStep(a) PROVE TypeInv'
  BY <1>1, BeginAppendType, OpenForAppendType, WriteLineType DEF AppendStep
<1>2. ASSUME NEW r \in Replayers, ReplayStep(r) PROVE TypeInv'
  BY <1>2, CleanTmpType, OpenFilesType, LineStepType, AttemptType,
     FinishReadingType, ReplaceDlqType DEF ReplayStep, LineStep
<1>3. ASSUME NEW c \in Clearers, ClearStep(c) PROVE TypeInv'
  BY <1>3, ReadTailType, TruncateType, WriteTailType DEF ClearStep
<1>4. CASE Crash
  BY <1>4, CrashType
<1>5. CASE (\E t \in Targets : BreakerChanges(t)) \/ \E o \in Obs : Age(o)
  BY <1>5, EnvironmentType
<1>6. CASE UNCHANGED vars
  BY <1>6 DEF TypeInv, FilesOK, WritersOK, PassesOK, HasFiles, ClearsOK, OutsideOK, Known, vars
<1>7. QED
  BY <1>1, <1>2, <1>3, <1>4, <1>5, <1>6 DEF Next

LEMMA TypeInvHolds == Spec => []TypeInv
<1>1. QED
  BY InitType, NextType, PTL DEF Spec

(* Every file, handle and append is well-formed, whatever appends, passes, *)
(* truncations and crashes interleave: _write_failed_observation,          *)
(* replay_failed_observations and dlq_clear.                               *)
THEOREM TypeCorrect == Spec => []TypeOK
<1>1. TypeInv => TypeOK
  <2>1. \A S : S \subseteq Obs => Seq(S) \subseteq Seq(Obs)
    BY SeqMonotonic
  <2>2. Seq(Known) \subseteq Seq(Obs)
    BY <2>1 DEF Known
  <2>3. QED
    BY <2>2 DEF TypeInv, FilesOK, WritersOK, WriterType, PassesOK, PassType, ClearsOK,
                ClearType, OutsideOK, Fates, TypeOK
<1>2. QED
  BY <1>1, TypeInvHolds, PTL

-----------------------------------------------------------------------------
(* A record counts as delivered on an answer that shows the row, or on the *)
(* 409 of a Thing without a Location: rows are never taken back, and a     *)
(* dead-lettered observation is not appended again.                        *)
LEMMA RowsGrow ==
  ASSUME TypeInv, NEW r \in Replayers, LineStep(r)
  PROVE  \A o \in Obs : rows[o] > 0 => rows'[o] > 0
BY LineStepCases DEF Store, RowsMax, TypeInv, OutsideOK

LEMMA NextDelivered == TypeInv /\ DeliveredIsStored /\ [Next]_vars => DeliveredIsStored'
<1> SUFFICES ASSUME TypeInv, DeliveredIsStored, [Next]_vars PROVE DeliveredIsStored'
  OBVIOUS
<1>0. rows \in [Obs -> 0 .. RowsMax] /\ fate \in [Obs -> Fates]
  BY DEF TypeInv, OutsideOK
<1>1. ASSUME NEW a \in Appenders, AppendStep(a) PROVE DeliveredIsStored'
  <2>1. ASSUME NEW o \in Obs, BeginAppend(a, o) PROVE DeliveredIsStored'
    <3>1. /\ \E n \in 0 .. 1 : rows' = [rows EXCEPT ![o] = n]
          /\ fate' = [fate EXCEPT ![o] = IF AtCap THEN "capped" ELSE "pending"]
      BY <2>1 DEF BeginAppend
    <3>2. QED
      BY <1>0, <3>1 DEF DeliveredIsStored
  <2>2. CASE OpenForAppend(a)
    BY <2>2 DEF OpenForAppend, DeliveredIsStored
  <2>3. CASE WriteLine(a)
    <3>1. rows' = rows /\ \E o \in writer[a].obs : fate' = [fate EXCEPT ![o] = "queued"]
      BY <2>3 DEF WriteLine
    <3>2. QED
      BY <1>0, <3>1 DEF DeliveredIsStored
  <2>4. QED
    BY <1>1, <2>1, <2>2, <2>3 DEF AppendStep
<1>2. ASSUME NEW r \in Replayers, ReplayStep(r) PROVE DeliveredIsStored'
  <2>1. ASSUME LineStep(r) PROVE DeliveredIsStored'
    <3>1. \A o \in Obs : rows[o] > 0 => rows'[o] > 0
      BY <2>1, RowsGrow
    <3>2. Line(r) \in Obs
      BY <2>1, LineStepCases, LineIsKnown
    <3>3. CASE KeepLine(r)
      BY <3>1, <3>3 DEF KeepLine, DeliveredIsStored
    <3>4. CASE RemoveLine(r, "expired") \/ RemoveLine(r, "rejected")
      BY <1>0, <3>1, <3>2, <3>4 DEF RemoveLine, DeliveredIsStored
    <3>5. CASE RemoveLine(r, "delivered") /\ Answered(r)
      BY <1>0, <3>1, <3>2, <3>5 DEF RemoveLine, Answered, DeliveredIsStored
    <3>6. QED
      BY <2>1, <3>3, <3>4, <3>5, LineStepCases
  <2>2. ASSUME CleanTmp(r) \/ OpenFiles(r) \/ Attempt(r) \/ FinishReading(r) \/ ReplaceDlq(r)
        PROVE  UNCHANGED <<rows, fate>>
    BY <2>2 DEF CleanTmp, OpenFiles, Attempt, FinishReading, ReplaceDlq, history
  <2>3. QED
    BY <1>2, <2>1, <2>2 DEF ReplayStep, LineStep, DeliveredIsStored
<1>3. ASSUME NEW c \in Clearers, ClearStep(c) PROVE DeliveredIsStored'
  <2>1. CASE Truncate(c)
    <3>1. rows' = rows /\ \A o \in Obs : fate'[o] \in {"cleared", fate[o]}
      BY <2>1 DEF Truncate
    <3>2. QED
      BY <3>1 DEF DeliveredIsStored
  <2>2. CASE ReadTail(c) \/ WriteTail(c)
    BY <2>2 DEF ReadTail, WriteTail, history, DeliveredIsStored
  <2>3. QED
    BY <1>3, <2>1, <2>2 DEF ClearStep
<1>4. CASE Crash
  <2>1. rows' = rows /\ \A o \in Obs : fate'[o] \in {"crashed", fate[o]}
    BY <1>4 DEF Crash
  <2>2. QED
    BY <2>1 DEF DeliveredIsStored
<1>5. CASE (\E t \in Targets : BreakerChanges(t)) \/ \E o \in Obs : Age(o)
  BY <1>5, EnvironmentType DEF DeliveredIsStored
<1>6. CASE UNCHANGED vars
  BY <1>6 DEF vars, DeliveredIsStored
<1>7. QED
  BY <1>1, <1>2, <1>3, <1>4, <1>5, <1>6 DEF Next

(* replay_failed_observations takes a record out of the file as delivered  *)
(* only if the server has the observation or its Thing may have no         *)
(* Location, however passes, appends, truncations and crashes interleave:  *)
(* the 409 of such a Thing is the only way to lose a record as delivered.  *)
THEOREM RemovedIsStored == Spec => []DeliveredIsStored
<1>1. Init => DeliveredIsStored
  BY DEF Init, DeliveredIsStored
<1>2. QED
  BY <1>1, NextDelivered, TypeInvHolds, PTL DEF Spec

-----------------------------------------------------------------------------
(* One pass at a time.  The probe and the POST are two steps, and a row    *)
(* may be there although the client never saw an answer.                   *)
OnePass == \A r1, r2 \in Replayers : r1 = r2

RowsInv == TypeInv /\ PostsAreNew

LEMMA NextPostsAreNew ==
  ASSUME OnePass, DedupProbe, ~ProbeMayFail
  PROVE  RowsInv /\ [Next]_vars => PostsAreNew'
<1> SUFFICES ASSUME RowsInv, [Next]_vars PROVE PostsAreNew'
  OBVIOUS
<1>0. /\ TypeInv /\ PostsAreNew
      /\ rows \in [Obs -> 0 .. RowsMax] /\ pass \in [Replayers -> PassType]
      /\ \A r \in Replayers : pass[r].stage = "posting" <=> pass[r].line # {}
      /\ \A r \in Replayers : pass[r].line \subseteq Known
  BY DEF RowsInv, TypeInv, OutsideOK, PassesOK
<1>1. ASSUME NEW a \in Appenders, AppendStep(a) PROVE PostsAreNew'
  <2>1. ASSUME NEW o \in Obs, BeginAppend(a, o) PROVE PostsAreNew'
    <3>1. /\ \E n \in 0 .. 1 : rows' = [rows EXCEPT ![o] = n]
          /\ pass' = pass /\ fate[o] = "fresh"
      BY <2>1 DEF BeginAppend
    <3>2. \A r \in Replayers : o \notin pass[r].line
      BY <1>0, <3>1 DEF Known
    <3>3. QED
      BY <1>0, <3>1, <3>2 DEF PostsAreNew, NoDuplicateRows, Known
  <2>2. CASE OpenForAppend(a) \/ WriteLine(a)
    BY <1>0, <2>2 DEF OpenForAppend, WriteLine, PostsAreNew, NoDuplicateRows
  <2>3. QED
    BY <1>1, <2>1, <2>2 DEF AppendStep
<1>2. ASSUME NEW r \in Replayers, ReplayStep(r) PROVE PostsAreNew'
  <2>0. \A q \in Replayers : q = r
    BY DEF OnePass
  <2>1. ASSUME LineStep(r) PROVE PostsAreNew'
    <3>1. /\ Reading(r) \/ pass[r].stage = "posting"
          /\ KeepLine(r) \/ \E f \in {"delivered", "expired", "rejected"} : RemoveLine(r, f)
          /\ rows' = rows \/ (pass[r].stage = "posting" /\ rows' = Store(Line(r)))
      BY <1>0, <2>1, LineStepCases
    <3>2. \A q \in Replayers : pass'[q].line = {}
      BY <1>0, <2>0, <3>1 DEF KeepLine, RemoveLine, PassType
    <3>3. ASSUME pass[r].stage = "posting" PROVE rows[Line(r)] = 0
      BY <1>0, <3>3 DEF Line, PostsAreNew
    <3>4. Line(r) \in Obs
      BY <1>0, <3>1, LineIsKnown
    <3>5. \A o \in Obs : rows'[o] <= 1
      BY <1>0, <3>1, <3>3, <3>4 DEF Store, RowsMax, PostsAreNew, NoDuplicateRows
    <3>6. QED
      BY <3>2, <3>5 DEF PostsAreNew, NoDuplicateRows
  <2>2. CASE Attempt(r)
    <3>1. /\ rows' = rows /\ rows[Line(r)] = 0
          /\ pass' = [pass EXCEPT ![r].stage = "posting",
                                  ![r].attempted = @ + 1, ![r].line = {Line(r)}]
      BY <2>2 DEF Attempt, ProbeClears
    <3>2. pass'[r].line = {Line(r)}
      BY <1>0, <3>1 DEF PassType
    <3>3. QED
      BY <1>0, <2>0, <3>1, <3>2 DEF PostsAreNew, NoDuplicateRows
  <2>3. CASE CleanTmp(r) \/ FinishReading(r) \/ ReplaceDlq(r) \/ OpenFiles(r)
    <3>1. rows' = rows
      BY <2>3 DEF CleanTmp, FinishReading, ReplaceDlq, OpenFiles
    <3>2. pass'[r].line = pass[r].line \/ pass'[r].line = {}
      <4>1. IdlePass.line = {} /\ \A i, o : Opened(i, o).line = {}
        BY DEF IdlePass, Opened
      <4>2. CASE CleanTmp(r) \/ FinishReading(r)
        BY <1>0, <4>2 DEF CleanTmp, FinishReading, PassType
      <4>3. CASE ReplaceDlq(r)
        BY <1>0, <4>1, <4>3 DEF ReplaceDlq
      <4>4. CASE OpenFiles(r)
        <5>1. \E o : pass' = [pass EXCEPT ![r] = Opened(dlq, o)]
          BY <4>4 DEF OpenFiles, Opened
        <5>2. QED
          BY <1>0, <4>1, <5>1
      <4>5. QED
        BY <2>3, <4>2, <4>3, <4>4
    <3>3. QED
      BY <1>0, <2>0, <3>1, <3>2 DEF PostsAreNew, NoDuplicateRows
  <2>4. QED
    BY <1>2, <2>1, <2>2, <2>3 DEF ReplayStep, LineStep
<1>3. ASSUME NEW c \in Clearers, ClearStep(c) PROVE PostsAreNew'
  BY <1>0, <1>3 DEF ClearStep, ReadTail, Truncate, WriteTail, PostsAreNew, NoDuplicateRows
<1>4. CASE Crash
  <2>1. rows' = rows /\ \A r \in Replayers : pass'[r].line = {}
    BY <1>4 DEF Crash, IdlePass
  <2>2. QED
    BY <1>0, <2>1 DEF PostsAreNew, NoDuplicateRows
<1>5. CASE (\E t \in Targets : BreakerChanges(t)) \/ \E o \in Obs : Age(o)
  <2>1. UNCHANGED <<rows, pass>>
    BY <1>0, <1>5, EnvironmentType
  <2>2. QED
    BY <1>0, <2>1 DEF PostsAreNew, NoDuplicateRows
<1>6. CASE UNCHANGED vars
  BY <1>0, <1>6 DEF vars, PostsAreNew, NoDuplicateRows
<1>7. QED
  BY <1>1, <1>2, <1>3, <1>4, <1>5, <1>6 DEF Next

(* With the dedup probe on and always answered, and one pass at a time, no *)
(* observation is ever stored twice: not when the answer to a POST was     *)
(* lost, and not when a crash brings a delivered record back.  With two    *)
(* passes, or with a probe that may fail, it is false.                     *)
THEOREM ReplayStoresOnce ==
  ASSUME OnePass, DedupProbe, ~ProbeMayFail
  PROVE  Spec => []NoDuplicateRows
<1>1. Init => PostsAreNew
  BY DEF Init, PostsAreNew, NoDuplicateRows, IdlePass
<1>2. RowsInv /\ [Next]_vars => PostsAreNew'
  BY NextPostsAreNew
<1>3. PostsAreNew => NoDuplicateRows
  BY DEF PostsAreNew
<1>4. QED
  BY <1>1, <1>2, <1>3, TypeInvHolds, PTL DEF Spec, RowsInv

-----------------------------------------------------------------------------
(* A single pass owns the temporary file.                                  *)
FilesInv == TypeInv /\ PassHasItsFiles

LEMMA PathsInUse ==
  ASSUME TypeInv
  PROVE  /\ dlq \in InUse /\ tmp \in InUse
         /\ \A r \in Replayers : pass[r].in \in InUse /\ pass[r].out \in InUse
         /\ \A a \in Appenders : writer[a].fd \in InUse
         /\ \A c \in Clearers : clearing[c].fd \in InUse
BY DEF InUse

LEMMA FilesFrame ==
  ASSUME FilesInv, UNCHANGED <<pass, tmp>>, dlq # NoFile => dlq' = dlq,
         tmp # NoFile /\ tmp # dlq
           /\ (\A a \in Appenders : writer[a].fd # tmp)
           /\ (\A c \in Clearers : clearing[c].fd # tmp) => content'[tmp] = content[tmp],
         \A a \in Appenders : writer'[a].fd \in {writer[a].fd, dlq', NoFile},
         \A c \in Clearers : clearing'[c].fd \in {clearing[c].fd, dlq', NoFile}
  PROVE  PassHasItsFiles'
<1> SUFFICES ASSUME NEW r \in Replayers
             PROVE  /\ pass[r].stage = "opening" => tmp = NoFile
                    /\ HasFiles(r) =>
                         /\ pass[r].in = dlq' /\ pass[r].out = tmp /\ tmp # dlq'
                         /\ Len(content'[tmp]) = pass[r].wrote
                         /\ \A a \in Appenders : writer'[a].fd # tmp
                         /\ \A c \in Clearers : clearing'[c].fd # tmp
  BY DEF PassHasItsFiles, HasFiles
<1>1. pass[r].stage = "opening" => tmp = NoFile
  BY DEF FilesInv, PassHasItsFiles
<1>2. ASSUME HasFiles(r)
      PROVE  /\ pass[r].in = dlq' /\ pass[r].out = tmp /\ tmp # dlq'
             /\ Len(content'[tmp]) = pass[r].wrote
             /\ \A a \in Appenders : writer'[a].fd # tmp
             /\ \A c \in Clearers : clearing'[c].fd # tmp
  <2>1. /\ pass[r].in = dlq /\ pass[r].out = tmp /\ tmp # dlq
        /\ Len(content[tmp]) = pass[r].wrote
        /\ \A a \in Appenders : writer[a].fd # tmp
        /\ \A c \in Clearers : clearing[c].fd # tmp
    BY <1>2 DEF FilesInv, PassHasItsFiles
  <2>2. tmp # NoFile /\ dlq # NoFile
    BY <1>2, <2>1, InodesAssumption DEF FilesInv, TypeInv, PassesOK, HasFiles
  <2>3. QED
    BY <2>1, <2>2
<1>3. QED
  BY <1>1, <1>2

LEMMA AppendFiles ==
  ASSUME FilesInv, NEW a \in Appenders, AppendStep(a)
  PROVE  PassHasItsFiles' /\ (dlq # NoFile => dlq' = dlq) /\ UNCHANGED <<pass, tmp, clearing>>
<1>0. TypeInv
  BY DEF FilesInv
<1>1. ASSUME NEW o \in Obs, BeginAppend(a, o)
      PROVE  PassHasItsFiles' /\ UNCHANGED <<dlq, pass, tmp, clearing>>
  <2>1. UNCHANGED <<content, dlq, tmp, pass, clearing>>
    BY <1>1 DEF BeginAppend, files
  <2>2. \A b \in Appenders : writer'[b].fd \in {writer[b].fd, dlq', NoFile}
    BY <1>0, <1>1 DEF BeginAppend, TypeInv, WritersOK
  <2>3. QED
    BY <2>1, <2>2, FilesFrame
<1>2. ASSUME OpenForAppend(a)
      PROVE  PassHasItsFiles' /\ (dlq # NoFile => dlq' = dlq) /\ UNCHANGED <<pass, tmp, clearing>>
  <2>1. /\ UNCHANGED <<content, tmp, pass, clearing>> /\ (dlq # NoFile => dlq' = dlq)
        /\ writer' = [writer EXCEPT ![a].stage = "writing", ![a].fd = dlq']
    BY <1>2 DEF OpenForAppend
  <2>2. \A b \in Appenders : writer'[b].fd \in {writer[b].fd, dlq', NoFile}
    BY <1>0, <2>1 DEF TypeInv, WritersOK, WriterType
  <2>3. QED
    BY <2>1, <2>2, FilesFrame
<1>3. ASSUME WriteLine(a)
      PROVE  PassHasItsFiles' /\ UNCHANGED <<dlq, pass, tmp, clearing>>
  <2>1. /\ UNCHANGED <<dlq, tmp, pass, clearing>> /\ writer' = [writer EXCEPT ![a] = IdleWriter]
        /\ writer[a].stage = "writing"
    BY <1>3 DEF WriteLine
  <2>2. PICK o \in Obs : content' = Reclaim([content EXCEPT ![writer[a].fd] = Append(@, o)], InUse')
    BY <1>0, <1>3 DEF WriteLine, TypeInv, WritersOK, WriterType
  <2>3. ASSUME tmp # NoFile, writer[a].fd # tmp PROVE content'[tmp] = content[tmp]
    <3>1. tmp \in Inodes /\ tmp \in InUse'
      BY <1>0, <2>1, <2>3 DEF TypeInv, FilesOK, InUse
    <3>2. QED
      BY <1>0, <2>2, <2>3, <3>1 DEF Reclaim, TypeInv, FilesOK
  <2>4. \A b \in Appenders : writer'[b].fd \in {writer[b].fd, dlq', NoFile}
    BY <1>0, <2>1 DEF TypeInv, WritersOK, IdleWriter
  <2>5. QED
    BY <2>1, <2>3, <2>4, FilesFrame
<1>4. QED
  BY <1>1, <1>2, <1>3 DEF AppendStep

LEMMA ClearFiles ==
  ASSUME FilesInv, NEW c \in Clearers, ClearStep(c)
  PROVE  PassHasItsFiles' /\ UNCHANGED <<dlq, tmp, pass, writer>>
<1>0. TypeInv
  BY DEF FilesInv
<1>1. ASSUME ReadTail(c) PROVE PassHasItsFiles' /\ UNCHANGED <<dlq, tmp, pass, writer>>
  <2>1. UNCHANGED <<content, dlq, tmp, pass, writer>>
    BY <1>1 DEF ReadTail, files
  <2>2. \A d \in Clearers : clearing'[d].fd \in {clearing[d].fd, dlq', NoFile}
    BY <1>0, <1>1 DEF ReadTail, TypeInv, ClearsOK
  <2>3. QED
    BY <2>1, <2>2, FilesFrame
<1>2. ASSUME Truncate(c) PROVE PassHasItsFiles' /\ UNCHANGED <<dlq, tmp, pass, writer>>
  <2>1. /\ UNCHANGED <<dlq, tmp, pass, writer>>
        /\ content' = [content EXCEPT ![dlq] = <<>>]
        /\ clearing' = [clearing EXCEPT ![c].stage = "writing", ![c].fd = dlq]
    BY <1>2 DEF Truncate
  <2>2. \A d \in Clearers : clearing'[d].fd \in {clearing[d].fd, dlq', NoFile}
    BY <1>0, <2>1 DEF TypeInv, ClearsOK, ClearType
  <2>3. tmp # dlq => content'[tmp] = content[tmp]
    BY <1>0, <2>1 DEF TypeInv, FilesOK
  <2>4. QED
    BY <2>1, <2>2, <2>3, FilesFrame
<1>3. ASSUME WriteTail(c) PROVE PassHasItsFiles' /\ UNCHANGED <<dlq, tmp, pass, writer>>
  <2>1. /\ UNCHANGED <<dlq, tmp, pass, writer>>
        /\ clearing' = [clearing EXCEPT ![c] = IdleClear]
        /\ content' = Reclaim([content EXCEPT ![clearing[c].fd] =
                                 Overwrite(@, clearing[c].tail)], InUse')
    BY <1>3 DEF WriteTail
  <2>2. \A d \in Clearers : clearing'[d].fd \in {clearing[d].fd, dlq', NoFile}
    BY <1>0, <2>1 DEF TypeInv, ClearsOK, IdleClear
  <2>3. ASSUME tmp # NoFile, clearing[c].fd # tmp PROVE content'[tmp] = content[tmp]
    <3>1. tmp \in Inodes /\ tmp \in InUse'
      BY <1>0, <2>1, <2>3 DEF TypeInv, FilesOK, InUse
    <3>2. QED
      BY <1>0, <2>1, <2>3, <3>1 DEF Reclaim, TypeInv, FilesOK
  <2>4. QED
    BY <2>1, <2>2, <2>3, FilesFrame
<1>4. QED
  BY <1>1, <1>2, <1>3 DEF ClearStep

LEMMA ReplayFiles ==
  ASSUME OnePass, FilesInv, NEW r \in Replayers, ReplayStep(r)
  PROVE  PassHasItsFiles' /\ UNCHANGED <<writer, clearing>>
<1>0. /\ TypeInv /\ PassHasItsFiles /\ pass \in [Replayers -> PassType]
      /\ \A q \in Replayers : q = r
  BY DEF FilesInv, TypeInv, PassesOK, OnePass
<1>1. ASSUME CleanTmp(r) PROVE PassHasItsFiles' /\ UNCHANGED <<writer, clearing>>
  <2>1. /\ UNCHANGED <<writer, clearing>> /\ tmp' = NoFile
        /\ pass' = [pass EXCEPT ![r].stage = "opening"]
    BY <1>1 DEF CleanTmp
  <2>2. pass'[r].stage = "opening"
    BY <1>0, <2>1 DEF PassType
  <2>3. QED
    BY <1>0, <2>1, <2>2 DEF PassHasItsFiles, HasFiles
<1>2. ASSUME OpenFiles(r) PROVE PassHasItsFiles' /\ UNCHANGED <<writer, clearing>>
  <2> DEFINE out == Fresh
  <2>1. /\ UNCHANGED <<dlq, writer, clearing>> /\ tmp = NoFile /\ tmp' = out
        /\ content' = [content EXCEPT ![out] = <<>>]
        /\ pass' = [pass EXCEPT ![r] = Opened(dlq, out)]
    BY <1>0, <1>2 DEF OpenFiles, Opened, PassHasItsFiles
  <2>2. out \in Inodes /\ out # dlq /\ dlq \in Inodes
        /\ (\A a \in Appenders : writer[a].fd # out) /\ \A c \in Clearers : clearing[c].fd # out
    BY <1>0, <1>2, FreshProperties, PathsInUse DEF OpenFiles, TypeInv, PassesOK, FilesOK
  <2> HIDE DEF out
  <2>3. Len(content'[out]) = 0
    BY <1>0, <2>1, <2>2 DEF TypeInv, FilesOK
  <2>4. pass'[r].in = dlq /\ pass'[r].out = out /\ pass'[r].wrote = 0 /\ pass'[r].stage = "reading"
    BY <1>0, <2>1, <2>2, OpenedRecord
  <2>5. QED
    BY <1>0, <2>1, <2>2, <2>3, <2>4 DEF PassHasItsFiles, HasFiles
<1>3. ASSUME LineStep(r) PROVE PassHasItsFiles' /\ UNCHANGED <<writer, clearing>>
  <2>1. /\ UNCHANGED <<dlq, tmp, writer, clearing>> /\ HasFiles(r)
        /\ KeepLine(r) \/ \E f \in {"delivered", "expired", "rejected"} : RemoveLine(r, f)
    BY <1>0, <1>3, LineStepCases DEF HasFiles, Reading
  <2>2. /\ pass[r].in = dlq /\ pass[r].out = tmp /\ tmp # dlq /\ tmp \in Inodes
        /\ Len(content[tmp]) = pass[r].wrote /\ pass[r].wrote \in Nat /\ pass[r].pos \in Nat
        /\ \A a \in Appenders : writer[a].fd # tmp
        /\ \A c \in Clearers : clearing[c].fd # tmp
    BY <1>0, <2>1 DEF PassHasItsFiles, TypeInv, PassesOK, PassType
  <2>3. CASE KeepLine(r)
    <3>1. /\ content' = [content EXCEPT ![tmp] = WriteAt(@, pass[r].wrote, Line(r))]
          /\ pass' = [pass EXCEPT ![r] = NextLine(pass[r], pass[r].pos + 1, pass[r].wrote + 1)]
      BY <1>0, <2>2, <2>3 DEF KeepLine, WithLineKept, NextLine
    <3>2. Line(r) \in Known /\ content[tmp] \in Seq(Known)
      BY <1>0, <1>3, <2>2, LineStepCases, LineIsKnown DEF TypeInv, FilesOK
    <3>3. content'[tmp] = Append(content[tmp], Line(r))
      <4>1. WriteAt(content[tmp], pass[r].wrote, Line(r)) = Append(content[tmp], Line(r))
        BY <2>2, <3>2, WriteAtProperties
      <4>2. QED
        BY <1>0, <2>2, <3>1, <4>1 DEF TypeInv, FilesOK
    <3>4. Len(content'[tmp]) = pass[r].wrote + 1
      BY <2>2, <3>2, <3>3, AppendProperties
    <3>5. /\ pass'[r].in = dlq /\ pass'[r].out = tmp /\ pass'[r].wrote = pass[r].wrote + 1
          /\ pass'[r].stage = "reading"
      <4>1. pass'[r] = NextLine(pass[r], pass[r].pos + 1, pass[r].wrote + 1)
        BY <1>0, <3>1
      <4> DEFINE n == pass[r].pos + 1  m == pass[r].wrote + 1
      <4>2. n \in Nat /\ m \in Nat
        BY <2>2
      <4> HIDE DEF n, m
      <4>3. LET q == NextLine(pass[r], n, m) IN
              /\ q.stage = "reading" /\ q.wrote = m
              /\ q.in = pass[r].in /\ q.out = pass[r].out
        BY <1>0, <4>2, NextLineRecord
      <4>4. pass'[r] = NextLine(pass[r], n, m)
        BY <4>1 DEF n, m
      <4>5. QED
        BY <2>2, <4>3, <4>4 DEF m
    <3>6. QED
      BY <1>0, <2>1, <2>2, <3>4, <3>5 DEF PassHasItsFiles, HasFiles
  <2>4. ASSUME NEW f \in {"delivered", "expired", "rejected"}, RemoveLine(r, f)
        PROVE  PassHasItsFiles'
    <3>1. /\ content' = content
          /\ pass' = [pass EXCEPT ![r] = SkipLine(pass[r], pass[r].pos + 1)]
      BY <1>0, <2>4 DEF RemoveLine, SkipLine
    <3>2. /\ pass'[r].in = dlq /\ pass'[r].out = tmp /\ pass'[r].wrote = pass[r].wrote
          /\ pass'[r].stage = "reading"
      <4>1. pass'[r] = SkipLine(pass[r], pass[r].pos + 1)
        BY <1>0, <3>1
      <4>2. pass[r].pos + 1 \in Nat
        BY <2>2
      <4>3. QED
        BY <1>0, <2>2, <4>1, <4>2, SkippedLineRecord
    <3>3. QED
      BY <1>0, <2>1, <2>2, <3>1, <3>2 DEF PassHasItsFiles, HasFiles
  <2>5. QED
    BY <2>1, <2>3, <2>4
<1>4. ASSUME Attempt(r) \/ FinishReading(r) PROVE PassHasItsFiles' /\ UNCHANGED <<writer, clearing>>
  <2>1. UNCHANGED <<content, dlq, tmp, writer, clearing>> /\ HasFiles(r)
    BY <1>4 DEF Attempt, FinishReading, files, HasFiles, Reading
  <2>2. /\ pass'[r].in = pass[r].in /\ pass'[r].out = pass[r].out
        /\ pass'[r].wrote = pass[r].wrote /\ pass'[r].stage \in {"posting", "replacing"}
    <3>1. CASE Attempt(r)
      <4> DEFINE n == pass[r].attempted + 1
                 l == {Line(r)}
      <4>1. pass' = [pass EXCEPT ![r].stage = "posting", ![r].attempted = n, ![r].line = l]
        BY <3>1 DEF Attempt
      <4> HIDE DEF n, l
      <4>2. QED
        BY <1>0, <4>1 DEF PassType
    <3>2. CASE FinishReading(r)
      BY <1>0, <3>2 DEF FinishReading, PassType
    <3>3. QED
      BY <1>4, <3>1, <3>2
  <2>3. QED
    BY <1>0, <2>1, <2>2 DEF PassHasItsFiles, HasFiles
<1>5. ASSUME ReplaceDlq(r) PROVE PassHasItsFiles' /\ UNCHANGED <<writer, clearing>>
  <2>1. UNCHANGED <<writer, clearing>> /\ pass' = [pass EXCEPT ![r] = IdlePass]
    BY <1>5 DEF ReplaceDlq
  <2>2. pass'[r].stage = "idle"
    BY <1>0, <2>1 DEF IdlePass
  <2>3. QED
    BY <1>0, <2>1, <2>2 DEF PassHasItsFiles, HasFiles
<1>6. QED
  BY <1>1, <1>2, <1>3, <1>4, <1>5 DEF ReplayStep, LineStep

LEMMA CrashFiles ==
  ASSUME TypeInv, Crash
  PROVE  PassHasItsFiles' /\ (\A r \in Replayers : pass'[r].stage = "idle")
BY DEF Crash, IdlePass, PassHasItsFiles, HasFiles

LEMMA FilesInvHolds ==
  ASSUME OnePass
  PROVE  Spec => []FilesInv
<1>1. Init => PassHasItsFiles
  BY DEF Init, PassHasItsFiles, HasFiles, IdlePass
<1>2. FilesInv /\ [Next]_vars => PassHasItsFiles'
  <2> SUFFICES ASSUME FilesInv, [Next]_vars PROVE PassHasItsFiles'
    OBVIOUS
  <2>1. CASE (\E t \in Targets : BreakerChanges(t)) \/ \E o \in Obs : Age(o)
    <3>1. UNCHANGED <<content, dlq, tmp, writer, pass, clearing>>
      BY <2>1, EnvironmentType DEF FilesInv
    <3>2. QED
      BY <3>1 DEF FilesInv, PassHasItsFiles, HasFiles
  <2>2. CASE UNCHANGED vars
    BY <2>2 DEF FilesInv, PassHasItsFiles, HasFiles, vars
  <2>3. CASE Crash
    BY <2>3, CrashFiles DEF FilesInv
  <2>4. QED
    BY <2>1, <2>2, <2>3, AppendFiles, ReplayFiles, ClearFiles DEF Next
<1>3. QED
  BY <1>1, <1>2, TypeInvHolds, PTL DEF Spec, FilesInv

-----------------------------------------------------------------------------
(* The size of the file.                                                   *)
LEMMA BusyIsFinite ==
  /\ \A B \in SUBSET Appenders : IsFiniteSet(B) /\ Cardinality(B) \in Nat
                                 /\ Cardinality(B) <= Cardinality(Appenders)
  /\ IsFiniteSet(Appenders) /\ Cardinality(Appenders) \in Nat
BY InodesAssumption, FS_Subset, FS_CardinalityType

LEMMA LinesType ==
  ASSUME TypeInv
  PROVE  /\ Lines(dlq) \in Seq(Known) /\ Len(Lines(dlq)) \in Nat
         /\ dlq # NoFile => dlq \in Inodes /\ Lines(dlq) = content[dlq]
<1>1. Lines(dlq) \in Seq(Known)
  BY EmptySeq DEF Lines, TypeInv, FilesOK
<1>2. QED
  BY <1>1, LenProperties DEF Lines, TypeInv, FilesOK

SizeInv == FilesInv /\ SizesAddUp

(* An append, a finished append.                                           *)
LEMMA AppendSizes ==
  ASSUME DlqMax > 0, SizeInv, NEW a \in Appenders, AppendStep(a)
  PROVE  SizesAddUp'
<1> DEFINE n == Len(Lines(dlq))
<1>0. /\ TypeInv /\ FilesInv /\ SizesAddUp /\ n \in Nat /\ DlqMax \in Nat
      /\ \A r \in Replayers : pass[r].wrote \in Nat /\ pass[r].pos \in Nat
      /\ writer \in [Appenders -> WriterType] /\ Busy \subseteq Appenders
      /\ n + Cardinality(Busy) <= DlqMax - 1 + Cardinality(Appenders)
      /\ Cardinality(Busy) \in Nat
  BY LinesType, BusyIsFinite, DlqAssumption
     DEF SizeInv, FilesInv, SizesAddUp, TypeInv, WritersOK, PassesOK, PassType, Busy
<1>1. ASSUME NEW m \in Nat, m >= n, Len(Lines(dlq))' = m,
             m + Cardinality(Busy') <= DlqMax - 1 + Cardinality(Appenders)
      PROVE  SizesAddUp'
  <2>1. pass' = pass /\ (dlq # NoFile => dlq' = dlq)
    BY <1>0, AppendFiles
  <2>2. ASSUME NEW r \in Replayers, pass[r].stage # "idle"
        PROVE  dlq' = dlq /\ Len(content[dlq]) = n /\ Len(content'[dlq]) = m
    <3>1. dlq # NoFile
      BY <1>0, <2>2 DEF TypeInv, PassesOK
    <3>2. QED
      BY <1>1, <2>1, <3>1 DEF Lines
  <2>3. Len(Lines(dlq))' + Cardinality(Busy') <= DlqMax - 1 + Cardinality(Appenders)
    BY <1>1
  <2> HIDE DEF n
  <2>4. ASSUME NEW r \in Replayers, HasFiles(r)
        PROVE  pass[r].wrote <= pass[r].pos /\ pass[r].pos <= m
    <3>1. Len(content[dlq]) = n
      BY <2>2, <2>4 DEF HasFiles
    <3>2. pass[r].wrote <= pass[r].pos /\ pass[r].pos <= Len(content[dlq])
      BY <1>0, <2>4 DEF SizesAddUp
    <3>3. QED
      BY <1>0, <1>1, <3>1, <3>2
  <2>5. ASSUME NEW r \in Replayers, pass[r].stage = "posting"
        PROVE  pass[r].pos < m
    <3>1. Len(content[dlq]) = n
      BY <2>2, <2>5
    <3>2. pass[r].pos < Len(content[dlq])
      BY <1>0, <2>5 DEF SizesAddUp
    <3>3. QED
      BY <1>0, <1>1, <3>1, <3>2
  <2>6. QED
    BY <2>1, <2>2, <2>3, <2>4, <2>5 DEF SizesAddUp, HasFiles
<1>2. ASSUME NEW o \in Obs, BeginAppend(a, o) PROVE SizesAddUp'
  <2>1. UNCHANGED <<content, dlq>>
    BY <1>2 DEF BeginAppend, files
  <2>2. Len(Lines(dlq))' = n
    BY <2>1 DEF Lines
  <2>3. CASE AtCap
    <3>1. writer' = writer
      BY <1>0, <1>2, <2>3 DEF BeginAppend
    <3>2. Busy' = Busy
      BY <3>1 DEF Busy
    <3>3. QED
      BY <1>0, <1>1, <2>2, <3>2
  <2>4. CASE ~AtCap
    <3>1. n <= DlqMax - 1
      BY <1>0, <2>4 DEF AtCap
    <3>2. Busy' \subseteq Appenders
      BY DEF Busy
    <3>3. Cardinality(Busy') <= Cardinality(Appenders) /\ Cardinality(Busy') \in Nat
          /\ Cardinality(Appenders) \in Nat
      BY <3>2, BusyIsFinite
    <3> HIDE DEF n
    <3>4. QED
      BY <1>0, <1>1, <2>2, <3>1, <3>3
  <2>5. QED
    BY <2>3, <2>4
<1>3. ASSUME OpenForAppend(a) PROVE SizesAddUp'
  <2>1. /\ content' = content /\ writer[a].stage = "opening"
        /\ dlq' = IF dlq = NoFile THEN Fresh ELSE dlq
        /\ writer' = [writer EXCEPT ![a].stage = "writing", ![a].fd = dlq']
    BY <1>3 DEF OpenForAppend
  <2>2. Len(Lines(dlq))' = n
    <3>1. CASE dlq = NoFile
      <4>1. Lines(dlq) = <<>> /\ content[Fresh] = <<>> /\ Fresh # NoFile
        BY <1>0, <3>1, FreshProperties, InodesAssumption DEF Lines, TypeInv, FilesOK
      <4>2. QED
        BY <2>1, <3>1, <4>1 DEF Lines
    <3>2. CASE dlq # NoFile
      BY <2>1, <3>2 DEF Lines
    <3>3. QED
      BY <3>1, <3>2
  <2>3. Busy' = Busy
    <3>1. \A b \in Appenders : (writer'[b].stage # "idle") = (writer[b].stage # "idle")
      BY <1>0, <2>1 DEF WriterType
    <3>2. QED
      BY <3>1 DEF Busy
  <2>4. QED
    BY <1>0, <1>1, <2>2, <2>3
<1>4. ASSUME WriteLine(a) PROVE SizesAddUp'
  <2>1. /\ dlq' = dlq /\ writer' = [writer EXCEPT ![a] = IdleWriter]
        /\ writer[a].stage = "writing"
    BY <1>4 DEF WriteLine
  <2>2. PICK o \in writer[a].obs :
          content' = Reclaim([content EXCEPT ![writer[a].fd] = Append(@, o)], InUse')
    BY <1>4 DEF WriteLine
  <2>3. o \in Known /\ dlq \in Inodes /\ dlq # NoFile /\ Lines(dlq) = content[dlq]
        /\ content \in [Inodes -> Seq(Known)] /\ dlq \in InUse'
    BY <1>0, <2>1, LinesType DEF TypeInv, WritersOK, FilesOK, InUse
  <2>4. Lines(dlq)' = content[dlq] \/ Lines(dlq)' = Append(content[dlq], o)
    <3>1. Lines(dlq)' = content'[dlq]
      BY <2>1, <2>3 DEF Lines
    <3>2. QED
      BY <2>2, <2>3, <3>1 DEF Reclaim
  <2>5. Len(Lines(dlq))' = n \/ Len(Lines(dlq))' = n + 1
    BY <2>3, <2>4, AppendProperties
  <2>6. Cardinality(Busy') = Cardinality(Busy) - 1
    <3>1. Busy' = Busy \ {a} /\ a \in Busy
      BY <1>0, <2>1 DEF Busy, IdleWriter
    <3>2. QED
      BY <1>0, <3>1, BusyIsFinite, FS_RemoveElement
  <2> HIDE DEF n
  <2>7. QED
    BY <1>0, <1>1, <2>5, <2>6, BusyIsFinite
<1>5. QED
  BY <1>2, <1>3, <1>4 DEF AppendStep

(* A pass writes at most the lines it reads, and nothing beside the file   *)
(* it is going to replace.                                                 *)
LEMMA ReplaySizes ==
  ASSUME OnePass, SizeInv, NEW r \in Replayers, ReplayStep(r)
  PROVE  SizesAddUp'
<1> DEFINE n == Len(Lines(dlq))
<1>0. /\ TypeInv /\ FilesInv /\ SizesAddUp /\ n \in Nat
      /\ PassHasItsFiles /\ pass \in [Replayers -> PassType]
      /\ \A q \in Replayers : q = r
      /\ pass[r].wrote \in Nat /\ pass[r].pos \in Nat
      /\ n + Cardinality(Busy) <= DlqMax - 1 + Cardinality(Appenders)
      /\ Cardinality(Busy) \in Nat /\ Cardinality(Appenders) \in Nat /\ DlqMax \in Nat
  BY LinesType, BusyIsFinite, DlqAssumption
     DEF SizeInv, FilesInv, SizesAddUp, TypeInv, PassesOK, PassType, Busy, OnePass
<1>1. Busy' = Busy /\ writer' = writer
  BY <1>0, ReplayFiles DEF Busy
<1>2. dlq # NoFile /\ dlq \in Inodes /\ content \in [Inodes -> Seq(Known)]
      /\ n = Len(content[dlq])
  <2>1. dlq # NoFile
    BY <1>0 DEF ReplayStep, CleanTmp, OpenFiles, CopyLine, ExpireLine, ProbeFinds, Attempt,
                PostReply, FinishReading, ReplaceDlq, Reading, TypeInv, PassesOK
  <2>2. QED
    BY <1>0, <2>1, LinesType DEF TypeInv, FilesOK
<1>3. ASSUME dlq' = dlq, content'[dlq] = content[dlq],
             HasFiles(r)' => pass'[r].wrote <= pass'[r].pos /\ pass'[r].pos <= n,
             pass'[r].stage = "posting" => pass'[r].pos < n
      PROVE  SizesAddUp'
  <2>1. Len(Lines(dlq))' = n /\ Len(content'[dlq']) = n
    BY <1>2, <1>3 DEF Lines
  <2> HIDE DEF n
  <2>2. QED
    BY <1>0, <1>1, <1>3, <2>1 DEF SizesAddUp
<1>4. ASSUME HasFiles(r)
      PROVE  /\ pass[r].in = dlq /\ pass[r].out = tmp /\ tmp # dlq /\ tmp \in Inodes
             /\ Len(content[tmp]) = pass[r].wrote
             /\ pass[r].wrote <= pass[r].pos /\ pass[r].pos <= n
             /\ pass[r].stage = "posting" => pass[r].pos < n
  BY <1>0, <1>2, <1>4 DEF PassHasItsFiles, SizesAddUp, TypeInv, PassesOK
<1>5. ASSUME CleanTmp(r) PROVE SizesAddUp'
  <2>1. /\ dlq' = dlq /\ content' = Reclaim(content, InUse')
        /\ pass' = [pass EXCEPT ![r].stage = "opening"]
    BY <1>5 DEF CleanTmp
  <2>2. content'[dlq] = content[dlq]
    BY <1>2, <2>1 DEF Reclaim, InUse
  <2>3. pass'[r].stage = "opening"
    BY <1>0, <2>1 DEF PassType
  <2>4. QED
    BY <1>3, <2>1, <2>2, <2>3 DEF HasFiles
<1>6. ASSUME OpenFiles(r) PROVE SizesAddUp'
  <2> DEFINE out == Fresh
  <2>1. /\ dlq' = dlq /\ tmp = NoFile
        /\ content' = [content EXCEPT ![out] = <<>>]
        /\ pass' = [pass EXCEPT ![r] = Opened(dlq, out)]
    BY <1>0, <1>6 DEF OpenFiles, Opened, PassHasItsFiles
  <2>2. out \in Inodes /\ out # dlq
    BY <1>0, FreshProperties, PathsInUse
  <2> HIDE DEF out
  <2>3. content'[dlq] = content[dlq]
    BY <1>2, <2>1, <2>2
  <2>4. pass'[r].pos = 0 /\ pass'[r].wrote = 0 /\ pass'[r].stage = "reading"
    BY <1>0, <1>2, <2>1, <2>2, OpenedRecord
  <2>5. QED
    BY <1>0, <1>3, <2>1, <2>3, <2>4
<1>7. ASSUME LineStep(r) PROVE SizesAddUp'
  <2>1. /\ dlq' = dlq /\ HasFiles(r)
        /\ KeepLine(r) \/ \E f \in {"delivered", "expired", "rejected"} : RemoveLine(r, f)
        /\ Reading(r) \/ pass[r].stage = "posting"
    BY <1>0, <1>7, LineStepCases DEF HasFiles, Reading
  <2>2. pass[r].pos < n
    BY <1>2, <1>4, <2>1 DEF Reading, HasLine
  <2>3. content'[dlq] = content[dlq]
    BY <1>2, <1>4, <2>1 DEF KeepLine, WithLineKept, RemoveLine
  <2>4. /\ pass'[r].pos = pass[r].pos + 1 /\ pass'[r].stage = "reading"
        /\ pass'[r].wrote = pass[r].wrote + 1 \/ pass'[r].wrote = pass[r].wrote
    <3> DEFINE i == pass[r].pos + 1
               j == pass[r].wrote + 1
    <3>1. i \in Nat /\ j \in Nat
      BY <1>0
    <3>2. CASE KeepLine(r)
      <4>1. pass' = [pass EXCEPT ![r] = NextLine(pass[r], i, j)]
        BY <1>0, <3>2 DEF KeepLine, NextLine
      <4> HIDE DEF i, j
      <4>2. pass'[r].pos = i /\ pass'[r].wrote = j /\ pass'[r].stage = "reading"
        <5>1. pass[r] \in PassType
          BY <1>0
        <5>2. PICK q : q = NextLine(pass[r], i, j)
          OBVIOUS
        <5>3. q.pos = i /\ q.wrote = j /\ q.stage = "reading"
          BY <3>1, <5>1, <5>2, NextLineRecord
        <5>4. pass'[r] = q
          BY <1>0, <4>1, <5>2
        <5>5. QED
          BY <5>3, <5>4
      <4>3. QED
        BY <4>2 DEF i, j
    <3>3. ASSUME NEW f, RemoveLine(r, f)
          PROVE  /\ pass'[r].pos = i /\ pass'[r].wrote = pass[r].wrote
                 /\ pass'[r].stage = "reading"
      <4>1. pass' = [pass EXCEPT ![r] = SkipLine(pass[r], i)]
        BY <1>0, <3>3 DEF RemoveLine, SkipLine
      <4> HIDE DEF i
      <4>2. QED
        <5>1. \A k \in Nat : LET q == SkipLine(pass[r], k) IN
                /\ q.pos = k /\ q.wrote = pass[r].wrote /\ q.stage = "reading"
          <6>1. pass[r] \in PassType
            BY <1>0
          <6>2. QED
            BY <6>1, SkippedLineRecord
        <5>2. QED
          BY <1>0, <3>1, <4>1, <5>1
    <3>4. QED
      BY <2>1, <3>2, <3>3
  <2> HIDE DEF n
  <2>5. QED
    BY <1>0, <1>3, <1>4, <2>1, <2>2, <2>3, <2>4
<1>8. ASSUME Attempt(r) PROVE SizesAddUp'
  <2>1. UNCHANGED <<content, dlq>> /\ Reading(r) /\ HasFiles(r)
    BY <1>8 DEF Attempt, files, Reading, HasFiles
  <2>2. pass'[r].pos = pass[r].pos /\ pass'[r].wrote = pass[r].wrote
    <3> DEFINE k == pass[r].attempted + 1
               l == {Line(r)}
    <3>1. pass' = [pass EXCEPT ![r].stage = "posting", ![r].attempted = k, ![r].line = l]
      BY <1>8 DEF Attempt
    <3> HIDE DEF k, l
    <3>2. QED
      BY <1>0, <3>1 DEF PassType
  <2>3. pass[r].pos < n
    BY <1>2, <1>4, <2>1 DEF Reading, HasLine
  <2>4. QED
    BY <1>3, <1>4, <2>1, <2>2, <2>3
<1>9. ASSUME FinishReading(r) PROVE SizesAddUp'
  <2>1. UNCHANGED <<content, dlq>> /\ HasFiles(r)
        /\ pass' = [pass EXCEPT ![r].stage = "replacing"]
    BY <1>9 DEF FinishReading, files, HasFiles
  <2>2. /\ pass'[r].pos = pass[r].pos /\ pass'[r].wrote = pass[r].wrote
        /\ pass'[r].stage = "replacing"
    BY <1>0, <2>1 DEF PassType
  <2>3. QED
    BY <1>3, <1>4, <2>1, <2>2
<1>10. ASSUME ReplaceDlq(r) PROVE SizesAddUp'
  <2>1. /\ HasFiles(r) /\ dlq' = IF tmp = NoFile THEN dlq ELSE tmp
        /\ content' = Reclaim(content, InUse')
        /\ pass' = [pass EXCEPT ![r] = IdlePass]
    BY <1>10 DEF ReplaceDlq, HasFiles
  <2>2. tmp # NoFile /\ dlq' = tmp
    BY <1>4, <2>1, InodesAssumption
  <2>3. content'[tmp] = content[tmp]
    <3>1. tmp \in InUse'
      BY <2>2 DEF InUse
    <3>2. QED
      BY <1>2, <1>4, <2>1, <3>1 DEF Reclaim
  <2>4. Len(Lines(dlq))' = pass[r].wrote
    BY <1>4, <2>1, <2>2, <2>3 DEF Lines
  <2>5. pass'[r].stage = "idle"
    BY <1>0, <2>1 DEF IdlePass
  <2>6. Len(Lines(dlq))' <= n /\ Len(Lines(dlq))' \in Nat
    BY <1>0, <1>4, <2>1, <2>4
  <2>7. \A s \in Replayers : ~HasFiles(s)' /\ pass'[s].stage # "posting"
    BY <1>0, <1>1, <2>5 DEF HasFiles
  <2> HIDE DEF n
  <2>8. QED
    BY <1>0, <1>1, <2>6, <2>7 DEF SizesAddUp
<1>11. QED
  BY <1>5, <1>6, <1>7, <1>8, <1>9, <1>10 DEF ReplayStep, LineStep

(* Past the size check each thread adds one line more, and nothing else    *)
(* makes the file grow: with one pass at a time and no truncation it never *)
(* exceeds failed_dlq_max_bytes by more than one record per thread, across *)
(* crashes.  It is false for two passes, for a truncation beside a pass,   *)
(* and for one that writes back as many lines as the limit allows.         *)
THEOREM FileStaysBounded ==
  ASSUME OnePass, Clearers = {}, DlqMax > 0
  PROVE  Spec => []SizeBounded
<1>1. Init => SizesAddUp
  <2> SUFFICES ASSUME Init PROVE SizesAddUp
    OBVIOUS
  <2>1. Busy = {} /\ Lines(dlq) = <<>>
    BY DEF Init, Busy, IdleWriter, Lines
  <2>2. Cardinality(Busy) = 0 /\ Cardinality(Appenders) \in Nat /\ DlqMax \in Nat
    BY <2>1, FS_EmptySet, BusyIsFinite, DlqAssumption
  <2>3. QED
    BY <2>1, <2>2 DEF Init, SizesAddUp, HasFiles, IdlePass
<1>2. SizeInv /\ [Next]_vars => SizesAddUp'
  <2> SUFFICES ASSUME SizeInv, [Next]_vars PROVE SizesAddUp'
    OBVIOUS
  <2>1. CASE (\E t \in Targets : BreakerChanges(t)) \/ \E o \in Obs : Age(o)
    <3>1. UNCHANGED <<content, dlq, writer, pass>>
      BY <2>1, EnvironmentType DEF SizeInv, FilesInv
    <3>2. QED
      BY <3>1 DEF SizeInv, SizesAddUp, HasFiles, Lines, Busy
  <2>2. CASE UNCHANGED vars
    BY <2>2 DEF SizeInv, SizesAddUp, HasFiles, Lines, Busy, vars
  <2>3. CASE Crash
    <3>1. /\ dlq' = dlq /\ content' = Reclaim(content, InUse') /\ TypeInv
          /\ Busy' = {} /\ \A r \in Replayers : pass'[r].stage = "idle"
      BY <2>3 DEF Crash, SizeInv, FilesInv, Busy, IdleWriter, IdlePass
    <3>2. Lines(dlq)' = Lines(dlq)
      <4>1. dlq \in InUse'
        BY <3>1 DEF InUse
      <4>2. QED
        BY <3>1, <4>1 DEF Lines, Reclaim, TypeInv, FilesOK
    <3>3. /\ Cardinality(Busy') = 0 /\ Cardinality(Busy) \in Nat /\ Len(Lines(dlq)) \in Nat
          /\ Cardinality(Appenders) \in Nat /\ DlqMax \in Nat
      <4>1. Busy \subseteq Appenders
        BY DEF Busy
      <4>2. QED
        BY <3>1, <4>1, FS_EmptySet, BusyIsFinite, LinesType, DlqAssumption
    <3>4. QED
      BY <3>1, <3>2, <3>3 DEF SizeInv, SizesAddUp, HasFiles
  <2>4. QED
    BY <2>1, <2>2, <2>3, AppendSizes, ReplaySizes DEF Next
<1>3. SizeInv => SizeBounded
  <2> SUFFICES ASSUME SizeInv PROVE SizeBounded
    OBVIOUS
  <2>1. Busy \subseteq Appenders
    BY DEF Busy
  <2>2. /\ Cardinality(Busy) \in Nat /\ Cardinality(Appenders) \in Nat
        /\ DlqMax \in Nat /\ Len(Lines(dlq)) \in Nat
    BY <2>1, BusyIsFinite, LinesType, DlqAssumption DEF SizeInv, FilesInv
  <2>3. QED
    BY <2>2 DEF SizeInv, SizesAddUp, SizeBounded
<1>4. QED
  BY <1>1, <1>2, <1>3, FilesInvHolds, PTL DEF Spec, SizeInv

-----------------------------------------------------------------------------
(* No record goes missing.                                                 *)
OneClearer == \A c1, c2 \in Clearers : c1 = c2

SafeInv == FilesInv /\ LossInv

LEMMA QueuedIsLines ==
  ASSUME TypeInv, dlq # NoFile
  PROVE  /\ dlq \in Inodes /\ content[dlq] \in Seq(Known) /\ Len(content[dlq]) \in Nat
         /\ Queued = Range(content[dlq])
         /\ Queued = {content[dlq][k] : k \in 1 .. Len(content[dlq])}
<1>1. /\ Lines(dlq) = content[dlq] /\ dlq \in Inodes /\ content[dlq] \in Seq(Known)
      /\ Len(content[dlq]) \in Nat
  BY LinesType
<1>2. Queued = {content[dlq][k] : k \in 1 .. Len(content[dlq])}
  BY <1>1, LinesOfFile DEF Queued
<1>3. QED
  BY <1>1, <1>2 DEF Queued

(* A step that exposes records, or adds lines to the file.                 *)
LEMMA LossFrame ==
  ASSUME SafeInv, UNCHANGED <<tmp, pass, clearing>>, dlq # NoFile => dlq' = dlq,
         exposed \subseteq exposed', Rewriting => Kept' \subseteq Kept,
         Kept' \subseteq Kept \union Queued', Queued \subseteq Queued',
         \A r \in Replayers : HasFiles(r) =>
           /\ content'[tmp] = content[tmp] /\ Len(content[dlq]) <= Len(content'[dlq])
           /\ Len(content'[dlq]) \in Nat
           /\ \A k \in 1 .. Len(content[dlq]) : content'[dlq][k] = content[dlq][k]
  PROVE  KeptIsHeld' /\ TailHoldsKept' /\ PassHoldsKept'
<1>0. TypeInv /\ KeptIsHeld /\ TailHoldsKept /\ PassHoldsKept
  BY DEF SafeInv, FilesInv, LossInv
<1>1. BeingRewritten' = BeingRewritten /\ Passing' = Passing
  BY DEF BeingRewritten, Passing
<1>2. KeptIsHeld'
  BY <1>0, <1>1 DEF KeptIsHeld
<1>3. TailHoldsKept'
  <2> SUFFICES ASSUME NEW c \in Clearers, clearing[c].stage # "idle"
               PROVE  /\ Passing => Range(clearing[c].tail) \subseteq exposed'
                      /\ clearing[c].stage = "writing" =>
                           /\ Kept' \subseteq Range(clearing[c].tail)
                           /\ clearing[c].fd = dlq' \/ Kept' = {}
    BY <1>1 DEF TailHoldsKept
  <2>1. dlq' = dlq /\ Kept' \subseteq Kept
    BY <1>0 DEF Rewriting, TypeInv, ClearsOK
  <2>2. QED
    BY <1>0, <2>1 DEF TailHoldsKept
<1>4. PassHoldsKept'
  <2> SUFFICES ASSUME NEW r \in Replayers, HasFiles(r)
               PROVE  /\ pass[r].stage \in {"reading", "posting"} =>
                           Kept' \subseteq Range(content'[tmp]) \union Ahead(r)'
                      /\ pass[r].stage = "posting" =>
                           \/ Kept' = {}
                           \/ /\ pass[r].pos < Len(content'[dlq'])
                              /\ pass[r].line = {content'[dlq'][pass[r].pos + 1]}
                      /\ pass[r].stage = "replacing" => Kept' \subseteq Range(content'[tmp])
    BY DEF PassHoldsKept, HasFiles
  <2>1. dlq' = dlq /\ Kept' \subseteq Kept /\ content'[tmp] = content[tmp] /\ dlq # NoFile
    BY <1>0 DEF Rewriting, Passing, TypeInv, PassesOK, HasFiles
  <2>2. pass[r].pos \in Nat /\ Len(content[dlq]) \in Nat
    BY <1>0, <2>1, QueuedIsLines DEF TypeInv, PassesOK, PassType
  <2>3. Ahead(r) \subseteq Ahead(r)'
    <3>1. \A k \in pass[r].pos + 1 .. Len(content[dlq]) :
             /\ k \in pass[r].pos + 1 .. Len(content'[dlq]) /\ k \in 1 .. Len(content[dlq])
      BY <2>2
    <3>2. QED
      BY <2>1, <3>1 DEF Ahead
  <2>4. pass[r].pos < Len(content[dlq]) => pass[r].pos + 1 \in 1 .. Len(content[dlq])
    BY <2>2
  <2>5. ASSUME pass[r].stage \in {"reading", "posting"}
        PROVE  Kept' \subseteq Range(content'[tmp]) \union Ahead(r)'
    <3>1. Kept \subseteq Range(content[tmp]) \union Ahead(r)
      BY <1>0, <2>5 DEF PassHoldsKept
    <3>2. QED
      BY <2>1, <2>3, <3>1, Zenon
  <2>6. ASSUME pass[r].stage = "posting", Kept' # {}
        PROVE  /\ pass[r].pos < Len(content'[dlq'])
               /\ pass[r].line = {content'[dlq'][pass[r].pos + 1]}
    <3>1. /\ pass[r].pos < Len(content[dlq])
          /\ pass[r].line = {content[dlq][pass[r].pos + 1]}
      BY <1>0, <2>1, <2>6 DEF PassHoldsKept
    <3>2. content'[dlq][pass[r].pos + 1] = content[dlq][pass[r].pos + 1]
      BY <2>4, <3>1
    <3>3. pass[r].pos < Len(content'[dlq])
      BY <2>2, <3>1
    <3>4. QED
      BY <2>1, <3>1, <3>2, <3>3
  <2>7. pass[r].stage = "replacing" => Kept' \subseteq Range(content'[tmp])
    BY <1>0, <2>1 DEF PassHoldsKept
  <2>8. QED
    BY <2>5, <2>6, <2>7
<1>5. QED
  BY <1>2, <1>3, <1>4

LEMMA AppendLoss ==
  ASSUME SafeInv, NEW a \in Appenders, AppendStep(a)
  PROVE  LossInv'
<1>0. /\ TypeInv /\ KeptIsHeld /\ TailHoldsKept /\ PassHoldsKept /\ WritersAreOnTheFile
      /\ writer \in [Appenders -> WriterType] /\ fate \in [Obs -> Fates]
  BY DEF SafeInv, FilesInv, LossInv, TypeInv, WritersOK, OutsideOK
<1>1. UNCHANGED <<tmp, pass, clearing>> /\ (dlq # NoFile => dlq' = dlq)
  BY AppendFiles DEF SafeInv
<1>2. Rewriting' = Rewriting
  BY <1>1 DEF Rewriting, Passing
<1>3. \A r \in Replayers : HasFiles(r) => dlq # NoFile
  BY <1>0 DEF HasFiles, TypeInv, PassesOK
<1>4. ASSUME NEW o \in Obs, BeginAppend(a, o) PROVE LossInv'
  <2>1. /\ UNCHANGED <<content, dlq, exposed>> /\ fate[o] = "fresh"
        /\ fate' = [fate EXCEPT ![o] = IF AtCap THEN "capped" ELSE "pending"]
    BY <1>4 DEF BeginAppend, files
  <2>2. Kept' = Kept /\ Queued' = Queued
    BY <1>0, <2>1 DEF Kept, Queued, Lines
  <2>3. WritersAreOnTheFile'
    <3>1. \A b \in Appenders : writer'[b].stage = "writing" => writer'[b] = writer[b]
      BY <1>0, <1>4 DEF BeginAppend
    <3>2. QED
      BY <1>0, <1>2, <2>1, <3>1 DEF WritersAreOnTheFile
  <2>4. \A r \in Replayers : HasFiles(r) => Len(content[dlq]) \in Nat
    BY <1>0, <1>3, QueuedIsLines
  <2>5. QED
    BY <1>1, <2>1, <2>2, <2>3, <2>4, LossFrame DEF LossInv
<1>5. ASSUME OpenForAppend(a) PROVE LossInv'
  <2>1. /\ UNCHANGED <<content, fate>>
        /\ dlq' = IF dlq = NoFile THEN Fresh ELSE dlq
        /\ writer' = [writer EXCEPT ![a].stage = "writing", ![a].fd = dlq']
        /\ exposed' = IF Rewriting THEN exposed \union writer[a].obs ELSE exposed
    BY <1>5 DEF OpenForAppend
  <2>2. Kept' \subseteq Kept /\ exposed \subseteq exposed'
    BY <2>1 DEF Kept
  <2>3. Queued \subseteq Queued'
    <3>1. CASE dlq = NoFile
      <4>1. Lines(dlq) = <<>>
        BY <3>1 DEF Lines
      <4>2. QED
        BY <4>1 DEF Queued, Range
    <3>2. CASE dlq # NoFile
      BY <1>1, <2>1, <3>2 DEF Queued, Lines
    <3>3. QED
      BY <3>1, <3>2
  <2>4. WritersAreOnTheFile'
    <3>1. /\ writer'[a].fd = dlq' /\ writer'[a].obs = writer[a].obs
          /\ \A b \in Appenders \ {a} : writer'[b] = writer[b]
      BY <1>0, <2>1 DEF WriterType
    <3>2. \A b \in Appenders : writer[b].stage = "writing" => dlq # NoFile
      BY <1>0 DEF TypeInv, WritersOK
    <3>3. QED
      BY <1>0, <1>1, <1>2, <2>1, <3>1, <3>2 DEF WritersAreOnTheFile
  <2>5. \A r \in Replayers : HasFiles(r) => Len(content[dlq]) \in Nat /\ dlq' = dlq
    BY <1>0, <1>1, <1>3, QueuedIsLines
  <2>6. QED
    BY <1>1, <2>1, <2>2, <2>3, <2>4, <2>5, LossFrame DEF LossInv
<1>6. ASSUME WriteLine(a) PROVE LossInv'
  <2>1. /\ dlq' = dlq /\ writer' = [writer EXCEPT ![a] = IdleWriter]
        /\ writer[a].stage = "writing"
    BY <1>6 DEF WriteLine
  <2>2. PICK o \in writer[a].obs :
          /\ content' = Reclaim([content EXCEPT ![writer[a].fd] = Append(@, o)], InUse')
          /\ fate' = [fate EXCEPT ![o] = "queued"]
          /\ exposed' = IF Rewriting THEN exposed \union {o} ELSE exposed
    BY <1>6 DEF WriteLine
  <2>3. /\ o \in Known /\ o \in Obs /\ dlq \in Inodes /\ dlq # NoFile
        /\ content \in [Inodes -> Seq(Known)] /\ dlq \in InUse' /\ tmp \in InUse'
        /\ writer[a].fd \in Inodes
    BY <1>0, <1>1, <2>1 DEF TypeInv, WritersOK, FilesOK, InUse, Known
  <2>4. /\ content'[dlq] = content[dlq] \/ content'[dlq] = Append(content[dlq], o)
        /\ writer[a].fd = dlq => content'[dlq] = Append(content[dlq], o)
    BY <2>2, <2>3 DEF Reclaim
  <2>5. /\ content[dlq] \in Seq(Known) /\ Len(content[dlq]) \in Nat
        /\ Append(content[dlq], o) \in Seq(Known)
        /\ Len(Append(content[dlq], o)) = Len(content[dlq]) + 1
        /\ \A k \in 1 .. Len(content[dlq]) : Append(content[dlq], o)[k] = content[dlq][k]
        /\ Range(Append(content[dlq], o)) = Range(content[dlq]) \union {o}
    BY <2>3, LenProperties, AppendProperties, RangeOfAppend
  <2>6. Queued = Range(content[dlq]) /\ Queued' = Range(content'[dlq])
    BY <2>1, <2>3 DEF Queued, Lines
  <2>7. Queued \subseteq Queued' /\ (writer[a].fd = dlq => o \in Queued')
    BY <2>4, <2>5, <2>6
  <2>8. /\ exposed \subseteq exposed' /\ Kept' \subseteq Kept \union {o}
        /\ o \in Kept' => o \notin exposed /\ ~Rewriting
    BY <1>0, <2>2, <2>3 DEF Kept
  <2>9. Kept' \subseteq Kept \union Queued' /\ (Rewriting => Kept' \subseteq Kept)
    <3>1. ASSUME o \in Kept' PROVE o \in Queued' /\ ~Rewriting
      BY <1>0, <2>1, <2>2, <2>7, <2>8, <3>1 DEF WritersAreOnTheFile
    <3>2. QED
      BY <2>8, <3>1
  <2>10. \A r \in Replayers : HasFiles(r) => content'[tmp] = content[tmp]
    <3> SUFFICES ASSUME NEW r \in Replayers, HasFiles(r) PROVE content'[tmp] = content[tmp]
      OBVIOUS
    <3>1. tmp = pass[r].out /\ writer[a].fd # tmp /\ tmp \in Inodes
      BY <1>0 DEF SafeInv, FilesInv, PassHasItsFiles, TypeInv, PassesOK
    <3>2. QED
      BY <2>2, <2>3, <3>1 DEF Reclaim
  <2>11. WritersAreOnTheFile'
    <3>1. \A b \in Appenders : writer'[b].stage = "writing" => writer'[b] = writer[b]
      BY <1>0, <2>1 DEF IdleWriter
    <3>2. QED
      BY <1>0, <1>2, <2>1, <2>8, <3>1 DEF WritersAreOnTheFile
  <2>12. /\ Len(content[dlq]) <= Len(content'[dlq]) /\ Len(content'[dlq]) \in Nat
         /\ \A k \in 1 .. Len(content[dlq]) : content'[dlq][k] = content[dlq][k]
    BY <2>4, <2>5
  <2>13. KeptIsHeld' /\ TailHoldsKept' /\ PassHoldsKept'
    BY <1>1, <2>1, <2>7, <2>8, <2>9, <2>10, <2>12, LossFrame
  <2>14. QED
    BY <2>11, <2>13 DEF LossInv
<1>7. QED
  BY <1>4, <1>5, <1>6 DEF AppendStep

(* What is in memory of a truncation is exposed while a pass is running.   *)
LEMMA KeptIsQueued ==
  ASSUME KeptIsHeld, TailHoldsKept, Passing
  PROVE  Kept \subseteq Queued
BY DEF KeptIsHeld, TailHoldsKept, BeingRewritten, Kept

LEMMA ClearLoss ==
  ASSUME OneClearer, SafeInv, NEW c \in Clearers, ClearStep(c)
  PROVE  LossInv'
<1>0. /\ TypeInv /\ KeptIsHeld /\ TailHoldsKept /\ PassHoldsKept /\ WritersAreOnTheFile
      /\ clearing \in [Clearers -> ClearType] /\ fate \in [Obs -> Fates]
      /\ \A d \in Clearers : d = c
  BY DEF SafeInv, FilesInv, LossInv, TypeInv, ClearsOK, OutsideOK, OneClearer
<1>1. UNCHANGED <<dlq, tmp, pass, writer>> /\ Passing' = Passing
  BY ClearFiles DEF SafeInv, Passing
<1>2. dlq # NoFile
  BY <1>0 DEF ClearStep, ReadTail, Truncate, WriteTail, TypeInv, ClearsOK
<1>3. ASSUME ReadTail(c) PROVE LossInv'
  <2> DEFINE t == TailToKeep(Lines(dlq))
             q == [stage |-> "truncating", fd |-> NoFile, tail |-> t]
  <2>1. /\ UNCHANGED <<content, fate>> /\ clearing[c].stage = "idle"
        /\ clearing' = [clearing EXCEPT ![c] = q]
        /\ exposed' = exposed \union MidAppend \union (IF Passing THEN Range(t) ELSE {})
    BY <1>3 DEF ReadTail, files
  <2>2. q.tail = t /\ q.stage = "truncating"
    OBVIOUS
  <2> HIDE DEF t, q
  <2>3. clearing'[c].stage = "truncating" /\ clearing'[c].tail = t
    BY <1>0, <2>1, <2>2
  <2>4. Kept' \subseteq Kept /\ exposed \subseteq exposed'
    BY <2>1 DEF Kept
  <2>5. Queued' = Queued
    BY <1>1, <2>1 DEF Queued, Lines
  <2>6. KeptIsHeld'
    <3>1. BeingRewritten = {}
      BY <1>0, <2>1 DEF BeingRewritten
    <3>2. QED
      BY <1>0, <2>4, <2>5, <3>1 DEF KeptIsHeld
  <2>7. WritersAreOnTheFile'
    BY <1>1, <2>1 DEF WritersAreOnTheFile, MidAppend
  <2>8. TailHoldsKept'
    BY <1>0, <1>1, <2>1, <2>3 DEF TailHoldsKept
  <2>9. PassHoldsKept'
    BY <1>0, <1>1, <2>1, <2>4 DEF PassHoldsKept, Ahead
  <2>10. QED
    BY <2>6, <2>7, <2>8, <2>9 DEF LossInv
<1>4. ASSUME Truncate(c) PROVE LossInv'
  <2> DEFINE gone == {o \in Queued : fate[o] = "queued"} \ Range(clearing[c].tail)
             q    == [clearing[c] EXCEPT !.stage = "writing", !.fd = dlq]
  <2>1. /\ clearing[c].stage = "truncating" /\ exposed' = exposed
        /\ content' = [content EXCEPT ![dlq] = <<>>]
        /\ fate' = [o \in Obs |-> IF o \in gone THEN "cleared" ELSE fate[o]]
        /\ clearing' = [clearing EXCEPT ![c].stage = "writing", ![c].fd = dlq]
    BY <1>4 DEF Truncate
  <2>2. /\ clearing'[c].stage = "writing" /\ clearing'[c].fd = dlq
        /\ clearing'[c].tail = clearing[c].tail
    BY <1>0, <2>1 DEF ClearType
  <2>3. Kept \subseteq Queued
    <3>1. BeingRewritten = {}
      BY <1>0, <2>1 DEF BeingRewritten
    <3>2. QED
      BY <1>0, <3>1 DEF KeptIsHeld
  <2>4. Kept' \subseteq Kept /\ Kept' \subseteq Range(clearing[c].tail)
    <3>1. \A o \in Kept' : o \notin gone /\ o \in Kept
      BY <1>0, <2>1 DEF Kept
    <3>2. QED
      BY <2>3, <3>1 DEF Kept
  <2>5. Passing => Kept' = {}
    BY <1>0, <2>1, <2>4 DEF TailHoldsKept, Kept
  <2>6. KeptIsHeld'
    BY <2>2, <2>4 DEF KeptIsHeld, BeingRewritten
  <2>7. WritersAreOnTheFile'
    BY <1>0, <1>1, <2>1 DEF WritersAreOnTheFile, Rewriting
  <2>8. TailHoldsKept'
    BY <1>0, <1>1, <2>1, <2>2, <2>4 DEF TailHoldsKept
  <2>9. PassHoldsKept'
    <3>1. \A r \in Replayers : pass'[r].stage # "idle" => Kept' = {}
      BY <1>1, <2>5 DEF Passing
    <3>2. QED
      BY <3>1 DEF PassHoldsKept
  <2>10. QED
    BY <2>6, <2>7, <2>8, <2>9 DEF LossInv
<1>5. ASSUME WriteTail(c) PROVE LossInv'
  <2> DEFINE i == clearing[c].fd
             t == clearing[c].tail
             u == Overwrite(content[i], t)
  <2>1. /\ clearing[c].stage = "writing" /\ UNCHANGED <<fate, exposed>>
        /\ clearing' = [clearing EXCEPT ![c] = IdleClear]
        /\ content' = Reclaim([content EXCEPT ![i] = u], InUse')
    BY <1>5 DEF WriteTail, history
  <2>2. /\ clearing'[c].stage = "idle" /\ Kept' = Kept
    BY <1>0, <2>1 DEF IdleClear, Kept
  <2>3. /\ Kept \subseteq Range(t) /\ (i = dlq \/ Kept = {})
        /\ Passing => Kept = {}
    BY <1>0, <2>1 DEF TailHoldsKept, Kept
  <2>4. i \in Inodes /\ content[i] \in Seq(Known) /\ t \in Seq(Known)
    BY <1>0, <2>1 DEF TypeInv, ClearsOK, FilesOK
  <2>5. Range(t) \subseteq Range(u)
    BY <2>4, OverwriteProperties
  <2> HIDE DEF i, t, u
  <2>6. i = dlq => Queued' = Range(u)
    <3>1. dlq \in InUse' /\ content \in [Inodes -> Seq(Known)]
      BY <1>0, <1>1 DEF InUse, TypeInv, FilesOK
    <3>2. i = dlq => content'[dlq] = u
      BY <2>1, <2>4, <3>1 DEF Reclaim
    <3>3. QED
      BY <1>1, <1>2, <3>2 DEF Queued, Lines
  <2>7. KeptIsHeld'
    BY <2>2, <2>3, <2>5, <2>6 DEF KeptIsHeld
  <2>8. WritersAreOnTheFile'
    BY <1>0, <1>1, <2>1 DEF WritersAreOnTheFile, Rewriting
  <2>9. TailHoldsKept'
    BY <1>0, <2>2 DEF TailHoldsKept
  <2>10. PassHoldsKept'
    <3>1. \A r \in Replayers : pass'[r].stage # "idle" => Kept' = {}
      BY <1>1, <2>2, <2>3 DEF Passing
    <3>2. QED
      BY <3>1 DEF PassHoldsKept
  <2>11. QED
    BY <2>7, <2>8, <2>9, <2>10 DEF LossInv
<1>6. QED
  BY <1>3, <1>4, <1>5 DEF ClearStep

LEMMA CrashLoss ==
  ASSUME SafeInv, Crash
  PROVE  LossInv'
<1>1. /\ writer' = [a \in Appenders |-> IdleWriter]
      /\ pass' = [r \in Replayers |-> IdlePass]
      /\ clearing' = [c \in Clearers |-> IdleClear]
      /\ fate' = [o \in Obs |-> IF fate[o] = "pending" THEN "crashed" ELSE fate[o]]
      /\ exposed' = exposed \union InMemory
      /\ dlq' = dlq
      /\ content' = Reclaim(content, InUse')
  BY DEF Crash
<1>2. TypeInv /\ KeptIsHeld
  BY DEF SafeInv, FilesInv, LossInv
<1>3. /\ \A a \in Appenders : writer'[a].stage = "idle"
      /\ \A r \in Replayers : pass'[r].stage = "idle"
      /\ \A c \in Clearers : clearing'[c].stage = "idle"
  BY <1>1 DEF IdleWriter, IdlePass, IdleClear
<1>4. Queued' = Queued
  <2>1. dlq \in InUse'
    BY <1>1 DEF InUse
  <2>2. QED
    BY <1>1, <1>2, <2>1 DEF Queued, Lines, Reclaim, TypeInv, FilesOK
<1>5. Kept' \subseteq Queued'
  <2>1. Kept' \subseteq Kept \ InMemory
    BY <1>1 DEF Kept
  <2>2. BeingRewritten \subseteq InMemory
    BY DEF BeingRewritten, InMemory
  <2>3. QED
    BY <1>2, <1>4, <2>1, <2>2 DEF KeptIsHeld
<1>6. QED
  BY <1>3, <1>5 DEF LossInv, KeptIsHeld, WritersAreOnTheFile, TailHoldsKept, PassHoldsKept

(* The file that a pass reads is the one at the path, the other it writes. *)
LEMMA PassPlace ==
  ASSUME SafeInv, NEW r \in Replayers, HasFiles(r)
  PROVE  /\ pass[r].in = dlq /\ pass[r].out = tmp /\ tmp # dlq /\ tmp # NoFile /\ dlq # NoFile
         /\ tmp \in Inodes /\ dlq \in Inodes
         /\ content \in [Inodes -> Seq(Known)]
         /\ content[tmp] \in Seq(Known) /\ content[dlq] \in Seq(Known)
         /\ pass[r].pos \in Nat /\ pass[r].wrote = Len(content[tmp]) /\ pass[r].wrote \in Nat
         /\ Len(content[dlq]) \in Nat /\ Passing
<1>1. /\ pass[r].in = dlq /\ pass[r].out = tmp /\ tmp # dlq /\ tmp \in Inodes /\ dlq \in Inodes
      /\ pass[r].wrote = Len(content[tmp]) /\ pass[r].pos \in Nat /\ pass[r].wrote \in Nat
      /\ content \in [Inodes -> Seq(Known)] /\ Passing
  BY DEF SafeInv, FilesInv, PassHasItsFiles, TypeInv, FilesOK, PassesOK, PassType, HasFiles,
         Passing
<1>2. QED
  BY <1>1, InodesAssumption, LenProperties

LEMMA LineLoss ==
  ASSUME OnePass, SafeInv, NEW r \in Replayers, LineStep(r)
  PROVE  LossInv'
<1>0. /\ TypeInv /\ KeptIsHeld /\ TailHoldsKept /\ PassHoldsKept /\ WritersAreOnTheFile
      /\ pass \in [Replayers -> PassType] /\ fate \in [Obs -> Fates]
      /\ \A q \in Replayers : q = r
  BY DEF SafeInv, FilesInv, LossInv, TypeInv, PassesOK, OutsideOK, OnePass
<1> DEFINE i == pass[r].pos + 1
           L == content[dlq]
<1>1. /\ UNCHANGED <<dlq, tmp, writer, clearing, exposed>> /\ HasFiles(r)
      /\ pass[r].stage \in {"reading", "posting"}
      /\ Reading(r) \/ pass[r].stage = "posting"
      /\ KeepLine(r) \/ \E f \in {"delivered", "expired", "rejected"} : RemoveLine(r, f)
      /\ Line(r) \in Known /\ Line(r) \in Obs
  BY <1>0, LineStepCases, LineIsKnown DEF HasFiles, Reading
<1>2. /\ pass[r].in = dlq /\ pass[r].out = tmp /\ tmp # dlq /\ tmp # NoFile /\ dlq # NoFile
      /\ tmp \in Inodes /\ dlq \in Inodes
      /\ content \in [Inodes -> Seq(Known)]
      /\ content[tmp] \in Seq(Known) /\ L \in Seq(Known)
      /\ pass[r].pos \in Nat /\ pass[r].wrote = Len(content[tmp]) /\ pass[r].wrote \in Nat
      /\ Len(L) \in Nat /\ Passing
  BY <1>1, PassPlace
<1>3. Kept \subseteq Queued /\ Kept \subseteq Range(content[tmp]) \union Ahead(r)
  BY <1>0, <1>1, <1>2, KeptIsQueued DEF PassHoldsKept
<1>4. Kept = {} \/ (pass[r].pos < Len(L) /\ Line(r) = L[i])
  <2>1. CASE Reading(r)
    <3>1. pass[r].line = {}
      BY <1>0, <2>1 DEF TypeInv, PassesOK, Reading
    <3>2. QED
      BY <1>2, <2>1, <3>1 DEF Reading, HasLine, Line
  <2>2. CASE pass[r].stage = "posting"
    BY <1>0, <2>2 DEF PassHoldsKept, Line
  <2>3. QED
    BY <1>1, <2>1, <2>2
<1>5. Kept = {} \/ (Ahead(r) \subseteq {Line(r)} \union {L[k] : k \in i + 1 .. Len(L)})
  <2>1. \A k \in i .. Len(L) : k = i \/ k \in i + 1 .. Len(L)
    BY <1>2
  <2>2. QED
    BY <1>4, <2>1 DEF Ahead
<1>6. content'[dlq] = L
  BY <1>1, <1>2 DEF KeepLine, WithLineKept, RemoveLine
<1>7. pass'[r].pos = i /\ pass'[r].stage = "reading"
  <2>0. i \in Nat /\ pass[r].wrote + 1 \in Nat /\ pass[r] \in PassType
    BY <1>0, <1>2
  <2>1. CASE KeepLine(r)
    <3>1. pass' = [pass EXCEPT ![r] = NextLine(pass[r], i, pass[r].wrote + 1)]
      BY <1>0, <2>1 DEF KeepLine, NextLine
    <3>2. \A k, m \in Nat : LET q == NextLine(pass[r], k, m) IN
            q.pos = k /\ q.stage = "reading"
      <4>1. pass[r] \in PassType
        BY <2>0
      <4>2. QED
        BY <4>1, NextLineRecord
    <3>3. QED
      BY <1>0, <2>0, <3>1, <3>2
  <2>2. ASSUME NEW f, RemoveLine(r, f) PROVE pass'[r].pos = i /\ pass'[r].stage = "reading"
    <3>1. pass' = [pass EXCEPT ![r] = SkipLine(pass[r], i)]
      BY <1>0, <2>2 DEF RemoveLine, SkipLine
    <3>2. \A k \in Nat : LET q == SkipLine(pass[r], k) IN q.pos = k /\ q.stage = "reading"
      <4>1. pass[r] \in PassType
        BY <2>0
      <4>2. QED
        BY <4>1, SkippedLineRecord
    <3>3. QED
      BY <1>0, <2>0, <3>1, <3>2
  <2>3. QED
    BY <1>1, <2>1, <2>2
<1>8. Ahead(r)' = {L[k] : k \in i + 1 .. Len(L)}
  BY <1>1, <1>6, <1>7 DEF Ahead
<1> HIDE DEF L, i
<1>9. Kept' \subseteq Kept /\ Kept' \subseteq Range(content'[tmp]) \union Ahead(r)'
  <2>1. CASE KeepLine(r)
    <3>1. Kept' = Kept
      BY <1>1, <2>1 DEF KeepLine, Kept
    <3>2. content'[tmp] = Append(content[tmp], Line(r))
      <4>1. WriteAt(content[tmp], pass[r].wrote, Line(r)) = Append(content[tmp], Line(r))
        <5>1. content[tmp] \in Seq(Known) /\ Line(r) \in Known
              /\ pass[r].wrote \in Nat /\ pass[r].wrote = Len(content[tmp])
          BY <1>1, <1>2
        <5>2. QED
          BY <5>1, WriteAtProperties
      <4>2. QED
        BY <1>2, <2>1, <4>1 DEF KeepLine, WithLineKept
    <3>3. Range(content'[tmp]) = Range(content[tmp]) \union {Line(r)}
      BY <1>1, <1>2, <3>2, RangeOfAppend
    <3>4. QED
      BY <1>3, <1>5, <1>8, <3>1, <3>3
  <2>2. ASSUME NEW f \in {"delivered", "expired", "rejected"}, RemoveLine(r, f)
        PROVE  Kept' \subseteq Kept /\ Kept' \subseteq Range(content'[tmp]) \union Ahead(r)'
    <3>1. content' = content /\ Kept' \subseteq Kept \ {Line(r)}
      BY <1>0, <1>1, <2>2 DEF RemoveLine, Kept
    <3>2. QED
      BY <1>3, <1>5, <1>8, <3>1
  <2>3. QED
    BY <1>1, <2>1, <2>2
<1>10. Queued' = Queued
  BY <1>1, <1>2, <1>6 DEF Queued, Lines, L
<1>11. Passing' /\ Rewriting
  BY <1>2, <1>7 DEF Passing, Rewriting
<1>12. KeptIsHeld'
  BY <1>3, <1>9, <1>10 DEF KeptIsHeld
<1>13. WritersAreOnTheFile'
  BY <1>0, <1>1, <1>11 DEF WritersAreOnTheFile
<1>14. TailHoldsKept'
  BY <1>0, <1>1, <1>2, <1>9 DEF TailHoldsKept
<1>15. PassHoldsKept'
  BY <1>0, <1>1, <1>7, <1>9 DEF PassHoldsKept
<1>16. QED
  BY <1>12, <1>13, <1>14, <1>15 DEF LossInv

LEMMA ReplayLoss ==
  ASSUME OnePass, SafeInv, NEW r \in Replayers, ReplayStep(r)
  PROVE  LossInv'
<1>0. /\ TypeInv /\ KeptIsHeld /\ TailHoldsKept /\ PassHoldsKept /\ WritersAreOnTheFile
      /\ pass \in [Replayers -> PassType] /\ fate \in [Obs -> Fates]
      /\ \A q \in Replayers : q = r
      /\ UNCHANGED <<writer, clearing>>
  BY ReplayFiles DEF SafeInv, FilesInv, LossInv, TypeInv, PassesOK, OutsideOK, OnePass
<1>1. ASSUME CleanTmp(r) PROVE LossInv'
  <2>1. /\ dlq' = dlq /\ dlq # NoFile /\ content' = Reclaim(content, InUse') /\ fate' = fate
        /\ pass' = [pass EXCEPT ![r].stage = "opening"]
        /\ exposed' = exposed \union MidAppend \union InMemory
    BY <1>1 DEF CleanTmp
  <2>2. pass'[r].stage = "opening"
    BY <1>0, <2>1 DEF PassType
  <2>3. Queued' = Queued
    <3>1. dlq \in InUse' /\ dlq \in Inodes
      BY <1>0, <2>1 DEF InUse, TypeInv, FilesOK
    <3>2. QED
      BY <2>1, <3>1 DEF Queued, Lines, Reclaim
  <2>4. Kept' \subseteq Kept /\ exposed \subseteq exposed'
    BY <2>1 DEF Kept
  <2>5. KeptIsHeld'
    BY <1>0, <2>3, <2>4 DEF KeptIsHeld, BeingRewritten
  <2>6. WritersAreOnTheFile'
    BY <1>0, <2>1 DEF WritersAreOnTheFile, MidAppend
  <2>7. TailHoldsKept'
    BY <1>0, <2>1, <2>4 DEF TailHoldsKept, InMemory
  <2>8. PassHoldsKept'
    BY <1>0, <2>2 DEF PassHoldsKept
  <2>9. QED
    BY <2>5, <2>6, <2>7, <2>8 DEF LossInv
<1>2. ASSUME OpenFiles(r) PROVE LossInv'
  <2> DEFINE out == Fresh
  <2>1. /\ UNCHANGED <<dlq, fate, exposed>> /\ tmp = NoFile /\ tmp' = out
        /\ content' = [content EXCEPT ![out] = <<>>] /\ pass[r].stage = "opening"
        /\ pass' = [pass EXCEPT ![r] = Opened(dlq, out)]
    <3>1. pass[r].stage = "opening" /\ tmp = NoFile
      BY <1>2 DEF OpenFiles, SafeInv, FilesInv, PassHasItsFiles
    <3>2. QED
      BY <1>2, <3>1 DEF OpenFiles, Opened, history
  <2>2. out \in Inodes /\ out # dlq /\ dlq \in Inodes /\ dlq # NoFile
        /\ content \in [Inodes -> Seq(Known)]
    BY <1>0, <2>1, FreshProperties, PathsInUse DEF TypeInv, PassesOK, FilesOK
  <2> HIDE DEF out
  <2>3. content'[dlq] = content[dlq]
    BY <2>1, <2>2
  <2>4. pass'[r].pos = 0 /\ pass'[r].stage = "reading"
    BY <1>0, <2>1, <2>2, OpenedRecord
  <2>5. Passing /\ Passing' /\ Rewriting /\ Kept' = Kept
    BY <2>1, <2>4 DEF Passing, Rewriting, Kept
  <2>6. Queued' = Queued
    BY <2>1, <2>2, <2>3 DEF Queued, Lines
  <2>7. Kept \subseteq Queued
    BY <1>0, <2>5, KeptIsQueued
  <2>8. Ahead(r)' = Queued
    BY <1>0, <2>1, <2>2, <2>3, <2>4, QueuedIsLines DEF Ahead
  <2>9. KeptIsHeld'
    BY <2>5, <2>6, <2>7 DEF KeptIsHeld
  <2>10. WritersAreOnTheFile'
    BY <1>0, <2>1, <2>5 DEF WritersAreOnTheFile
  <2>11. TailHoldsKept'
    BY <1>0, <2>1, <2>5 DEF TailHoldsKept
  <2>12. PassHoldsKept'
    BY <1>0, <2>4, <2>5, <2>7, <2>8 DEF PassHoldsKept
  <2>13. QED
    BY <2>9, <2>10, <2>11, <2>12 DEF LossInv
<1>3. ASSUME Attempt(r) \/ FinishReading(r) PROVE LossInv'
  <2>1. /\ UNCHANGED <<content, dlq, tmp, fate, exposed>> /\ HasFiles(r)
        /\ pass[r].stage = "reading"
    BY <1>3 DEF Attempt, FinishReading, files, history, HasFiles, Reading
  <2>2. /\ pass[r].in = dlq /\ Len(content[dlq]) \in Nat /\ pass[r].pos \in Nat /\ Passing
    BY <2>1, PassPlace
  <2>3. /\ pass'[r].pos = pass[r].pos /\ pass'[r].stage # "reading" /\ pass'[r].stage # "idle"
        /\ pass'[r].stage = "posting" =>
             /\ pass[r].pos < Len(content[dlq])
             /\ pass'[r].line = {content[dlq][pass[r].pos + 1]}
        /\ pass'[r].stage = "replacing" => Ahead(r) = {}
    <3>1. CASE Attempt(r)
      <4> DEFINE n == pass[r].attempted + 1
                 l == {Line(r)}
      <4>1. pass' = [pass EXCEPT ![r].stage = "posting", ![r].attempted = n, ![r].line = l]
        BY <3>1 DEF Attempt
      <4>2. l = {content[dlq][pass[r].pos + 1]} /\ pass[r].pos < Len(content[dlq])
        <5>1. pass[r].line = {}
          BY <1>0, <2>1 DEF TypeInv, PassesOK
        <5>2. QED
          BY <2>2, <3>1, <5>1 DEF Attempt, Reading, HasLine, Line
      <4> HIDE DEF n, l
      <4>3. pass'[r].pos = pass[r].pos /\ pass'[r].stage = "posting" /\ pass'[r].line = l
        BY <1>0, <4>1 DEF PassType
      <4>4. QED
        BY <4>2, <4>3
    <3>2. CASE FinishReading(r)
      <4>1. ~(pass[r].pos < Len(content[dlq]))
        BY <2>2, <3>2 DEF FinishReading, HasLine
      <4>2. Ahead(r) = {}
        <5>1. pass[r].pos + 1 .. Len(content[dlq]) = {}
          BY <2>2, <4>1
        <5>2. QED
          BY <5>1 DEF Ahead
      <4>3. pass'[r].pos = pass[r].pos /\ pass'[r].stage = "replacing"
        BY <1>0, <3>2 DEF FinishReading, PassType
      <4>4. QED
        BY <4>2, <4>3
    <3>3. QED
      BY <1>3, <3>1, <3>2
  <2>4. Kept' = Kept /\ Queued' = Queued /\ Ahead(r)' = Ahead(r) /\ Rewriting
    BY <2>1, <2>2, <2>3 DEF Kept, Queued, Lines, Ahead, Rewriting
  <2>5. KeptIsHeld'
    BY <1>0, <2>4 DEF KeptIsHeld, BeingRewritten
  <2>6. WritersAreOnTheFile'
    BY <1>0, <2>1, <2>4 DEF WritersAreOnTheFile
  <2>7. TailHoldsKept'
    BY <1>0, <2>1, <2>2, <2>4 DEF TailHoldsKept
  <2>8. PassHoldsKept'
    BY <1>0, <2>1, <2>3, <2>4 DEF PassHoldsKept
  <2>9. QED
    BY <2>5, <2>6, <2>7, <2>8 DEF LossInv
<1>4. ASSUME ReplaceDlq(r) PROVE LossInv'
  <2>1. /\ pass[r].stage = "replacing" /\ HasFiles(r) /\ UNCHANGED <<fate, exposed>>
        /\ dlq' = IF tmp = NoFile THEN dlq ELSE tmp
        /\ pass' = [pass EXCEPT ![r] = IdlePass]
        /\ content' = Reclaim(content, InUse')
    BY <1>4 DEF ReplaceDlq, HasFiles, history
  <2>2. tmp # NoFile /\ tmp \in Inodes /\ Passing /\ Rewriting
    BY <2>1, PassPlace DEF Rewriting
  <2>3. Queued' = Range(content[tmp])
    <3>1. tmp \in InUse' /\ dlq' = tmp
      BY <2>1, <2>2 DEF InUse
    <3>2. QED
      BY <2>1, <2>2, <3>1 DEF Queued, Lines, Reclaim
  <2>4. Kept' = Kept /\ Kept \subseteq Range(content[tmp])
    BY <1>0, <2>1 DEF Kept, PassHoldsKept
  <2>5. pass'[r].stage = "idle"
    BY <1>0, <2>1 DEF IdlePass
  <2>6. KeptIsHeld'
    BY <2>3, <2>4 DEF KeptIsHeld
  <2>7. WritersAreOnTheFile'
    BY <1>0, <2>1, <2>2 DEF WritersAreOnTheFile
  <2>8. TailHoldsKept'
    <3>1. ASSUME NEW c \in Clearers, clearing[c].stage = "writing"
          PROVE  Kept = {}
      BY <1>0, <2>2, <3>1 DEF TailHoldsKept, Kept
    <3>2. \A q \in Replayers : pass'[q].stage = "idle"
      BY <1>0, <2>5
    <3>3. QED
      BY <1>0, <2>1, <2>4, <3>1, <3>2 DEF TailHoldsKept, Passing
  <2>9. PassHoldsKept'
    BY <1>0, <2>5 DEF PassHoldsKept
  <2>10. QED
    BY <2>6, <2>7, <2>8, <2>9 DEF LossInv
<1>5. QED
  BY <1>1, <1>2, <1>3, <1>4, LineLoss DEF ReplayStep, LineStep

(* With one pass and one truncation at a time, a record that has been      *)
(* written and has met no outcome is in the file or about to be written    *)
(* back, through appends, passes, truncations and crashes, unless its      *)
(* append overlapped one of them or a crash or a pass caught a truncation  *)
(* that held it in memory: _write_failed_observation,                      *)
(* replay_failed_observations and dlq_clear.  With two passes, or two      *)
(* truncations, it is false.                                               *)
THEOREM RecordsStay ==
  ASSUME OnePass, OneClearer
  PROVE  Spec => []LossNeedsOverlap
<1>1. Init => LossInv
  BY DEF Init, LossInv, KeptIsHeld, WritersAreOnTheFile, TailHoldsKept, PassHoldsKept, Kept,
         IdleWriter, IdlePass, IdleClear
<1>2. SafeInv /\ [Next]_vars => LossInv'
  <2> SUFFICES ASSUME SafeInv, [Next]_vars PROVE LossInv'
    OBVIOUS
  <2>1. CASE (\E t \in Targets : BreakerChanges(t)) \/ \E o \in Obs : Age(o)
    <3>1. UNCHANGED <<content, dlq, tmp, writer, pass, clearing, fate, exposed>>
      BY <2>1, EnvironmentType DEF SafeInv, FilesInv
    <3>2. QED
      BY <3>1 DEF SafeInv, LossInv, KeptIsHeld, WritersAreOnTheFile, TailHoldsKept,
                  PassHoldsKept, Kept, Queued, Lines, BeingRewritten, Passing, Rewriting, Ahead
  <2>2. CASE UNCHANGED vars
    BY <2>2 DEF SafeInv, LossInv, KeptIsHeld, WritersAreOnTheFile, TailHoldsKept,
                PassHoldsKept, Kept, Queued, Lines, BeingRewritten, Passing, Rewriting, Ahead,
                vars
  <2>3. CASE Crash
    BY <2>3, CrashLoss
  <2>4. QED
    BY <2>1, <2>2, <2>3, AppendLoss, ReplayLoss, ClearLoss DEF Next
<1>3. SafeInv => LossNeedsOverlap
  BY DEF SafeInv, LossInv, KeptIsHeld, Kept, LossNeedsOverlap, Missing
<1>4. QED
  BY <1>1, <1>2, <1>3, FilesInvHolds, PTL DEF Spec, SafeInv
=============================================================================
