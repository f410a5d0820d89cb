-------------------------- MODULE DeadLetterQueue --------------------------
(***************************************************************************)
(* The dead-letter file data/failed_observations.jsonl: threads that       *)
(* append to it, replay passes that read it, post its records and replace  *)
(* it, the operator route that truncates it, and process crashes.          *)
(*                                                                         *)
(* A file is an inode: a handle keeps naming the inode it opened after the *)
(* path has been given another one by os.replace.  A line is one record    *)
(* and stands for its observation; sizes are counted in lines.             *)
(***************************************************************************)
EXTENDS Integers, Sequences, FiniteSets, SequencesExt

CONSTANTS
  Obs,          \* observations that may be dead-lettered, each at most once
  Unusable,     \* those whose line does not parse any more
  Unlocated,    \* those whose Thing may have no Location on its target
  Unheard,      \* those a failed push may have stored all the same
  Targets,
  TargetOf,     \* the target a record's endpoint belongs to
  Healthy,      \* targets that answer, and whose breaker stays closed
  Replies,      \* the replies each target may give to a replayed POST
  Appenders,    \* threads inside _write_failed_observation
  Replayers,    \* threads inside replay_failed_observations
  Clearers,     \* requests inside dlq_clear
  DlqMax,       \* failed_dlq_max_bytes
  MaxLines,     \* max_lines, the POSTs of one pass
  KeepLines,    \* keep_bytes of dlq_clear
  DedupProbe,   \* frost_replay_dedup_probe
  ProbeMayFail, \* the probe may be indeterminate
  Crashes,      \* the process may crash
  Ageing,       \* observations that may pass failed_dlq_max_age_hours
  Inodes

ReplyKinds == {"created", "conflict", "rejected", "busy", "timeout",
               "late_commit"}

ASSUME DlqAssumption ==
  /\ Unusable \subseteq Obs /\ Unlocated \subseteq Obs /\ Ageing \subseteq Obs
  /\ Unheard \subseteq Obs /\ Healthy \subseteq Targets
  /\ TargetOf \in [Obs -> Targets]
  /\ Replies \in [Targets -> SUBSET ReplyKinds]
  /\ DlqMax \in Nat /\ MaxLines \in Nat /\ KeepLines \in Nat
  /\ DedupProbe \in BOOLEAN /\ ProbeMayFail \in BOOLEAN /\ Crashes \in BOOLEAN

NoFile == 0
RowsMax == 2    \* bound: rows of one observation counted on the server

(* Every path and every handle may name an inode of its own, and one more  *)
(* is free.                                                                *)
ASSUME InodesAssumption ==
  /\ NoFile \notin Inodes
  /\ IsFiniteSet(Inodes) /\ IsFiniteSet(Appenders)
  /\ IsFiniteSet(Replayers) /\ IsFiniteSet(Clearers)
  /\ Cardinality(Inodes) > 2 + Cardinality(Appenders) + Cardinality(Clearers)
                             + Cardinality(Replayers) + Cardinality(Replayers)

VARIABLES
  content,   \* the lines of each inode
  dlq, tmp,  \* the inodes the two paths name
  writer,    \* the append each appender is doing
  pass,      \* the replay pass each replayer is doing
  clearing,  \* the truncation each clearer is doing
  refused,   \* environment: targets whose breaker is open
  old,       \* environment: observations past failed_dlq_max_age_hours
  rows,      \* environment: rows the target stores for an observation
  fate,      \* history: what became of each observation
  exposed    \* history: observations whose append overlapped a pass or a
             \* truncation, or that a truncation had in memory
             \* during a pass or a crash

files    == <<content, dlq, tmp>>
outside  == <<refused, old>>
history  == <<fate, exposed>>
vars     == <<content, dlq, tmp, writer, pass, clearing, refused, old, rows,
              fate, exposed>>

IdleWriter == [stage |-> "idle", obs |-> {}, fd |-> NoFile]
IdlePass   == [stage |-> "idle", in |-> NoFile, out |-> NoFile,
               pos |-> 0, wrote |-> 0, attempted |-> 0, line |-> {}]
IdleClear  == [stage |-> "idle", fd |-> NoFile, tail |-> <<>>]

Init ==
  /\ content = [i \in Inodes |-> <<>>]
  /\ dlq = NoFile /\ tmp = NoFile
  /\ writer = [a \in Appenders |-> IdleWriter]
  /\ pass = [r \in Replayers |-> IdlePass]
  /\ clearing = [c \in Clearers |-> IdleClear]
  /\ refused = {} /\ old = {}
  /\ rows = [o \in Obs |-> 0]
  /\ fate = [o \in Obs |-> "fresh"]
  /\ exposed = {}

-----------------------------------------------------------------------------
Lines(i) == IF i = NoFile THEN <<>> ELSE content[i]
Queued   == Range(Lines(dlq))

InUse ==
  {dlq, tmp} \union {writer[a].fd : a \in Appenders}
             \union {pass[r].in : r \in Replayers}
             \union {pass[r].out : r \in Replayers}
             \union {clearing[c].fd : c \in Clearers}

Fresh == CHOOSE i \in Inodes : i \notin InUse

(* The file system frees an inode that has neither name nor handle.        *)
Reclaim(files1, used) == [i \in Inodes |-> IF i \in used THEN files1[i] ELSE <<>>]

(* A write through a handle of its own: it overwrites what others appended *)
(* at that place meanwhile.                                                *)
WriteAt(s, n, line) == IF n < Len(s) THEN [s EXCEPT ![n + 1] = line]
                                     ELSE Append(s, line)

(* Fault: the tail is read but not written back.                           *)
FaultNoWriteBack(s, lines) == s

Overwrite(s, lines) ==
  [i \in 1 .. (IF Len(s) > Len(lines) THEN Len(s) ELSE Len(lines)) |->
     IF i <= Len(lines) THEN lines[i] ELSE s[i]]

(* Records a truncation holds in memory, to write back.                    *)
InMemory == UNION {Range(clearing[c].tail) : c \in Clearers}

Passing == \E r \in Replayers : pass[r].stage # "idle"

Rewriting == \/ Passing
             \/ \E c \in Clearers : clearing[c].stage # "idle"

MidAppend == UNION {writer[a].obs : a \in {b \in Appenders :
                                             writer[b].stage = "writing"}}

-----------------------------------------------------------------------------
(* _write_failed_observation: stat, open in append mode, write.  A push    *)
(* that timed out may have been committed by the server all the same.      *)

(* Fault: the limit is compared with the wrong sign of equality.           *)
FaultCapOffByOne == Len(Lines(dlq)) > DlqMax

AtCap == Len(Lines(dlq)) >= DlqMax

BeginAppend(a, o) ==
  /\ writer[a].stage = "idle" /\ fate[o] = "fresh"
  /\ \E n \in 0 .. 1 : /\ n = 1 => o \in Unheard
                       /\ rows' = [rows EXCEPT ![o] = n]
  /\ fate' = [fate EXCEPT ![o] = IF AtCap THEN "capped" ELSE "pending"]
  /\ writer' = [writer EXCEPT ![a] =
       IF AtCap THEN @ ELSE [stage |-> "opening", obs |-> {o}, fd |-> NoFile]]
  /\ UNCHANGED <<files, pass, clearing, outside, exposed>>

OpenForAppend(a) ==
  /\ writer[a].stage = "opening"
  /\ LET fd == IF dlq = NoFile THEN Fresh ELSE dlq IN
       /\ dlq' = fd
       /\ writer' = [writer EXCEPT ![a].stage = "writing", ![a].fd = fd]
  /\ exposed' = IF Rewriting THEN exposed \union writer[a].obs ELSE exposed
  /\ UNCHANGED <<content, tmp, pass, clearing, outside, rows, fate>>

WriteLine(a) ==
  /\ writer[a].stage = "writing"
  /\ writer' = [writer EXCEPT ![a] = IdleWriter]
  /\ UNCHANGED <<dlq, tmp, pass, clearing, outside, rows>>
  /\ \E o \in writer[a].obs :
       /\ content' = Reclaim([content EXCEPT ![writer[a].fd] = Append(@, o)],
                             InUse')
       /\ fate' = [fate EXCEPT ![o] = "queued"]
       /\ exposed' = IF Rewriting THEN exposed \union {o} ELSE exposed

-----------------------------------------------------------------------------
(* replay_failed_observations.                                             *)

(* Unlink the temporary file a crashed pass may have left.  Without a      *)
(* dead-letter file the pass returns at once.                              *)
CleanTmp(r) ==
  /\ pass[r].stage = "idle" /\ dlq # NoFile
  /\ tmp' = NoFile
  /\ pass' = [pass EXCEPT ![r].stage = "opening"]
  /\ exposed' = exposed \union MidAppend \union InMemory
  /\ UNCHANGED <<dlq, writer, clearing, outside, rows, fate>>
  /\ content' = Reclaim(content, InUse')

(* open(tmp, "w") creates the file, or truncates the one that another pass *)
(* has created since, which both then write.                               *)
OpenFiles(r) ==
  /\ pass[r].stage = "opening"
  /\ LET out == IF tmp = NoFile THEN Fresh ELSE tmp IN
       /\ tmp' = out
       /\ content' = [content EXCEPT ![out] = <<>>]
       /\ pass' = [pass EXCEPT ![r] = [IdlePass EXCEPT
            !.stage = "reading", !.in = dlq, !.out = out]]
  /\ UNCHANGED <<dlq, writer, clearing, outside, rows, history>>

(* The line at the read position, or the record already read and posted.   *)
HasLine(r) == pass[r].pos < Len(content[pass[r].in])
Line(r)    == IF pass[r].line = {} THEN content[pass[r].in][pass[r].pos + 1]
                                   ELSE CHOOSE o \in pass[r].line : TRUE

(* Fault: a pass stops one attempt short of its limit.                     *)
FaultSpent(r) == pass[r].attempted + 1 >= MaxLines

Spent(r)   == pass[r].attempted >= MaxLines
Reading(r) == pass[r].stage = "reading" /\ HasLine(r)

(* Fault: a record that could not be delivered is not written back.        *)
FaultKeepForgets(r) == content

WithLineKept(r) ==
  [content EXCEPT ![pass[r].out] = WriteAt(@, pass[r].wrote, Line(r))]

(* What the pass does with the line it stands on: the record stays in the  *)
(* file, or leaves it for the reason f.                                    *)
KeepLine(r) ==
  /\ content' = WithLineKept(r)
  /\ pass' = [pass EXCEPT ![r].stage = "reading", ![r].pos = @ + 1,
                          ![r].wrote = @ + 1, ![r].line = {}]
  /\ UNCHANGED fate

RemoveLine(r, f) ==
  /\ fate' = [fate EXCEPT ![Line(r)] = f]
  /\ pass' = [pass EXCEPT ![r].stage = "reading", ![r].pos = @ + 1,
                          ![r].line = {}]
  /\ UNCHANGED content

Untried(r) == ~Spent(r) /\ Line(r) \notin Unusable

Posts(r) == Untried(r) /\ Line(r) \notin old /\ TargetOf[Line(r)] \notin refused

(* Copied without an attempt: past the pass's limit, unparseable, or the   *)
(* target's breaker is open.                                               *)
CopyLine(r) ==
  /\ Reading(r)
  /\ ~Posts(r) /\ (Untried(r) => Line(r) \notin old)
  /\ KeepLine(r)
  /\ UNCHANGED <<dlq, tmp, writer, clearing, outside, rows, exposed>>

ExpireLine(r) ==
  /\ Reading(r)
  /\ Untried(r) /\ Line(r) \in old
  /\ RemoveLine(r, "expired")
  /\ UNCHANGED <<dlq, tmp, writer, clearing, outside, rows, exposed>>

(* The probe finds the observation on the server: already delivered.       *)
ProbeFinds(r) ==
  /\ Reading(r) /\ Posts(r)
  /\ DedupProbe /\ rows[Line(r)] > 0
  /\ RemoveLine(r, "delivered")
  /\ UNCHANGED <<dlq, tmp, writer, clearing, outside, rows, exposed>>

(* Fault: the probe's answer is not looked at.                             *)
FaultUnprobed(r) == TRUE

ProbeClears(r) == ~DedupProbe \/ rows[Line(r)] = 0 \/ ProbeMayFail

Attempt(r) ==
  /\ Reading(r) /\ Posts(r)
  /\ ProbeClears(r)
  /\ pass' = [pass EXCEPT ![r].stage = "posting",
                          ![r].attempted = @ + 1, ![r].line = {Line(r)}]
  /\ UNCHANGED <<files, writer, clearing, outside, rows, history>>

Store(o) == [rows EXCEPT ![o] = IF @ < RowsMax THEN @ + 1 ELSE @]

(* Fault: a POST that raised is taken for delivered.                       *)
FaultKeepsLess == {"busy"}

(* Replies after which the record is kept: every retryable status, every   *)
(* exception (the observation may have been committed all the same).       *)
Retryable == {"busy", "timeout", "late_commit"}

(* A target answers 409 to what it has already, if it enforces uniqueness, *)
(* and to everything of a Thing without a Location (connector.py 561).     *)
Conflicting(o) == rows[o] > 0 \/ o \in Unlocated

(* Both count as delivered, as a 2xx does; a 4xx that is not retryable     *)
(* drops the record, also when it is the HTML page of a proxy.             *)
PostReply(r, reply) ==
  LET o == Line(r) IN
  /\ pass[r].stage = "posting"
  /\ reply \in Replies[TargetOf[o]]
  /\ reply = "conflict" => Conflicting(o)
  /\ rows' = IF reply \in {"created", "late_commit"} THEN Store(o) ELSE rows
  /\ CASE reply \in Retryable    -> KeepLine(r)
       [] reply = "rejected"     -> RemoveLine(r, "rejected")
       [] OTHER                  -> RemoveLine(r, "delivered")
  /\ UNCHANGED <<dlq, tmp, writer, clearing, outside, exposed>>

FinishReading(r) ==
  /\ pass[r].stage = "reading" /\ ~HasLine(r)
  /\ pass' = [pass EXCEPT ![r].stage = "replacing"]
  /\ UNCHANGED <<files, writer, clearing, outside, rows, history>>

(* os.replace; it raises when another pass has taken the temporary file.   *)
ReplaceDlq(r) ==
  /\ pass[r].stage = "replacing"
  /\ dlq' = IF tmp = NoFile THEN dlq ELSE tmp
  /\ tmp' = NoFile
  /\ pass' = [pass EXCEPT ![r] = IdlePass]
  /\ UNCHANGED <<writer, clearing, outside, rows, history>>
  /\ content' = Reclaim(content, InUse')

-----------------------------------------------------------------------------
(* dlq_clear with confirm=true: remember the tail, truncate in place,      *)
(* write the tail back from offset zero.  keep_bytes is taken to fall      *)
(* inside a line, whose rest is discarded.                                 *)

TailToKeep(lines) ==
  IF KeepLines > 0 /\ Len(lines) > KeepLines
    THEN SubSeq(lines, Len(lines) - KeepLines + 1, Len(lines)) ELSE <<>>

ReadTail(c) ==
  /\ clearing[c].stage = "idle" /\ dlq # NoFile
  /\ clearing' = [clearing EXCEPT ![c] =
       [stage |-> "truncating", fd |-> NoFile,
        tail |-> TailToKeep(Lines(dlq))]]
  /\ exposed' = exposed \union MidAppend
       \union (IF Passing THEN Range(TailToKeep(Lines(dlq))) ELSE {})
  /\ UNCHANGED <<files, writer, pass, outside, rows, fate>>

Truncate(c) ==
  LET gone == {o \in Queued : fate[o] = "queued"} \ Range(clearing[c].tail) IN
  /\ clearing[c].stage = "truncating"
  /\ content' = [content EXCEPT ![dlq] = <<>>]
  /\ fate' = [o \in Obs |-> IF o \in gone THEN "cleared" ELSE fate[o]]
  /\ clearing' = [clearing EXCEPT ![c].stage = "writing", ![c].fd = dlq]
  /\ UNCHANGED <<dlq, tmp, writer, pass, outside, rows, exposed>>

WriteTail(c) ==
  /\ clearing[c].stage = "writing"
  /\ clearing' = [clearing EXCEPT ![c] = IdleClear]
  /\ UNCHANGED <<dlq, tmp, writer, pass, outside, rows, history>>
  /\ content' = Reclaim([content EXCEPT ![clearing[c].fd] =
                            Overwrite(@, clearing[c].tail)], InUse')

-----------------------------------------------------------------------------
(* A crash loses what is in memory; both paths and their contents survive. *)

Crash ==
  /\ Crashes
  /\ writer' = [a \in Appenders |-> IdleWriter]
  /\ pass' = [r \in Replayers |-> IdlePass]
  /\ clearing' = [c \in Clearers |-> IdleClear]
  /\ fate' = [o \in Obs |-> IF fate[o] = "pending" THEN "crashed" ELSE fate[o]]
  /\ exposed' = exposed \union InMemory
  /\ UNCHANGED <<dlq, tmp, outside, rows>>
  /\ content' = Reclaim(content, InUse')

(* Environment: breakers open and close, records age.                      *)
BreakerChanges(t) ==
  /\ t \notin Healthy
  /\ refused' = IF t \in refused THEN refused \ {t} ELSE refused \union {t}
  /\ UNCHANGED <<files, writer, pass, clearing, old, rows, history>>

Age(o) ==
  /\ o \in Ageing \ old
  /\ old' = old \union {o}
  /\ UNCHANGED <<files, writer, pass, clearing, refused, rows, history>>

AppendStep(a) == \/ \E o \in Obs : BeginAppend(a, o)
                 \/ OpenForAppend(a)
                 \/ WriteLine(a)

ReplayStep(r) == \/ CleanTmp(r)
                 \/ OpenFiles(r)
                 \/ CopyLine(r)
                 \/ ExpireLine(r)
                 \/ ProbeFinds(r)
                 \/ Attempt(r)
                 \/ \E reply \in ReplyKinds : PostReply(r, reply)
                 \/ FinishReading(r)
                 \/ ReplaceDlq(r)

ClearStep(c) == ReadTail(c) \/ Truncate(c) \/ WriteTail(c)

Next == \/ \E a \in Appenders : AppendStep(a)
        \/ \E r \in Replayers : ReplayStep(r)
        \/ \E c \in Clearers : ClearStep(c)
        \/ Crash
        \/ \E t \in Targets : BreakerChanges(t)
        \/ \E o \in Obs : Age(o)

Spec == Init /\ [][Next]_vars

(* The replay loop sleeps and starts another pass for ever, and every      *)
(* request of a pass has a timeout.                                        *)
FairSpec == Spec /\ \A r \in Replayers : WF_vars(ReplayStep(r))

-----------------------------------------------------------------------------
TypeOK ==
  /\ content \in [Inodes -> Seq(Obs)]
  /\ dlq \in Inodes \union {NoFile} /\ tmp \in Inodes \union {NoFile}
  /\ writer \in [Appenders ->
       [stage : {"idle", "opening", "writing"}, obs : SUBSET Obs,
        fd : Inodes \union {NoFile}]]
  /\ pass \in [Replayers ->
       [stage : {"idle", "opening", "reading", "posting", "replacing"},
        in : Inodes \union {NoFile}, out : Inodes \union {NoFile},
        pos : Nat, wrote : Nat, attempted : 0 .. MaxLines, line : SUBSET Obs]]
  /\ clearing \in [Clearers ->
       [stage : {"idle", "truncating", "writing"},
        fd : Inodes \union {NoFile}, tail : Seq(Obs)]]
  /\ refused \subseteq Targets /\ old \subseteq Obs
  /\ rows \in [Obs -> 0 .. RowsMax]
  /\ fate \in [Obs -> {"fresh", "pending", "queued", "capped", "delivered",
                       "expired", "rejected", "cleared", "crashed"}]
  /\ exposed \subseteq Obs

BeingRewritten ==
  UNION {Range(clearing[c].tail) : c \in {d \in Clearers :
                                            clearing[d].stage = "writing"}}

Missing(o) == fate[o] = "queued" /\ o \notin Queued \union BeingRewritten

(* A record that has been written and neither delivered, dropped, expired  *)
(* nor cleared is in the file, across passes, truncations and crashes,     *)
(* unless its append overlapped a pass or a truncation, or a crash or a    *)
(* pass caught the truncation that held it in memory.                      *)
LossNeedsOverlap == \A o \in Obs : Missing(o) => o \in exposed

(* The size check and the append are two steps: every thread that was past *)
(* the check can add one line more, and no other growth is possible.       *)
SizeBounded == Len(Lines(dlq)) <= DlqMax - 1 + Cardinality(Appenders)

(* Replaying never stores an observation twice, although a POST, original  *)
(* or replayed, may be committed after its client gave up, and a crash may *)
(* undo the record's removal.                                              *)
NoDuplicateRows == \A o \in Obs : rows[o] <= 1

(* A record leaves the file as delivered only if the server has it, or     *)
(* answers 409 for want of a Location: those are lost without a trace.     *)
DeliveredIsStored ==
  \A o \in Obs : fate[o] = "delivered" => rows[o] > 0 \/ o \in Unlocated

(* Records of a healthy target leave the file sooner or later.             *)
Drains ==
  \A o \in Obs : (TargetOf[o] \in Healthy /\ o \notin Unusable) =>
    (fate[o] = "queued" ~> (fate[o] # "queued" \/ o \in exposed))

(* Records that a pass may try in vain: an open breaker lets one pass by   *)
(* after each cooldown, and replay reports no failure to it.               *)
InVain == {o \in Queued : TargetOf[o] \notin Healthy}

(* They starve nobody as long as they do not use up the attempts of a      *)
(* pass, however the breakers open and close.                              *)
DrainsWithinLimit == <>[](Cardinality(InVain) < MaxLines) => Drains

-----------------------------------------------------------------------------
(* What the code's comments and documents say, checked by the expected     *)
(* violations.                                                             *)

(* main.py: "failed observations are safely in the DLQ".  No record that   *)
(* was written is ever missing.                                            *)
FailedAreSafe == \A o \in Obs : ~Missing(o)

(* sensorthings_client.py 1838: "409 Conflict = duplicate observation      *)
(* (already delivered)".                                                   *)
ConflictIsDuplicate == \A o \in Obs : fate[o] = "delivered" => rows[o] > 0
=============================================================================
