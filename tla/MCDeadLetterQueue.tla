------------------------- MODULE MCDeadLetterQueue -------------------------
(* Instances of DeadLetterQueue for TLC.                                   *)
EXTENDS DeadLetterQueue, TLC

CONSTANTS o1, o2, o3, up, down, a1, a2, r1, c1

(* The first observation goes to a target in trouble, the others to one    *)
(* that works.                                                             *)
OneBehindDown == [o \in Obs |-> IF o = o1 THEN down ELSE up]
AllUp         == [o \in Obs |-> up]

(* A stock server, which enforces no uniqueness and times out at times;    *)
(* beside it one that may refuse; one that answers 409 at times; one that  *)
(* always works beside one that never does.                                *)
StockReplies  == [t \in Targets |-> {"created", "timeout", "late_commit"}]
MixedReplies  == [t \in Targets |->
                    IF t = up THEN {"created", "timeout", "late_commit"}
                              ELSE {"conflict", "rejected", "busy"}]
ConflictReply == [t \in Targets |-> {"created", "conflict"}]
SplitReplies  == [t \in Targets |-> IF t = up THEN {"created"} ELSE {"busy"}]

Symmetry == Permutations({a1, a2})
=============================================================================
