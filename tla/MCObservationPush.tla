------------------------- MODULE MCObservationPush -------------------------
(* Instances of ObservationPush for TLC.                                   *)
EXTENDS ObservationPush

CONSTANTS c1, c2

(* Two readings, and so two chunks of one, in the first cycle, beside a    *)
(* second cycle; and a cycle alone.                                        *)
TwoBatches == [c \in Cycles |-> IF c = c1 THEN {1, 2} ELSE {3}]
OneBatch   == [c \in Cycles |-> {1, 2}]
=============================================================================
