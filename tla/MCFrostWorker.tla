--------------------------- MODULE MCFrostWorker ---------------------------
(* Instances of FrostWorker for TLC.                                       *)
EXTENDS FrostWorker

CONSTANTS b1, b2, b3, p1, p2

(* One batch larger than the coalescing cap of two.                        *)
Sizes == [b \in Batches |-> IF b = b1 THEN 3 ELSE 1]
=============================================================================
