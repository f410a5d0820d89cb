--------------------------- MODULE MCKafkaIngest ---------------------------
(* Instances of KafkaIngest for TLC.                                       *)
EXTENDS KafkaIngest

(* A group that has committed before, a new group, or either of them.      *)
NewGroup  == {None}
AnyGroup  == {None, 0}
=============================================================================
