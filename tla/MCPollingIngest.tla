-------------------------- MODULE MCPollingIngest ---------------------------
(* Instances of PollingIngest for TLC: a sensor of each source, of Samen   *)
(* Meten a raw and a calibrated one.                                       *)
EXTENDS PollingIngest

CONSTANTS s1, s2

OneSensor    == [k \in AllKinds |-> {s1}]
RawAndCalib  == [k \in AllKinds |-> IF k = "samen_meten" THEN {s1, s2} ELSE {s1}]
OneKey       == [s \in {s1, s2} |-> s1]

(* Rows, and rows without a value: one of these is a full page of Samen    *)
(* Meten, or a full answer of Levellog.                                    *)
Rows2Or3 ==
  [k \in AllKinds |->
    [s \in {s1, s2} |-> IF k \notin {"samen_meten", "levellog"} THEN 3
                        ELSE IF s = s1 THEN 2 ELSE 1]]
OneBlank ==
  [k \in AllKinds |-> IF k \in {"samen_meten", "levellog"} THEN 1 ELSE 0]

(* One restart, but of the source with two sensors.                        *)
OneRestart == [k \in AllKinds |-> IF k = "samen_meten" THEN 0 ELSE 1]
=============================================================================
