-------------------------- MODULE MCCircuitBreaker --------------------------
(* Instances of CircuitBreaker for TLC.                                    *)
EXTENDS CircuitBreaker, TLC

CONSTANTS t1, p1, p2, p3, r1

(* One target behind a matching override that only sets the threshold,     *)
(* after an override that matches another host.                            *)
OneTargetOverrides ==
  << [matches |-> {},   failure_threshold |-> 9, cooldown_seconds |-> 9],
     [matches |-> {t1}, failure_threshold |-> 2, cooldown_seconds |-> Unset],
     [matches |-> {t1}, failure_threshold |-> 1, cooldown_seconds |-> 7] >>

NoOverrides == <<>>
=============================================================================
