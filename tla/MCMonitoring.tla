---------------------------- MODULE MCMonitoring ----------------------------
(* Instances of Monitoring for TLC: the harness without a webhook, and a   *)
(* webhook without the harness.                                            *)
EXTENDS Monitoring

CONSTANTS p1

OnePusher == {p1}
EitherOne == {<<TRUE, FALSE>>, <<FALSE, TRUE>>}
=============================================================================
