------------------------- MODULE MCDatastreamLookup --------------------------
(* Instances of DatastreamLookup for TLC: a sensor that the connector      *)
(* registers, and a device with two measurements of one property that      *)
(* somebody else has registered, one of them twice.                        *)
EXTENDS DatastreamLookup, TLC

CONSTANTS t1, t2

OneThread  == {t1}
TwoThreads == {t1, t2}
Symmetry   == Permutations(TwoThreads)

Polled(prop) == [sensor |-> "sensor", prop |-> prop, key |-> "",
                 thing |-> "thing", device |-> ""]
FromKafka(key) == [sensor |-> key, prop |-> "p", key |-> key,
                   thing |-> "station", device |-> "device"]

Registered(i, prop) == [id |-> i, sensor |-> "sensor", prop |-> prop,
                        key |-> prop, thing |-> "thing", device |-> ""]
External(i, key) == [id |-> i, sensor |-> "", prop |-> "p", key |-> key,
                     thing |-> "station", device |-> "device"]

OfDevice    == {FromKafka("k1")}
BothSources == {Polled("q"), FromKafka("k1")}

DeviceStreams == {External(3, "k1"), External(4, "k1"), External(5, "k2")}
AllStreams    == {Registered(2, "q"), External(3, "k1")}

(* They are instances of what is proved.                                   *)
ASSUME DataAssumption == OwnIsNearby /\ OwnIsKeyed /\ KeyedIsOwn
=============================================================================
