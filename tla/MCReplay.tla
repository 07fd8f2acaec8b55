------------------------------ MODULE MCReplay ------------------------------
(***************************************************************************)
(* One farm sensor with its registered key and two of its readings.        *)
(***************************************************************************)
EXTENDS WorkloadReplay

Sensor == <<1>>
SensorKey == 101

MCCredentials ==
    LET cred == [device_id |-> Sensor, public_key |-> SensorKey,
                 producer |-> <<7>>, metadata |-> <<8>>]
    IN {[device_id |-> Sensor, public_key |-> SensorKey, producer |-> <<7>>,
         metadata |-> <<8>>,
         signature |-> [key |-> SensorKey,
                        message |-> EncodeCredentialMessage(cred)]]}

MCEvents ==
    {SignEvent(SensorKey, Sensor, timestamp, "Temperature", <<5>>) :
        timestamp \in {10, 11}}

NoBatch == {}
=============================================================================
