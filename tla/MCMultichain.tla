---------------------------- MODULE MCMultichain ----------------------------
(***************************************************************************)
(* Both chains for TLC: one sensor with two readings, the first of them    *)
(* fresh at time 1 and the second at time 2, each of which may be          *)
(* processed again then, so that a window can hold several, be refused for *)
(* itself or for an earlier one, and follow a gap; and a batch, whose      *)
(* custody events come between readings.                                   *)
(***************************************************************************)
EXTENDS MultichainTraceability

Sensor == <<1>>
SensorKey == 101

MCCredentials ==
    LET cred == [device_id |-> Sensor, public_key |-> SensorKey,
                 producer |-> <<7>>, metadata |-> <<8>>]
    IN {[device_id |-> Sensor, public_key |-> SensorKey, producer |-> <<7>>,
         metadata |-> <<8>>,
         signature |-> [key |-> SensorKey,
                        message |-> EncodeCredentialMessage(cred)]]}

\* The number is the time of the reading and its payload.
Reading(number) ==
    LET event == [device_id |-> Sensor, timestamp |-> number,
                  event_type |-> "Temperature", payload |-> <<number>>]
    IN [device_id |-> Sensor, timestamp |-> number, event_type |-> "Temperature",
        payload |-> <<number>>,
        signature |-> [key |-> SensorKey, message |-> EncodeEventMessage(event)]]

MCEvents == {Reading(number) : number \in 1 .. 2}
MCBatches == {<<11>>}
MCRoles == {"Producer"}
=============================================================================
