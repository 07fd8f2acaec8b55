------------------------------ MODULE MCPallet ------------------------------
(***************************************************************************)
(* Instances of the operational chain for TLC: the callers' inputs, good   *)
(* and bad, and two batches.                                               *)
(***************************************************************************)
EXTENDS PalletProperties

Sensor == <<1>>
Tracker == <<2>>
SensorKey == 101
TrackerKey == 102
Farm == <<7>>

\* A signature over message by the holder of key.
Sign(key, message) == [key |-> key, message |-> message]
Unsigned == Sign(0, <<>>)

SignCredential(key, cred) ==
    [cred EXCEPT !.signature = Sign(key, EncodeCredentialMessage(cred))]
SignEvent(key, event) ==
    [event EXCEPT !.signature = Sign(key, EncodeEventMessage(event))]

Credential(id, key, producer, metadata) ==
    [device_id |-> id, public_key |-> key, producer |-> producer,
     metadata |-> metadata, signature |-> Unsigned]
Reading(id, timestamp, event_type, payload) ==
    [device_id |-> id, timestamp |-> timestamp, event_type |-> event_type,
     payload |-> payload, signature |-> Unsigned]

SensorCredential ==
    SignCredential(SensorKey, Credential(Sensor, SensorKey, Farm, <<>>))
\* The sensor's id with the tracker's key: legal, but only one of the two can
\* be registered.
RivalCredential ==
    SignCredential(TrackerKey, Credential(Sensor, TrackerKey, Farm, <<>>))
TrackerCredential ==
    SignCredential(TrackerKey, Credential(Tracker, TrackerKey, Farm, <<8>>))

MalformedCredentials ==
    {SignCredential(SensorKey, Credential(Tracker, TrackerKey, Farm, <<>>)),
     SignCredential(SensorKey, Credential(<<>>, SensorKey, Farm, <<>>)),
     SignCredential(SensorKey, Credential(Sensor, SensorKey, <<>>, <<>>)),
     SignCredential(SensorKey, Credential(Sensor, SensorKey, Farm, <<8, 8>>))}

SensorReading(timestamp) ==
    SignEvent(SensorKey, Reading(Sensor, timestamp, "Temperature", <<5>>))
TrackerReading ==
    SignEvent(TrackerKey, Reading(Tracker, 2, "GPS", <<6>>))

\* The first reading with its time moved and its signature kept.
RestampedReading == [SensorReading(1) EXCEPT !.timestamp = 2]
\* A reading in the sensor's name that the tracker's key signed.
ForeignReading ==
    SignEvent(TrackerKey, Reading(Sensor, 2, "Humidity", <<5>>))

MalformedReadings ==
    {SignEvent(SensorKey, Reading(Sensor, 0, "Temperature", <<5>>)),
     SignEvent(SensorKey, Reading(<<>>, 1, "Temperature", <<5>>)),
     SignEvent(SensorKey, Reading(Sensor, 1, "Temperature", <<5, 5>>))}

IngestCredentials ==
    {SensorCredential, RivalCredential, TrackerCredential}
        \cup MalformedCredentials
IngestEvents ==
    {SensorReading(1), SensorReading(3), TrackerReading, RestampedReading,
     ForeignReading} \cup MalformedReadings

OneBatch == {<<11>>}
TwoBatches == {<<11>>, <<12>>}
NoInput == {}
TwoRoles == {"Producer", "Regulator"}
\* A role that may transfer, the one that may inspect, and one that may neither.
EachKindOfRole == {"Producer", "Regulator", "Consumer"}
=============================================================================
