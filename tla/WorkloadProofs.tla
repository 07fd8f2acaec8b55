---------------------------- MODULE WorkloadProofs ----------------------------
(***************************************************************************)
(* The generated scenario for every seed, start time and number of         *)
(* iterations of the three loops: what the file holds, and that its        *)
(* credentials, custody transfers and summary tell the same story.         *)
(***************************************************************************)
EXTENDS WorkloadGenerator, FiniteSetTheorems, TLAPS

-----------------------------------------------------------------------------
(* What has been emitted.                                                  *)

\* What each of the five devices measures.
Measures == <<"Temperature", "Temperature", "Humidity", "Temperature", "GPS">>

Payloads ==
    {[location |-> SetupDevices[d].location] : d \in 1 .. 5}
        \cup {[progress |-> n] : n \in Nat}

Emittable ==
    {SignEvent(SetupDevices[d], timestamp, Measures[d], payload) :
        d \in 1 .. 5, timestamp \in Nat, payload \in Payloads}

\* The iterations of each loop so far.
FarmRounds ==
    IF pc = "setup" THEN 0 ELSE IF pc = "farm" THEN i ELSE FARM_INTERVALS
TemperatureRounds ==
    IF pc \in {"setup", "farm"} THEN 0
    ELSE IF pc = "temperature" THEN i ELSE TRANSPORT_TEMPERATURE_INTERVALS
GpsRounds ==
    IF pc \in {"setup", "farm", "temperature"} THEN 0
    ELSE IF pc = "gps" THEN i ELSE TRANSPORT_GPS_INTERVALS

GeneratorTypes ==
    /\ pc \in {"setup", "farm", "temperature", "gps", "summarize", "save",
               "saved"}
    /\ start_time \in Nat
    /\ i \in Nat
    /\ pc = "setup" => i = 0
    /\ farm_phase \in Seq(Emittable)
    /\ transport_phase \in Seq(Emittable)

\* Devices and credentials are there before the first loop, and stay.
DevicesKnown ==
    pc # "setup" =>
        /\ devices = SetupDevices
        /\ credentials = [d \in 1 .. 5 |-> GetCredential(SetupDevices[d])]

\* Each iteration on the farm has left three readings of its time.
FarmContents ==
    /\ Len(farm_phase) = 3 * FarmRounds
    /\ \A j \in 0 .. FarmRounds - 1 :
          LET timestamp == start_time + j * FIVE_MINUTES_SECONDS IN
          /\ farm_phase[3 * j + 1] = TemperatureEvent(SetupDevices[1], timestamp)
          /\ farm_phase[3 * j + 2] = TemperatureEvent(SetupDevices[2], timestamp)
          /\ farm_phase[3 * j + 3] = HumidityEvent(SetupDevices[3], timestamp)

\* The transport's temperatures come first, then its positions.
TransportContents ==
    /\ Len(transport_phase) = TemperatureRounds + GpsRounds
    /\ \A j \in 0 .. TemperatureRounds - 1 :
          transport_phase[j + 1]
              = TemperatureEvent(SetupDevices[4],
                                 transport_start + j * FIVE_MINUTES_SECONDS)
    /\ \A j \in 0 .. GpsRounds - 1 :
          transport_phase[TemperatureRounds + j + 1]
              = GpsEvent(SetupDevices[5],
                         transport_start + j * FIFTEEN_MINUTES_SECONDS, j)

Counted ==
    /\ CountIn(farm_phase, "Temperature") = 2 * FarmRounds
    /\ CountIn(farm_phase, "Humidity") = FarmRounds
    /\ CountIn(transport_phase, "Temperature") = TemperatureRounds
    /\ CountIn(transport_phase, "GPS") = GpsRounds
    /\ CountIn(all_events, "Temperature") = 2 * FarmRounds + TemperatureRounds
    /\ CountIn(all_events, "Humidity") = FarmRounds
    /\ CountIn(all_events, "GPS") = GpsRounds

\* Transfers and summary are made after the loops, of what these have left.
Concluded ==
    IF pc \in {"save", "saved"}
    THEN custody_transfers = CustodyTransfers /\ summary = Summary
    ELSE custody_transfers = <<>>

GeneratorInv ==
    /\ GeneratorTypes
    /\ DevicesKnown
    /\ FarmContents
    /\ TransportContents
    /\ Counted
    /\ Concluded

-----------------------------------------------------------------------------
(* Devices, and lists of readings.                                         *)

\* Five devices with ids of their own, each able to measure what it does.
LEMMA DeviceFacts ==
    /\ DOMAIN SetupDevices = 1 .. 5
    /\ \A d, k \in 1 .. 5 :
          SetupDevices[d].device_id = SetupDevices[k].device_id => d = k
    /\ \A d \in 1 .. 5 : Measures[d] \in Capabilities(SetupDevices[d])
<1>1. \A d \in 1 .. 5 : d = 1 \/ d = 2 \/ d = 3 \/ d = 4 \/ d = 5
  OBVIOUS
<1>2. DOMAIN SetupDevices = 1 .. 5
  BY DEF SetupDevices
<1>3. /\ SetupDevices[1].device_id = "farm-temp-001"
      /\ SetupDevices[2].device_id = "farm-temp-002"
      /\ SetupDevices[3].device_id = "farm-humid-001"
      /\ SetupDevices[4].device_id = "truck-temp-001"
      /\ SetupDevices[5].device_id = "truck-gps-001"
  BY DEF SetupDevices, MakeDevice
<1>4. \A d, k \in 1 .. 5 :
          SetupDevices[d].device_id = SetupDevices[k].device_id => d = k
  BY <1>1, <1>3
<1>5. /\ \A d \in 1 .. 4 : IsSensor(SetupDevices[d].device_type)
      /\ ~ IsSensor(SetupDevices[5].device_type)
  <2>1. /\ SetupDevices[1].device_type = "temperature_sensor"
        /\ SetupDevices[2].device_type = "temperature_sensor"
        /\ SetupDevices[3].device_type = "humidity_sensor"
        /\ SetupDevices[4].device_type = "temperature_sensor"
        /\ SetupDevices[5].device_type = "gps_tracker"
    BY DEF SetupDevices, MakeDevice
  <2> QED BY <1>1, <2>1 DEF IsSensor
<1>6. \A d \in 1 .. 5 : Measures[d] \in Capabilities(SetupDevices[d])
  BY <1>1, <1>5 DEF Measures, Capabilities
<1> QED BY <1>2, <1>4, <1>6

\* The readings of the three loops are among those that can be emitted.
LEMMA EmittedAreEmittable ==
    ASSUME NEW timestamp \in Nat, NEW progress \in Nat
    PROVE  /\ \A d \in {1, 2, 4} :
                 TemperatureEvent(SetupDevices[d], timestamp) \in Emittable
           /\ HumidityEvent(SetupDevices[3], timestamp) \in Emittable
           /\ GpsEvent(SetupDevices[5], timestamp, progress) \in Emittable
<1>1. /\ \A d \in 1 .. 5 : [location |-> SetupDevices[d].location] \in Payloads
      /\ [progress |-> progress] \in Payloads
  BY DEF Payloads
<1>2. \A d \in 1 .. 5 : \A payload \in Payloads :
          SignEvent(SetupDevices[d], timestamp, Measures[d], payload) \in Emittable
  BY DEF Emittable
<1>3. /\ \A d \in {1, 2, 4} : d \in 1 .. 5 /\ Measures[d] = "Temperature"
      /\ Measures[3] = "Humidity" /\ Measures[5] = "GPS"
  BY DEF Measures
<1>4. \A d \in {1, 2, 4} :
          TemperatureEvent(SetupDevices[d], timestamp) \in Emittable
  BY <1>1, <1>2, <1>3 DEF TemperatureEvent
<1>5. HumidityEvent(SetupDevices[3], timestamp) \in Emittable
  <2>1. 3 \in 1 .. 5
    OBVIOUS
  <2> QED BY <1>1, <1>2, <1>3, <2>1 DEF HumidityEvent
<1>6. GpsEvent(SetupDevices[5], timestamp, progress) \in Emittable
  <2>1. 5 \in 1 .. 5
    OBVIOUS
  <2> QED BY <1>1, <1>2, <1>3, <2>1 DEF GpsEvent
<1> QED BY <1>4, <1>5, <1>6

LEMMA EventTypes ==
    ASSUME NEW device, NEW timestamp, NEW progress
    PROVE  /\ TemperatureEvent(device, timestamp).event_type = "Temperature"
           /\ HumidityEvent(device, timestamp).event_type = "Humidity"
           /\ GpsEvent(device, timestamp, progress).event_type = "GPS"
           /\ TemperatureEvent(device, timestamp).timestamp = timestamp
           /\ TemperatureEvent(device, timestamp).device_id = device.device_id
BY DEF TemperatureEvent, HumidityEvent, GpsEvent, SignEvent

\* One more reading counts for its own type.
LEMMA CountAppend ==
    ASSUME NEW S, NEW list \in Seq(S), NEW event \in S, NEW event_type
    PROVE  /\ CountIn(list, event_type) \in Nat
           /\ CountIn(Append(list, event), event_type)
                  = IF event.event_type = event_type
                    THEN CountIn(list, event_type) + 1
                    ELSE CountIn(list, event_type)
<1> DEFINE Of(l) == {k \in DOMAIN l : l[k].event_type = event_type}
           N == Len(list)
<1>1. /\ N \in Nat /\ DOMAIN list = 1 .. N
      /\ DOMAIN Append(list, event) = 1 .. N + 1
      /\ \A k \in 1 .. N : Append(list, event)[k] = list[k]
      /\ Append(list, event)[N + 1] = event
  OBVIOUS
<1>2. Of(Append(list, event)) = IF event.event_type = event_type
                                THEN Of(list) \cup {N + 1} ELSE Of(list)
  <2> DEFINE longer == Append(list, event)
  <2>1. \A k : k \in 1 .. N + 1 <=> k \in 1 .. N \/ k = N + 1
    BY <1>1
  <2>2. /\ DOMAIN longer = 1 .. N + 1 /\ longer[N + 1] = event
        /\ \A k \in 1 .. N : longer[k] = list[k]
    BY <1>1
  <2> HIDE DEF N, longer
  <2>3. CASE event.event_type = event_type
    <3>1. \A k : k \in Of(longer) <=> k \in Of(list) \/ k = N + 1
      BY <1>1, <2>1, <2>2, <2>3
    <3>2. Of(longer) = Of(list) \cup {N + 1}
      BY <3>1
    <3> QED BY <2>3, <3>2 DEF longer
  <2>4. CASE event.event_type # event_type
    <3>1. \A k : k \in Of(longer) <=> k \in Of(list)
      BY <1>1, <2>1, <2>2, <2>4
    <3>2. Of(longer) = Of(list)
      BY <3>1
    <3> QED BY <2>4, <3>2 DEF longer
  <2> QED BY <2>3, <2>4
<1>3. IsFiniteSet(Of(list)) /\ N + 1 \notin Of(list)
  <2>1. IsFiniteSet(1 .. N)
    BY <1>1, FS_Interval
  <2>2. Of(list) \subseteq 1 .. N
    BY <1>1
  <2> QED BY <1>1, <2>1, <2>2, FS_Subset
<1> HIDE DEF Of, N
<1>4. /\ CountIn(list, event_type) = Cardinality(Of(list))
      /\ CountIn(Append(list, event), event_type)
             = Cardinality(Of(Append(list, event)))
  BY DEF CountIn, Of
<1>5. Cardinality(Of(list)) \in Nat
  BY <1>3, FS_CardinalityType
<1>6. CASE event.event_type = event_type
  <2>1. Cardinality(Of(list) \cup {N + 1}) = Cardinality(Of(list)) + 1
    BY <1>3, FS_AddElement
  <2> QED BY <1>2, <1>4, <1>5, <1>6, <2>1
<1>7. CASE event.event_type # event_type
  BY <1>2, <1>4, <1>5, <1>7
<1> QED BY <1>6, <1>7

LEMMA CountNone ==
    ASSUME NEW event_type
    PROVE  CountIn(<<>>, event_type) = 0
<1>1. {k \in DOMAIN <<>> : <<>>[k].event_type = event_type} = {}
  OBVIOUS
<1> QED BY <1>1, FS_EmptySet DEF CountIn

\* Three readings at once, one after the other.
LEMMA ConcatThree ==
    ASSUME NEW S, NEW list \in Seq(S), NEW a \in S, NEW b \in S, NEW c \in S
    PROVE  list \o <<a, b, c>> = Append(Append(Append(list, a), b), c)
<1> DEFINE longer == Append(Append(Append(list, a), b), c)
           N == Len(list)
<1>1. N \in Nat /\ list \in [1 .. N -> S]
  OBVIOUS
<1>2. /\ longer \in Seq(S) /\ Len(longer) = N + 3
      /\ \A k \in 1 .. N : longer[k] = list[k]
      /\ longer[N + 1] = a /\ longer[N + 2] = b /\ longer[N + 3] = c
  <2>1. Append(list, a) \in Seq(S) /\ Append(Append(list, a), b) \in Seq(S)
    OBVIOUS
  <2> QED BY <2>1
<1>3. /\ list \o <<a, b, c>> \in Seq(S) /\ Len(list \o <<a, b, c>>) = N + 3
      /\ \A k \in 1 .. N : (list \o <<a, b, c>>)[k] = list[k]
      /\ (list \o <<a, b, c>>)[N + 1] = a
      /\ (list \o <<a, b, c>>)[N + 2] = b
      /\ (list \o <<a, b, c>>)[N + 3] = c
  <2>1. <<a, b, c>> \in Seq(S) /\ Len(<<a, b, c>>) = 3
    OBVIOUS
  <2>2. <<a, b, c>>[1] = a /\ <<a, b, c>>[2] = b /\ <<a, b, c>>[3] = c
    OBVIOUS
  <2> QED BY <2>1, <2>2
<1> DEFINE other == list \o <<a, b, c>>
<1>4. /\ other \in Seq(S) /\ Len(other) = N + 3
      /\ longer \in Seq(S) /\ Len(longer) = N + 3
  BY <1>2, <1>3
<1>5. \A k \in 1 .. N + 3 : k \in 1 .. N \/ k = N + 1 \/ k = N + 2 \/ k = N + 3
  BY <1>1
<1>6. \A k \in 1 .. N + 3 : other[k] = longer[k]
  BY <1>2, <1>3, <1>5
<1> HIDE DEF other, longer
<1>7. other = longer
  BY <1>4, <1>6
<1> QED BY <1>7 DEF other, longer

-----------------------------------------------------------------------------
(* The steps.                                                              *)

LEMMA InitGeneratorInv == Init => GeneratorInv
<1> SUFFICES ASSUME Init PROVE GeneratorInv
  OBVIOUS
<1>1. GeneratorTypes /\ DevicesKnown /\ Concluded
  BY WorkloadAssumption DEF Init, GeneratorTypes, DevicesKnown, Concluded
<1>2. FarmRounds = 0 /\ TemperatureRounds = 0 /\ GpsRounds = 0
  BY DEF Init, FarmRounds, TemperatureRounds, GpsRounds
<1>3. FarmContents /\ TransportContents
  BY <1>2 DEF Init, FarmContents, TransportContents
<1>4. all_events = <<>>
  BY DEF Init, all_events
<1>5. Counted
  BY <1>2, <1>4, CountNone DEF Init, Counted
<1> QED BY <1>1, <1>3, <1>5 DEF GeneratorInv

\* A step that emits nothing and ends no iteration.
LEMMA QuietStep ==
    ASSUME GeneratorInv,
           UNCHANGED <<start_time, devices, credentials, farm_phase,
                       transport_phase>>,
           pc # "setup",
           i' \in Nat,
           pc' \in {"farm", "temperature", "gps", "summarize", "save", "saved"},
           FarmRounds' = FarmRounds, TemperatureRounds' = TemperatureRounds,
           GpsRounds' = GpsRounds,
           Concluded'
    PROVE  GeneratorInv'
<1>1. GeneratorTypes' /\ DevicesKnown'
  BY DEF GeneratorInv, GeneratorTypes, DevicesKnown
<1>2. FarmContents' /\ TransportContents'
  BY DEF GeneratorInv, FarmContents, TransportContents, transport_start
<1>3. Counted'
  BY DEF GeneratorInv, Counted, all_events
<1> QED BY <1>1, <1>2, <1>3 DEF GeneratorInv

LEMMA SetupInv ==
    ASSUME GeneratorInv, Setup
    PROVE  GeneratorInv'
<1>1. /\ pc = "setup" /\ pc' = "farm" /\ i' = i /\ i = 0
      /\ UNCHANGED <<start_time, farm_phase, transport_phase,
                     custody_transfers>>
  BY DEF Setup, GeneratorInv, GeneratorTypes
<1>2. /\ FarmRounds = 0 /\ TemperatureRounds = 0 /\ GpsRounds = 0
      /\ FarmRounds' = 0 /\ TemperatureRounds' = 0 /\ GpsRounds' = 0
  BY <1>1 DEF FarmRounds, TemperatureRounds, GpsRounds
<1>3. GeneratorTypes'
  BY <1>1 DEF GeneratorInv, GeneratorTypes
<1>4. DevicesKnown'
  BY DeviceFacts DEF Setup, DevicesKnown
<1>5. FarmContents' /\ TransportContents'
  BY <1>1, <1>2 DEF GeneratorInv, FarmContents, TransportContents
<1>6. Counted'
  BY <1>1, <1>2 DEF GeneratorInv, Counted, all_events
<1>7. Concluded'
  BY <1>1 DEF GeneratorInv, Concluded
<1> QED BY <1>3, <1>4, <1>5, <1>6, <1>7 DEF GeneratorInv

LEMMA LoopEndsInv ==
    ASSUME GeneratorInv,
           \/ LoopEnds("farm", FARM_INTERVALS, "temperature")
           \/ LoopEnds("temperature", TRANSPORT_TEMPERATURE_INTERVALS, "gps")
           \/ LoopEnds("gps", TRANSPORT_GPS_INTERVALS, "summarize")
    PROVE  GeneratorInv'
<1>1. /\ i' = 0
      /\ UNCHANGED <<start_time, devices, credentials, farm_phase,
                     transport_phase, custody_transfers, summary, output>>
  BY DEF LoopEnds
<1>2. \/ pc = "farm" /\ pc' = "temperature" /\ i = FARM_INTERVALS
      \/ /\ pc = "temperature" /\ pc' = "gps"
         /\ i = TRANSPORT_TEMPERATURE_INTERVALS
      \/ pc = "gps" /\ pc' = "summarize" /\ i = TRANSPORT_GPS_INTERVALS
  BY DEF LoopEnds
<1>3. /\ FarmRounds' = FarmRounds /\ TemperatureRounds' = TemperatureRounds
      /\ GpsRounds' = GpsRounds
  BY <1>1, <1>2 DEF FarmRounds, TemperatureRounds, GpsRounds
<1>4. Concluded'
  BY <1>1, <1>2 DEF GeneratorInv, Concluded
<1> QED BY <1>1, <1>2, <1>3, <1>4, QuietStep

LEMMA ConclusionInv ==
    ASSUME GeneratorInv, Summarize \/ Save
    PROVE  GeneratorInv'
<1>1. /\ UNCHANGED <<start_time, devices, credentials, i, farm_phase,
                     transport_phase>>
      /\ \/ pc = "summarize" /\ pc' = "save"
         \/ pc = "save" /\ pc' = "saved"
      /\ i' \in Nat
  BY DEF Summarize, Save, GeneratorInv, GeneratorTypes
<1>2. /\ FarmRounds' = FarmRounds /\ TemperatureRounds' = TemperatureRounds
      /\ GpsRounds' = GpsRounds
  BY <1>1 DEF FarmRounds, TemperatureRounds, GpsRounds
<1>3. Summary' = Summary /\ CustodyTransfers' = CustodyTransfers
  BY <1>1 DEF Summary, CustodyTransfers, all_events
<1>4. Concluded'
  BY <1>1, <1>3 DEF Summarize, Save, GeneratorInv, Concluded
<1> QED BY <1>1, <1>2, <1>4, QuietStep

\* A list that grows by one reading keeps what it holds.
LEMMA AppendKeeps ==
    ASSUME NEW S, NEW list \in Seq(S), NEW event \in S
    PROVE  /\ Append(list, event) \in Seq(S)
           /\ Len(list) \in Nat /\ Len(Append(list, event)) = Len(list) + 1
           /\ \A k \in 1 .. Len(list) : Append(list, event)[k] = list[k]
           /\ Append(list, event)[Len(list) + 1] = event
OBVIOUS

LEMMA FarmIntervalInv ==
    ASSUME GeneratorInv, FarmInterval
    PROVE  GeneratorInv'
<1> DEFINE timestamp == start_time + i * FIVE_MINUTES_SECONDS
           a == TemperatureEvent(SetupDevices[1], timestamp)
           b == TemperatureEvent(SetupDevices[2], timestamp)
           c == HumidityEvent(SetupDevices[3], timestamp)
<1>1. /\ pc = "farm" /\ pc' = "farm" /\ i' = i + 1 /\ i \in Nat
      /\ start_time \in Nat /\ farm_phase \in Seq(Emittable)
      /\ farm_phase' = farm_phase \o <<a, b, c>>
      /\ UNCHANGED <<start_time, devices, credentials, transport_phase,
                     custody_transfers, summary, output>>
  BY DEF FarmInterval, GeneratorInv, GeneratorTypes, DevicesKnown
<1>2. /\ FarmRounds = i /\ FarmRounds' = i + 1
      /\ TemperatureRounds = 0 /\ TemperatureRounds' = 0
      /\ GpsRounds = 0 /\ GpsRounds' = 0
  BY <1>1 DEF FarmRounds, TemperatureRounds, GpsRounds
<1>3. timestamp \in Nat /\ a \in Emittable /\ b \in Emittable /\ c \in Emittable
  <2>1. timestamp \in Nat
    BY <1>1, WorkloadAssumption
  <2> HIDE DEF timestamp
  <2> QED BY <2>1, EmittedAreEmittable
<1>4. a.event_type = "Temperature" /\ b.event_type = "Temperature"
      /\ c.event_type = "Humidity"
  <2> HIDE DEF timestamp
  <2> QED BY EventTypes
<1> DEFINE one == Append(farm_phase, a)
           two == Append(one, b)
           three == Append(two, c)
<1> HIDE DEF a, b, c
<1>5. /\ farm_phase' = three /\ one \in Seq(Emittable)
      /\ two \in Seq(Emittable) /\ three \in Seq(Emittable)
  <2>1. one \in Seq(Emittable)
    BY <1>1, <1>3
  <2>2. two \in Seq(Emittable)
    BY <2>1, <1>3
  <2>3. three \in Seq(Emittable)
    BY <2>2, <1>3
  <2> QED BY <1>1, <1>3, <2>1, <2>2, <2>3, ConcatThree
<1>6. GeneratorTypes'
  BY <1>1, <1>5 DEF GeneratorInv, GeneratorTypes
<1>7. DevicesKnown' /\ Concluded'
  BY <1>1 DEF GeneratorInv, DevicesKnown, Concluded
<1>8. Len(farm_phase) = 3 * i
  BY <1>2 DEF GeneratorInv, FarmContents
<1>9. /\ Len(farm_phase') = 3 * i + 3
      /\ \A k \in 1 .. 3 * i : farm_phase'[k] = farm_phase[k]
      /\ farm_phase'[3 * i + 1] = a
      /\ farm_phase'[3 * i + 2] = b
      /\ farm_phase'[3 * i + 3] = c
  <2>1. /\ Len(one) = 3 * i + 1 /\ one[3 * i + 1] = a
        /\ \A k \in 1 .. 3 * i : one[k] = farm_phase[k]
    BY <1>1, <1>3, <1>8, AppendKeeps
  <2>2. /\ Len(two) = 3 * i + 2 /\ two[3 * i + 2] = b
        /\ \A k \in 1 .. 3 * i + 1 : two[k] = one[k]
    <3> HIDE DEF one
    <3>1. Len(two) = (3 * i + 1) + 1 /\ two[(3 * i + 1) + 1] = b
          /\ \A k \in 1 .. 3 * i + 1 : two[k] = one[k]
      BY <1>3, <1>5, <2>1, AppendKeeps
    <3>2. (3 * i + 1) + 1 = 3 * i + 2
      BY <1>1
    <3> QED BY <3>1, <3>2
  <2>3. /\ Len(three) = 3 * i + 3 /\ three[3 * i + 3] = c
        /\ \A k \in 1 .. 3 * i + 2 : three[k] = two[k]
    <3> HIDE DEF one, two
    <3>1. Len(three) = (3 * i + 2) + 1 /\ three[(3 * i + 2) + 1] = c
          /\ \A k \in 1 .. 3 * i + 2 : three[k] = two[k]
      BY <1>3, <1>5, <2>2, AppendKeeps
    <3>2. (3 * i + 2) + 1 = 3 * i + 3
      BY <1>1
    <3> QED BY <3>1, <3>2
  <2>4. /\ 1 .. 3 * i \subseteq 1 .. 3 * i + 1
        /\ 1 .. 3 * i + 1 \subseteq 1 .. 3 * i + 2
        /\ 3 * i + 1 \in 1 .. 3 * i + 1 /\ 3 * i + 2 \in 1 .. 3 * i + 2
    BY <1>1
  <2>5. /\ two[3 * i + 1] = a /\ three[3 * i + 1] = a /\ three[3 * i + 2] = b
        /\ \A k \in 1 .. 3 * i : three[k] = farm_phase[k]
    <3> HIDE DEF one, two, three
    <3> QED BY <2>1, <2>2, <2>3, <2>4
  <2> HIDE DEF one, two, three
  <2> QED BY <1>5, <2>3, <2>5
<1>10. FarmContents'
  <2>1. ASSUME NEW j \in 0 .. i
        PROVE  LET time == start_time' + j * FIVE_MINUTES_SECONDS IN
               /\ farm_phase'[3 * j + 1] = TemperatureEvent(SetupDevices[1], time)
               /\ farm_phase'[3 * j + 2] = TemperatureEvent(SetupDevices[2], time)
               /\ farm_phase'[3 * j + 3] = HumidityEvent(SetupDevices[3], time)
    <3>1. CASE j = i
      BY <1>1, <1>9, <3>1 DEF a, b, c
    <3>2. CASE j # i
      <4>1. j \in 0 .. i - 1
        BY <1>1, <3>2
      <4>2. /\ 3 * j + 1 \in 1 .. 3 * i /\ 3 * j + 2 \in 1 .. 3 * i
            /\ 3 * j + 3 \in 1 .. 3 * i
        BY <1>1, <4>1
      <4> HIDE DEF timestamp
      <4> QED BY <1>1, <1>2, <1>9, <4>1, <4>2 DEF GeneratorInv, FarmContents
    <3> QED BY <3>1, <3>2
  <2>2. Len(farm_phase') = 3 * (i + 1) /\ (i + 1) - 1 = i
    BY <1>1, <1>9
  <2> QED BY <1>2, <2>1, <2>2 DEF FarmContents
<1>11. TransportContents'
  BY <1>1, <1>2 DEF GeneratorInv, TransportContents
<1>12. Counted'
  <2>1. /\ CountIn(farm_phase, "Temperature") = 2 * i
        /\ CountIn(farm_phase, "Humidity") = i
        /\ CountIn(transport_phase, "Temperature") = 0
        /\ CountIn(transport_phase, "GPS") = 0
        /\ CountIn(all_events, "GPS") = 0
    BY <1>2 DEF GeneratorInv, Counted
  <2>2. transport_phase = <<>>
    <3>1. Len(transport_phase) = 0 /\ transport_phase \in Seq(Emittable)
      BY <1>2 DEF GeneratorInv, GeneratorTypes, TransportContents
    <3> QED BY <3>1
  <2>3. all_events = farm_phase /\ all_events' = three
    <3>1. farm_phase \o <<>> = farm_phase
      BY <1>1
    <3>2. three \o <<>> = three
      <4> HIDE DEF three
      <4> QED BY <1>5
    <3>3. transport_phase' = <<>>
      BY <1>1, <2>2
    <3> HIDE DEF three
    <3> QED BY <1>5, <2>2, <3>1, <3>2, <3>3 DEF all_events
  <2>4. \A type \in {"Temperature", "Humidity", "GPS"} :
           /\ CountIn(one, type) = IF type = "Temperature"
                                   THEN CountIn(farm_phase, type) + 1
                                   ELSE CountIn(farm_phase, type)
           /\ CountIn(two, type) = IF type = "Temperature"
                                   THEN CountIn(one, type) + 1
                                   ELSE CountIn(one, type)
           /\ CountIn(three, type) = IF type = "Humidity"
                                     THEN CountIn(two, type) + 1
                                     ELSE CountIn(two, type)
    <3> SUFFICES ASSUME NEW type \in {"Temperature", "Humidity", "GPS"}
                 PROVE  /\ CountIn(one, type)
                              = IF type = "Temperature"
                                THEN CountIn(farm_phase, type) + 1
                                ELSE CountIn(farm_phase, type)
                        /\ CountIn(two, type)
                              = IF type = "Temperature"
                                THEN CountIn(one, type) + 1
                                ELSE CountIn(one, type)
                        /\ CountIn(three, type)
                              = IF type = "Humidity"
                                THEN CountIn(two, type) + 1
                                ELSE CountIn(two, type)
      OBVIOUS
    <3>1. CountIn(one, type) = IF a.event_type = type
                               THEN CountIn(farm_phase, type) + 1
                               ELSE CountIn(farm_phase, type)
      BY <1>1, <1>3, CountAppend
    <3>2. CountIn(two, type) = IF b.event_type = type
                               THEN CountIn(one, type) + 1
                               ELSE CountIn(one, type)
      BY <1>3, <1>5, CountAppend
    <3>3. CountIn(three, type) = IF c.event_type = type
                                 THEN CountIn(two, type) + 1
                                 ELSE CountIn(two, type)
      BY <1>3, <1>5, CountAppend
    <3> HIDE DEF one, two, three
    <3> QED BY <1>4, <3>1, <3>2, <3>3
  <2> HIDE DEF one, two, three
  <2>5. /\ CountIn(three, "Temperature") = 2 * (i + 1)
        /\ CountIn(three, "Humidity") = i + 1
        /\ CountIn(three, "GPS") = 0
    BY <1>1, <2>1, <2>3, <2>4
  <2>6. all_events' = farm_phase'
    BY <1>5, <2>3
  <2>7. CountIn(transport_phase, "Temperature")' = 0
        /\ CountIn(transport_phase, "GPS")' = 0
    BY <1>1, <2>1
  <2>8. /\ CountIn(farm_phase, "Temperature")' = 2 * (i + 1)
        /\ CountIn(farm_phase, "Humidity")' = i + 1
        /\ CountIn(all_events, "Temperature")' = 2 * (i + 1)
        /\ CountIn(all_events, "Humidity")' = i + 1
        /\ CountIn(all_events, "GPS")' = 0
    BY <1>5, <2>3, <2>5
  <2> QED BY <1>1, <1>2, <2>7, <2>8 DEF Counted
<1> QED BY <1>6, <1>7, <1>10, <1>11, <1>12 DEF GeneratorInv

\* A reading of the transport is the last of its phase and of all events.
LEMMA TransportGrows ==
    ASSUME GeneratorInv, NEW event \in Emittable,
           transport_phase' = Append(transport_phase, event),
           farm_phase' = farm_phase
    PROVE  /\ transport_phase' \in Seq(Emittable)
           /\ Len(transport_phase') = Len(transport_phase) + 1
           /\ \A k \in 1 .. Len(transport_phase) :
                 transport_phase'[k] = transport_phase[k]
           /\ transport_phase'[Len(transport_phase) + 1] = event
           /\ \A type \in {"Temperature", "Humidity", "GPS"} :
                 /\ CountIn(farm_phase, type)' = CountIn(farm_phase, type)
                 /\ CountIn(transport_phase, type)'
                       = IF event.event_type = type
                         THEN CountIn(transport_phase, type) + 1
                         ELSE CountIn(transport_phase, type)
                 /\ CountIn(all_events, type)'
                       = IF event.event_type = type
                         THEN CountIn(all_events, type) + 1
                         ELSE CountIn(all_events, type)
<1>1. farm_phase \in Seq(Emittable) /\ transport_phase \in Seq(Emittable)
  BY DEF GeneratorInv, GeneratorTypes
<1>2. /\ transport_phase' \in Seq(Emittable)
      /\ Len(transport_phase') = Len(transport_phase) + 1
      /\ \A k \in 1 .. Len(transport_phase) :
            transport_phase'[k] = transport_phase[k]
      /\ transport_phase'[Len(transport_phase) + 1] = event
  BY <1>1, AppendKeeps
<1>3. /\ all_events \in Seq(Emittable)
      /\ all_events' = Append(all_events, event)
  <2>1. farm_phase \o transport_phase \in Seq(Emittable)
    BY <1>1
  <2>2. farm_phase \o Append(transport_phase, event)
            = Append(farm_phase \o transport_phase, event)
    <3> DEFINE left == farm_phase \o Append(transport_phase, event)
               right == Append(farm_phase \o transport_phase, event)
               F == Len(farm_phase)
               T == Len(transport_phase)
    <3>1. F \in Nat /\ T \in Nat
      BY <1>1
    <3>2. left \in Seq(Emittable) /\ right \in Seq(Emittable)
      BY <1>1
    <3>3. Len(left) = F + T + 1 /\ Len(right) = F + T + 1
      BY <1>1
    <3>4. \A k \in 1 .. F + T + 1 : left[k] = right[k]
      <4> TAKE k \in 1 .. F + T + 1
      <4>1. CASE k \in 1 .. F
        BY <1>1, <4>1
      <4>2. CASE k \in F + 1 .. F + T
        BY <1>1, <4>2
      <4>3. CASE k = F + T + 1
        BY <1>1, <4>3
      <4> QED BY <3>1, <4>1, <4>2, <4>3
    <3> HIDE DEF left, right, F, T
    <3>5. left = right
      BY <3>1, <3>2, <3>3, <3>4
    <3> QED BY <3>5 DEF left, right
  <2> QED BY <2>1, <2>2 DEF all_events
<1>4. ASSUME NEW type \in {"Temperature", "Humidity", "GPS"}
      PROVE  /\ CountIn(farm_phase, type)' = CountIn(farm_phase, type)
             /\ CountIn(transport_phase, type)'
                   = IF event.event_type = type
                     THEN CountIn(transport_phase, type) + 1
                     ELSE CountIn(transport_phase, type)
             /\ CountIn(all_events, type)'
                   = IF event.event_type = type
                     THEN CountIn(all_events, type) + 1
                     ELSE CountIn(all_events, type)
  <2>1. CountIn(Append(transport_phase, event), type)
            = IF event.event_type = type
              THEN CountIn(transport_phase, type) + 1
              ELSE CountIn(transport_phase, type)
    BY <1>1, CountAppend
  <2>2. CountIn(Append(all_events, event), type)
            = IF event.event_type = type
              THEN CountIn(all_events, type) + 1
              ELSE CountIn(all_events, type)
    BY <1>3, CountAppend
  <2> QED BY <1>3, <2>1, <2>2
<1> QED BY <1>2, <1>4

LEMMA TemperatureIntervalInv ==
    ASSUME GeneratorInv, TemperatureInterval
    PROVE  GeneratorInv'
<1> DEFINE timestamp == transport_start + i * FIVE_MINUTES_SECONDS
           event == TemperatureEvent(SetupDevices[4], timestamp)
<1>1. /\ pc = "temperature" /\ pc' = "temperature" /\ i' = i + 1 /\ i \in Nat
      /\ start_time \in Nat
      /\ transport_phase' = Append(transport_phase, event)
      /\ UNCHANGED <<start_time, devices, credentials, farm_phase,
                     custody_transfers, summary, output>>
  BY DEF TemperatureInterval, TransportInterval, GeneratorInv, GeneratorTypes,
         DevicesKnown
<1>2. /\ FarmRounds' = FarmRounds
      /\ TemperatureRounds = i /\ TemperatureRounds' = i + 1
      /\ GpsRounds = 0 /\ GpsRounds' = 0
  BY <1>1 DEF FarmRounds, TemperatureRounds, GpsRounds
<1>3. event \in Emittable /\ event.event_type = "Temperature"
  <2>1. timestamp \in Nat
    <3>1. transport_start \in Nat
      BY <1>1 DEF transport_start, Hours
    <3>2. i * FIVE_MINUTES_SECONDS \in Nat
      BY <1>1, WorkloadAssumption
    <3> QED BY <3>1, <3>2
  <2> HIDE DEF timestamp
  <2>2. i \in Nat
    BY <1>1
  <2>3. event \in Emittable
    BY <2>1, <2>2, EmittedAreEmittable
  <2>4. event.event_type = "Temperature"
    BY EventTypes
  <2> QED BY <2>3, <2>4
<1> HIDE DEF event
<1>4. /\ transport_phase' \in Seq(Emittable)
      /\ Len(transport_phase') = Len(transport_phase) + 1
      /\ \A k \in 1 .. Len(transport_phase) :
            transport_phase'[k] = transport_phase[k]
      /\ transport_phase'[Len(transport_phase) + 1] = event
      /\ \A type \in {"Temperature", "Humidity", "GPS"} :
            /\ CountIn(farm_phase, type)' = CountIn(farm_phase, type)
            /\ CountIn(transport_phase, type)'
                  = IF type = "Temperature"
                    THEN CountIn(transport_phase, type) + 1
                    ELSE CountIn(transport_phase, type)
            /\ CountIn(all_events, type)'
                  = IF type = "Temperature"
                    THEN CountIn(all_events, type) + 1
                    ELSE CountIn(all_events, type)
  BY <1>1, <1>3, TransportGrows
<1>5. GeneratorTypes'
  BY <1>1, <1>4 DEF GeneratorInv, GeneratorTypes
<1>6. DevicesKnown' /\ Concluded'
  BY <1>1 DEF GeneratorInv, DevicesKnown, Concluded
<1>7. FarmContents'
  BY <1>1, <1>2 DEF GeneratorInv, FarmContents
<1>8. TransportContents'
  <2>1. Len(transport_phase) = i /\ transport_start' = transport_start
    BY <1>1, <1>2 DEF GeneratorInv, TransportContents, transport_start
  <2>2. ASSUME NEW j \in 0 .. i
        PROVE  transport_phase'[j + 1]
                   = TemperatureEvent(SetupDevices[4],
                         transport_start + j * FIVE_MINUTES_SECONDS)
    <3>1. CASE j = i
      BY <1>4, <2>1, <3>1 DEF event
    <3>2. CASE j # i
      <4>1. j \in 0 .. i - 1 /\ j + 1 \in 1 .. i
        BY <1>1, <3>2
      <4> QED BY <1>2, <1>4, <2>1, <4>1 DEF GeneratorInv, TransportContents
    <3> QED BY <3>1, <3>2
  <2>3. (i + 1) - 1 = i /\ (i + 1) + 0 = i + 1 /\ 0 .. 0 - 1 = {}
    BY <1>1
  <2> QED BY <1>2, <1>4, <2>1, <2>2, <2>3 DEF TransportContents
<1>9. Counted'
  <2>1. /\ CountIn(transport_phase, "Temperature") = TemperatureRounds
        /\ CountIn(transport_phase, "GPS") = GpsRounds
        /\ CountIn(all_events, "Temperature")
               = 2 * FarmRounds + TemperatureRounds
        /\ CountIn(all_events, "Humidity") = FarmRounds
        /\ CountIn(all_events, "GPS") = GpsRounds
        /\ CountIn(farm_phase, "Temperature") = 2 * FarmRounds
        /\ CountIn(farm_phase, "Humidity") = FarmRounds
        /\ FarmRounds \in Nat
    BY <1>1, WorkloadAssumption DEF GeneratorInv, Counted, FarmRounds
  <2>2. /\ CountIn(farm_phase, "Temperature")' = 2 * FarmRounds
        /\ CountIn(farm_phase, "Humidity")' = FarmRounds
        /\ CountIn(all_events, "Humidity")' = FarmRounds
    BY <1>4, <2>1
  <2>3. /\ CountIn(transport_phase, "Temperature")' = i + 1
        /\ CountIn(transport_phase, "GPS")' = 0
    BY <1>1, <1>2, <1>4, <2>1
  <2>4. /\ CountIn(all_events, "Temperature")' = 2 * FarmRounds + (i + 1)
        /\ CountIn(all_events, "GPS")' = 0
    BY <1>1, <1>2, <1>4, <2>1
  <2> QED BY <1>2, <2>2, <2>3, <2>4 DEF Counted
<1> QED BY <1>5, <1>6, <1>7, <1>8, <1>9 DEF GeneratorInv

LEMMA GpsIntervalInv ==
    ASSUME GeneratorInv, GpsInterval
    PROVE  GeneratorInv'
<1> DEFINE timestamp == transport_start + i * FIFTEEN_MINUTES_SECONDS
           event == GpsEvent(SetupDevices[5], timestamp, i)
           T == TRANSPORT_TEMPERATURE_INTERVALS
<1>1. /\ pc = "gps" /\ pc' = "gps" /\ i' = i + 1 /\ i \in Nat
      /\ start_time \in Nat /\ T \in Nat
      /\ transport_phase' = Append(transport_phase, event)
      /\ UNCHANGED <<start_time, devices, credentials, farm_phase,
                     custody_transfers, summary, output>>
  BY WorkloadAssumption
     DEF GpsInterval, TransportInterval, GeneratorInv, GeneratorTypes,
         DevicesKnown
<1>2. /\ FarmRounds' = FarmRounds
      /\ TemperatureRounds = T /\ TemperatureRounds' = T
      /\ GpsRounds = i /\ GpsRounds' = i + 1
  BY <1>1 DEF FarmRounds, TemperatureRounds, GpsRounds
<1>3. event \in Emittable /\ event.event_type = "GPS"
  <2>1. timestamp \in Nat
    <3>1. transport_start \in Nat
      BY <1>1 DEF transport_start, Hours
    <3>2. i * FIFTEEN_MINUTES_SECONDS \in Nat
      BY <1>1, WorkloadAssumption
    <3> QED BY <3>1, <3>2
  <2> HIDE DEF timestamp
  <2>2. i \in Nat
    BY <1>1
  <2>3. event \in Emittable
    BY <2>1, <2>2, EmittedAreEmittable
  <2>4. event.event_type = "GPS"
    BY EventTypes
  <2> QED BY <2>3, <2>4
<1> HIDE DEF event, T
<1>4. /\ transport_phase' \in Seq(Emittable)
      /\ Len(transport_phase') = Len(transport_phase) + 1
      /\ \A k \in 1 .. Len(transport_phase) :
            transport_phase'[k] = transport_phase[k]
      /\ transport_phase'[Len(transport_phase) + 1] = event
      /\ \A type \in {"Temperature", "Humidity", "GPS"} :
            /\ CountIn(farm_phase, type)' = CountIn(farm_phase, type)
            /\ CountIn(transport_phase, type)'
                  = IF type = "GPS"
                    THEN CountIn(transport_phase, type) + 1
                    ELSE CountIn(transport_phase, type)
            /\ CountIn(all_events, type)'
                  = IF type = "GPS"
                    THEN CountIn(all_events, type) + 1
                    ELSE CountIn(all_events, type)
  BY <1>1, <1>3, TransportGrows
<1>5. GeneratorTypes'
  BY <1>1, <1>4 DEF GeneratorInv, GeneratorTypes
<1>6. DevicesKnown' /\ Concluded'
  BY <1>1 DEF GeneratorInv, DevicesKnown, Concluded
<1>7. FarmContents'
  BY <1>1, <1>2 DEF GeneratorInv, FarmContents
<1>8. TransportContents'
  <2>1. Len(transport_phase) = T + i /\ transport_start' = transport_start
    BY <1>1, <1>2 DEF GeneratorInv, TransportContents, transport_start
  <2>2. ASSUME NEW j \in 0 .. i
        PROVE  transport_phase'[T + j + 1]
                   = GpsEvent(SetupDevices[5],
                         transport_start + j * FIFTEEN_MINUTES_SECONDS, j)
    <3>1. CASE j = i
      BY <1>4, <2>1, <3>1 DEF event
    <3>2. CASE j # i
      <4>1. j \in 0 .. i - 1 /\ T + j + 1 \in 1 .. T + i
        BY <1>1, <3>2
      <4> QED BY <1>2, <1>4, <2>1, <4>1 DEF GeneratorInv, TransportContents
    <3> QED BY <3>1, <3>2
  <2>3. ASSUME NEW j \in 0 .. T - 1
        PROVE  transport_phase'[j + 1]
                   = TemperatureEvent(SetupDevices[4],
                         transport_start + j * FIVE_MINUTES_SECONDS)
    <3>1. j + 1 \in 1 .. T + i
      BY <1>1
    <3> QED BY <1>2, <1>4, <2>1, <3>1 DEF GeneratorInv, TransportContents
  <2>4. (i + 1) - 1 = i /\ (T + i) + 1 = T + (i + 1)
    BY <1>1
  <2> QED BY <1>2, <1>4, <2>1, <2>2, <2>3, <2>4 DEF TransportContents
<1>9. Counted'
  <2>1. /\ CountIn(transport_phase, "Temperature") = TemperatureRounds
        /\ CountIn(transport_phase, "GPS") = GpsRounds
        /\ CountIn(all_events, "Temperature")
               = 2 * FarmRounds + TemperatureRounds
        /\ CountIn(all_events, "Humidity") = FarmRounds
        /\ CountIn(all_events, "GPS") = GpsRounds
        /\ CountIn(farm_phase, "Temperature") = 2 * FarmRounds
        /\ CountIn(farm_phase, "Humidity") = FarmRounds
        /\ FarmRounds \in Nat
    BY <1>1, WorkloadAssumption DEF GeneratorInv, Counted, FarmRounds
  <2>2. /\ CountIn(farm_phase, "Temperature")' = 2 * FarmRounds
        /\ CountIn(farm_phase, "Humidity")' = FarmRounds
        /\ CountIn(all_events, "Humidity")' = FarmRounds
    BY <1>4, <2>1
  <2>3. /\ CountIn(transport_phase, "Temperature")' = T
        /\ CountIn(transport_phase, "GPS")' = i + 1
    BY <1>1, <1>2, <1>4, <2>1
  <2>4. /\ CountIn(all_events, "Temperature")' = 2 * FarmRounds + T
        /\ CountIn(all_events, "GPS")' = i + 1
    BY <1>1, <1>2, <1>4, <2>1
  <2> QED BY <1>2, <2>2, <2>3, <2>4 DEF Counted
<1> QED BY <1>5, <1>6, <1>7, <1>8, <1>9 DEF GeneratorInv

LEMMA NextGeneratorInv == GeneratorInv /\ [Next]_vars => GeneratorInv'
<1> SUFFICES ASSUME GeneratorInv, [Next]_vars PROVE GeneratorInv'
  OBVIOUS
<1>1. CASE UNCHANGED vars
  <2>1. UNCHANGED <<FarmRounds, TemperatureRounds, GpsRounds, all_events,
                    transport_start, CustodyTransfers>>
    BY <1>1 DEF vars, FarmRounds, TemperatureRounds, GpsRounds, all_events,
         transport_start, CustodyTransfers
  <2>2. GeneratorTypes' /\ DevicesKnown'
    BY <1>1 DEF vars, GeneratorInv, GeneratorTypes, DevicesKnown
  <2>3. FarmContents' /\ TransportContents'
    BY <1>1, <2>1 DEF vars, GeneratorInv, FarmContents, TransportContents
  <2>4. Counted'
    BY <1>1, <2>1 DEF vars, GeneratorInv, Counted
  <2>5. Concluded'
    BY <1>1, <2>1 DEF vars, GeneratorInv, Concluded, Summary
  <2> QED BY <2>2, <2>3, <2>4, <2>5 DEF GeneratorInv
<1> QED
  BY <1>1, SetupInv, FarmIntervalInv, LoopEndsInv, TemperatureIntervalInv,
     GpsIntervalInv, ConclusionInv
     DEF Next

LEMMA GeneratorInvariance == Spec => []GeneratorInv
BY InitGeneratorInv, NextGeneratorInv, PTL DEF Spec

-----------------------------------------------------------------------------
(* Readings and credentials.                                               *)

LEMMA ReadingsOfPhases ==
    ASSUME GeneratorInv
    PROVE  /\ Readings = {farm_phase[k] : k \in 1 .. Len(farm_phase)}
                 \cup {transport_phase[k] : k \in 1 .. Len(transport_phase)}
           /\ Readings \subseteq Emittable
           /\ pc = "setup" => Readings = {}
<1> DEFINE F == Len(farm_phase)
           T == Len(transport_phase)
<1>1. /\ farm_phase \in Seq(Emittable) /\ transport_phase \in Seq(Emittable)
      /\ F \in Nat /\ T \in Nat
  BY DEF GeneratorInv, GeneratorTypes
<1>2. /\ DOMAIN all_events = 1 .. F + T
      /\ \A k \in 1 .. F : all_events[k] = farm_phase[k]
      /\ \A k \in 1 .. T : all_events[F + k] = transport_phase[k]
  BY <1>1 DEF all_events
<1>3. /\ \A k \in 1 .. F : farm_phase[k] \in Emittable
      /\ \A k \in 1 .. T : transport_phase[k] \in Emittable
  BY <1>1
<1> HIDE DEF F, T
<1>4. \A k : k \in 1 .. F + T <=>
          k \in 1 .. F \/ \E n \in 1 .. T : k = F + n
  <2>1. ASSUME NEW k \in 1 .. F + T, k \notin 1 .. F
        PROVE  \E n \in 1 .. T : k = F + n
    <3>1. k - F \in 1 .. T /\ k = F + (k - F)
      BY <1>1, <2>1
    <3> QED BY <3>1
  <2>2. ASSUME NEW n \in 1 .. T PROVE F + n \in 1 .. F + T
    BY <1>1
  <2>3. ASSUME NEW k \in 1 .. F PROVE k \in 1 .. F + T
    BY <1>1
  <2> QED BY <2>1, <2>2, <2>3
<1>5. Readings = {farm_phase[k] : k \in 1 .. F}
                     \cup {transport_phase[k] : k \in 1 .. T}
  BY <1>2, <1>4 DEF Readings
<1>6. Readings \subseteq Emittable
  BY <1>3, <1>5
<1>7. ASSUME pc = "setup" PROVE Readings = {}
  <2>1. F = 0 /\ T = 0
    BY <1>7 DEF GeneratorInv, FarmContents, TransportContents, FarmRounds,
         TemperatureRounds, GpsRounds, F, T
  <2> QED BY <1>5, <2>1
<1> QED BY <1>5, <1>6, <1>7 DEF F, T

\* In every state and for any number of iterations, each reading of the file
\* has one credential of its device id, with the key that signed the reading
\* and the capability that the reading needs.
THEOREM CredentialsAlwaysCover == Spec => []CredentialsCoverReadings
<1>1. GeneratorInv => CredentialsCoverReadings
  <2> SUFFICES ASSUME GeneratorInv, NEW e \in Readings
               PROVE  LET own == {k \in DOMAIN credentials :
                                     credentials[k].device_id = e.device_id}
                      IN /\ Cardinality(own) = 1
                         /\ \A k \in own :
                               /\ credentials[k].public_key = e.signature.key
                               /\ e.event_type \in credentials[k].capabilities
    BY DEF CredentialsCoverReadings
  <2>1. e \in Emittable /\ pc # "setup"
    BY ReadingsOfPhases
  <2>2. credentials = [d \in 1 .. 5 |-> GetCredential(SetupDevices[d])]
    BY <2>1 DEF GeneratorInv, DevicesKnown
  <2>3. PICK d \in 1 .. 5, timestamp \in Nat, payload \in Payloads :
            e = SignEvent(SetupDevices[d], timestamp, Measures[d], payload)
    BY <2>1 DEF Emittable
  <2>4. /\ e.device_id = SetupDevices[d].device_id
        /\ e.signature.key = SetupDevices[d].signing_key
        /\ e.event_type = Measures[d]
    BY <2>3 DEF SignEvent
  <2>5. DOMAIN credentials = 1 .. 5
        /\ \A k \in 1 .. 5 :
              /\ credentials[k].device_id = SetupDevices[k].device_id
              /\ credentials[k].public_key = SetupDevices[k].signing_key
              /\ credentials[k].capabilities = Capabilities(SetupDevices[k])
    BY <2>2 DEF GetCredential
  <2>6. {k \in DOMAIN credentials : credentials[k].device_id = e.device_id} = {d}
    BY <2>4, <2>5, DeviceFacts
  <2>7. /\ credentials[d].public_key = e.signature.key
        /\ e.event_type \in credentials[d].capabilities
    BY <2>4, <2>5, DeviceFacts
  <2> QED BY <2>6, <2>7, FS_Singleton
<1> QED BY <1>1, GeneratorInvariance, PTL

-----------------------------------------------------------------------------
(* The cold chain.                                                         *)

\* The farm loop ends at the first hand-over and the loop of the truck's
\* temperatures at the second, as 288 and 216 times five minutes do.
LoopsMeetHandOvers ==
    /\ FARM_INTERVALS * FIVE_MINUTES_SECONDS = Hours(24)
    /\ TRANSPORT_TEMPERATURE_INTERVALS * FIVE_MINUTES_SECONDS
           = Hours(42) - Hours(24)

\* Times are counted in intervals from the start.
LEMMA IntervalsOfDay ==
    ASSUME NEW F \in Nat, NEW T \in Nat, NEW step \in Nat \ {0},
           F * step = Hours(24), T * step = Hours(42) - Hours(24)
    PROVE  /\ Hours(42) \div step = F + T
           /\ \A k \in 0 .. F - 1 : k * step \in Nat /\ k * step < Hours(24)
           /\ \A k \in 0 .. T - 1 :
                 /\ Hours(24) + k * step = (F + k) * step
                 /\ Hours(24) <= (F + k) * step
                 /\ (F + k) * step < Hours(42)
<1>1. Hours(24) = 86400 /\ Hours(42) = 151200
  BY DEF Hours
<1>2. (F + T) * step = 151200
  BY <1>1
<1>3. 151200 \div step = F + T
  <2>1. \A q \in Nat : q * step = 151200 => 151200 \div step = q
    OBVIOUS
  <2>2. F + T \in Nat
    OBVIOUS
  <2> QED BY <1>2, <2>1, <2>2
<1>4. ASSUME NEW k \in 0 .. F - 1
      PROVE  k * step \in Nat /\ k * step < 86400
  <2>1. (F - k) * step >= step
    OBVIOUS
  <2>2. (F - k) * step = F * step - k * step
    OBVIOUS
  <2> QED BY <1>1, <2>1, <2>2
<1>5. ASSUME NEW k \in 0 .. T - 1
      PROVE  /\ 86400 + k * step = (F + k) * step
             /\ 86400 <= (F + k) * step
             /\ (F + k) * step < 151200
  <2>1. (F + k) * step = F * step + k * step /\ k * step \in Nat
    OBVIOUS
  <2>2. (T - k) * step >= step
    OBVIOUS
  <2>3. (T - k) * step = T * step - k * step
    OBVIOUS
  <2> QED BY <1>1, <2>1, <2>2, <2>3
<1> QED BY <1>1, <1>3, <1>4, <1>5

\* Once the loops are done, the temperatures are the farm's two per interval
\* and the truck's one, each with its time and its device.
LEMMA TemperaturesByPhase ==
    ASSUME GeneratorInv, pc \in {"save", "saved"}
    PROVE  \A e :
              e \in Readings /\ e.event_type = "Temperature" <=>
                 \/ \E j \in 0 .. FARM_INTERVALS - 1 : \E d \in {1, 2} :
                       e = TemperatureEvent(SetupDevices[d],
                               start_time + j * FIVE_MINUTES_SECONDS)
                 \/ \E j \in 0 .. TRANSPORT_TEMPERATURE_INTERVALS - 1 :
                       e = TemperatureEvent(SetupDevices[4],
                               transport_start + j * FIVE_MINUTES_SECONDS)
<1> DEFINE F == FARM_INTERVALS
           T == TRANSPORT_TEMPERATURE_INTERVALS
           G == TRANSPORT_GPS_INTERVALS
           OnFarm(e) == \E j \in 0 .. F - 1 : \E d \in {1, 2} :
                            e = TemperatureEvent(SetupDevices[d],
                                    start_time + j * FIVE_MINUTES_SECONDS)
           OnTruck(e) == \E j \in 0 .. T - 1 :
                            e = TemperatureEvent(SetupDevices[4],
                                    transport_start + j * FIVE_MINUTES_SECONDS)
<1>1. F \in Nat /\ T \in Nat /\ G \in Nat
  BY WorkloadAssumption
<1>2. /\ Len(farm_phase) = 3 * F /\ Len(transport_phase) = T + G
      /\ \A j \in 0 .. F - 1 :
            LET timestamp == start_time + j * FIVE_MINUTES_SECONDS IN
            /\ farm_phase[3 * j + 1] = TemperatureEvent(SetupDevices[1], timestamp)
            /\ farm_phase[3 * j + 2] = TemperatureEvent(SetupDevices[2], timestamp)
            /\ farm_phase[3 * j + 3] = HumidityEvent(SetupDevices[3], timestamp)
      /\ \A j \in 0 .. T - 1 :
            transport_phase[j + 1]
                = TemperatureEvent(SetupDevices[4],
                                   transport_start + j * FIVE_MINUTES_SECONDS)
      /\ \A j \in 0 .. G - 1 :
            transport_phase[T + j + 1]
                = GpsEvent(SetupDevices[5],
                           transport_start + j * FIFTEEN_MINUTES_SECONDS, j)
  <2>1. FarmRounds = F /\ TemperatureRounds = T /\ GpsRounds = G
    BY DEF FarmRounds, TemperatureRounds, GpsRounds
  <2> HIDE DEF F, T, G
  <2> QED BY <2>1 DEF GeneratorInv, FarmContents, TransportContents
<1>3. Readings = {farm_phase[k] : k \in 1 .. 3 * F}
                     \cup {transport_phase[k] : k \in 1 .. T + G}
  BY <1>2, ReadingsOfPhases
<1> HIDE DEF F, T, G
<1>4. ASSUME NEW k \in 1 .. 3 * F, farm_phase[k].event_type = "Temperature"
      PROVE  OnFarm(farm_phase[k])
  <2>1. PICK j \in 0 .. F - 1 : k = 3 * j + 1 \/ k = 3 * j + 2 \/ k = 3 * j + 3
    <3> DEFINE q == (k - 1) \div 3
    <3>1. q \in 0 .. F - 1 /\ (k = 3 * q + 1 \/ k = 3 * q + 2 \/ k = 3 * q + 3)
      BY <1>1
    <3> QED BY <3>1
  <2>2. k # 3 * j + 3
    <3>1. HumidityEvent(SetupDevices[3],
                        start_time + j * FIVE_MINUTES_SECONDS).event_type
              = "Humidity"
      BY DEF HumidityEvent, SignEvent
    <3> QED BY <1>2, <1>4, <3>1
  <2> QED BY <1>2, <2>1, <2>2
<1>5. ASSUME NEW k \in 1 .. T + G, transport_phase[k].event_type = "Temperature"
      PROVE  OnTruck(transport_phase[k])
  <2>1. k \in 1 .. T
    <3> SUFFICES ASSUME k \notin 1 .. T PROVE FALSE
      OBVIOUS
    <3>1. PICK j \in 0 .. G - 1 : k = T + j + 1
      <4>1. k - T - 1 \in 0 .. G - 1 /\ k = T + (k - T - 1) + 1
        BY <1>1
      <4> QED BY <4>1
    <3>2. transport_phase[k]
              = GpsEvent(SetupDevices[5],
                         transport_start + j * FIFTEEN_MINUTES_SECONDS, j)
      BY <1>2, <3>1
    <3>3. transport_phase[k].event_type = "GPS"
      BY <3>2 DEF GpsEvent, SignEvent
    <3> QED BY <1>5, <3>3
  <2>2. k - 1 \in 0 .. T - 1 /\ k = (k - 1) + 1
    BY <1>1, <2>1
  <2> QED BY <1>2, <2>2
<1>6. ASSUME NEW e, OnFarm(e)
      PROVE  e \in Readings /\ e.event_type = "Temperature"
  <2>1. PICK j \in 0 .. F - 1, d \in {1, 2} :
            e = TemperatureEvent(SetupDevices[d],
                    start_time + j * FIVE_MINUTES_SECONDS)
    BY <1>6
  <2>2. 3 * j + 1 \in 1 .. 3 * F /\ 3 * j + 2 \in 1 .. 3 * F
    BY <1>1
  <2>3. e = farm_phase[3 * j + 1] \/ e = farm_phase[3 * j + 2]
    BY <1>2, <2>1
  <2>4. e.event_type = "Temperature"
    BY <2>1 DEF TemperatureEvent, SignEvent
  <2> QED BY <1>3, <2>2, <2>3, <2>4
<1>7. ASSUME NEW e, OnTruck(e)
      PROVE  e \in Readings /\ e.event_type = "Temperature"
  <2>1. PICK j \in 0 .. T - 1 :
            e = TemperatureEvent(SetupDevices[4],
                    transport_start + j * FIVE_MINUTES_SECONDS)
    BY <1>7
  <2>2. j + 1 \in 1 .. T + G
    BY <1>1
  <2>3. e = transport_phase[j + 1]
    BY <1>2, <2>1
  <2>4. e.event_type = "Temperature"
    BY <2>1 DEF TemperatureEvent, SignEvent
  <2> QED BY <1>3, <2>2, <2>3, <2>4
<1>8. \A e : e \in Readings /\ e.event_type = "Temperature"
               <=> OnFarm(e) \/ OnTruck(e)
  <2> HIDE DEF OnFarm, OnTruck
  <2> QED BY <1>3, <1>4, <1>5, <1>6, <1>7
<1> QED BY <1>8 DEF F, T

LEMMA OwnerOfDevice ==
    ASSUME devices = SetupDevices, NEW d \in 1 .. 5, NEW timestamp
    PROVE  OwnerOf(TemperatureEvent(SetupDevices[d], timestamp))
               = SetupDevices[d].owner
<1> DEFINE event == TemperatureEvent(SetupDevices[d], timestamp)
<1>1. event.device_id = SetupDevices[d].device_id
  BY DEF TemperatureEvent, SignEvent
<1>2. ToSet(devices) = {SetupDevices[k] : k \in 1 .. 5}
  BY DeviceFacts DEF ToSet
<1> HIDE DEF event
<1>3. \A x \in ToSet(devices) :
          x.device_id = event.device_id <=> x = SetupDevices[d]
  BY <1>1, <1>2, DeviceFacts
<1>4. SetupDevices[d] \in ToSet(devices)
  BY <1>2
<1>5. (CHOOSE x \in ToSet(devices) : x.device_id = event.device_id)
          = SetupDevices[d]
  BY <1>3, <1>4
<1>6. OwnerOf(event) = SetupDevices[d].owner
  BY <1>5 DEF OwnerOf
<1> QED BY <1>6 DEF event

\* When the farm loop ends at the first hand-over and the truck's loop at the
\* second, then for every start time and interval there is a temperature at
\* each interval until the second, and always from the party that holds the
\* batch by the custody records.
THEOREM ColdChainIsUnbroken ==
    LoopsMeetHandOvers => (Spec => []ColdChainUnbroken)
<1> SUFFICES ASSUME LoopsMeetHandOvers
             PROVE  Spec => []ColdChainUnbroken
  OBVIOUS
<1>1. GeneratorInv => ColdChainUnbroken
  <2> SUFFICES ASSUME GeneratorInv, custody_transfers # <<>>
               PROVE  ColdChainUnbroken
    BY DEF ColdChainUnbroken
  <2> DEFINE F == FARM_INTERVALS
             T == TRANSPORT_TEMPERATURE_INTERVALS
             step == FIVE_MINUTES_SECONDS
             At(k) == start_time + k * step
             Farmed == {<<At(k), "Producer">> : k \in 0 .. F - 1}
             Trucked == {<<At(F + k), "Logistics">> : k \in 0 .. T - 1}
             Temperatures == {x \in Readings : x.event_type = "Temperature"}
  <2>1. /\ F \in Nat /\ T \in Nat /\ step \in Nat \ {0} /\ start_time \in Nat
        /\ F * step = Hours(24) /\ T * step = Hours(42) - Hours(24)
    BY WorkloadAssumption
       DEF LoopsMeetHandOvers, GeneratorInv, GeneratorTypes
  <2>2. /\ pc \in {"save", "saved"} /\ custody_transfers = CustodyTransfers
        /\ devices = SetupDevices
    BY DEF GeneratorInv, Concluded, DevicesKnown
  <2> HIDE DEF F, T, step
  <2>3. /\ Hours(42) \div step = F + T
        /\ \A k \in 0 .. F - 1 : k * step \in Nat /\ k * step < Hours(24)
        /\ \A k \in 0 .. T - 1 :
              /\ Hours(24) + k * step = (F + k) * step
              /\ Hours(24) <= (F + k) * step
              /\ (F + k) * step < Hours(42)
    BY <2>1, IntervalsOfDay
  <2>4. /\ Hours(24) \in Nat /\ Hours(42) \in Nat
        /\ \A k \in 0 .. T - 1 : (F + k) * step \in Nat /\ k * step \in Nat
    BY <2>1 DEF Hours
  <2>5. \A time :
            HolderAt(time) = IF time < start_time + Hours(24) THEN "Producer"
                             ELSE IF time < start_time + Hours(42)
                             THEN "Logistics" ELSE "Retailer"
    BY <2>2 DEF HolderAt, CustodyTransfers
  <2>6. {<<e.timestamp, OwnerOf(e)>> : e \in Temperatures} = Farmed \cup Trucked
    <3>1. \A d \in {1, 2, 4} : \A time :
              LET e == TemperatureEvent(SetupDevices[d], time) IN
              <<e.timestamp, OwnerOf(e)>>
                  = <<time, IF d = 4 THEN "Logistics" ELSE "Producer">>
      <4> SUFFICES ASSUME NEW d \in {1, 2, 4}, NEW time
                   PROVE  LET e == TemperatureEvent(SetupDevices[d], time) IN
                          /\ e.timestamp = time
                          /\ OwnerOf(e) = IF d = 4 THEN "Logistics"
                                          ELSE "Producer"
        OBVIOUS
      <4>1. TemperatureEvent(SetupDevices[d], time).timestamp = time
        BY DEF TemperatureEvent, SignEvent
      <4>2. d \in 1 .. 5
        OBVIOUS
      <4>3. OwnerOf(TemperatureEvent(SetupDevices[d], time))
                = SetupDevices[d].owner
        BY <2>2, <4>2, OwnerOfDevice
      <4>4. SetupDevices[d].owner = IF d = 4 THEN "Logistics" ELSE "Producer"
        <5>1. /\ SetupDevices[1].owner = "Producer"
              /\ SetupDevices[2].owner = "Producer"
              /\ SetupDevices[4].owner = "Logistics"
          BY DEF SetupDevices, MakeDevice
        <5>2. d = 1 \/ d = 2 \/ d = 4
          OBVIOUS
        <5> QED BY <5>1, <5>2
      <4> QED BY <4>1, <4>3, <4>4
    <3>2. \A e : e \in Temperatures <=>
              \/ \E j \in 0 .. F - 1 : \E d \in {1, 2} :
                    e = TemperatureEvent(SetupDevices[d], At(j))
              \/ \E j \in 0 .. T - 1 :
                    e = TemperatureEvent(SetupDevices[4],
                                         transport_start + j * step)
      BY <2>2, TemperaturesByPhase DEF F, T, step
    <3>3. \A j \in 0 .. T - 1 : transport_start + j * step = At(F + j)
      <4> TAKE j \in 0 .. T - 1
      <4>1. /\ Hours(24) + j * step = (F + j) * step
            /\ Hours(24) \in Nat /\ j * step \in Nat
        BY <2>3, <2>4
      <4> QED BY <2>1, <4>1 DEF transport_start
    <3> HIDE DEF Temperatures, At
    <3>4. ASSUME NEW e \in Temperatures
          PROVE  <<e.timestamp, OwnerOf(e)>> \in Farmed \cup Trucked
      <4>1. CASE \E j \in 0 .. F - 1 : \E d \in {1, 2} :
                    e = TemperatureEvent(SetupDevices[d], At(j))
        <5>1. PICK j \in 0 .. F - 1, d \in {1, 2} :
                  e = TemperatureEvent(SetupDevices[d], At(j))
          BY <4>1
        <5>2. <<e.timestamp, OwnerOf(e)>> = <<At(j), "Producer">>
          BY <3>1, <5>1
        <5> QED BY <5>2
      <4>2. CASE \E j \in 0 .. T - 1 :
                    e = TemperatureEvent(SetupDevices[4],
                                         transport_start + j * step)
        <5>1. PICK j \in 0 .. T - 1 :
                  e = TemperatureEvent(SetupDevices[4], At(F + j))
          BY <3>3, <4>2
        <5>2. <<e.timestamp, OwnerOf(e)>> = <<At(F + j), "Logistics">>
          BY <3>1, <5>1
        <5> QED BY <5>2
      <4> QED BY <3>2, <4>1, <4>2
    <3>5. ASSUME NEW k \in 0 .. F - 1
          PROVE  \E e \in Temperatures :
                    <<e.timestamp, OwnerOf(e)>> = <<At(k), "Producer">>
      <4>1. TemperatureEvent(SetupDevices[1], At(k)) \in Temperatures
        BY <3>2
      <4> QED BY <3>1, <4>1
    <3>6. ASSUME NEW k \in 0 .. T - 1
          PROVE  \E e \in Temperatures :
                    <<e.timestamp, OwnerOf(e)>> = <<At(F + k), "Logistics">>
      <4>1. TemperatureEvent(SetupDevices[4], At(F + k)) \in Temperatures
        BY <3>2, <3>3
      <4> QED BY <3>1, <4>1
    <3> QED BY <3>4, <3>5, <3>6
  <2>7. {<<At(k), HolderAt(At(k))>> : k \in 0 .. F + T - 1} = Farmed \cup Trucked
    <3>1. ASSUME NEW k \in 0 .. F - 1
          PROVE  HolderAt(At(k)) = "Producer"
      <4>1. At(k) < start_time + Hours(24)
        BY <2>1, <2>3, <2>4
      <4> QED BY <2>5, <4>1
    <3>2. ASSUME NEW k \in 0 .. T - 1
          PROVE  HolderAt(At(F + k)) = "Logistics"
      <4>1. PICK m \in Nat : m = (F + k) * step
        BY <2>4
      <4>2. Hours(24) <= m /\ m < Hours(42) /\ At(F + k) = start_time + m
        BY <2>3, <4>1
      <4>3. /\ ~ (start_time + m < start_time + Hours(24))
            /\ start_time + m < start_time + Hours(42)
        BY <2>1, <2>4, <4>1, <4>2
      <4> HIDE DEF At
      <4> QED BY <2>5, <4>2, <4>3
    <3>3. \A k : k \in 0 .. F + T - 1 <=>
             k \in 0 .. F - 1 \/ \E j \in 0 .. T - 1 : k = F + j
      <4>1. ASSUME NEW k \in 0 .. F + T - 1, k \notin 0 .. F - 1
            PROVE  \E j \in 0 .. T - 1 : k = F + j
        <5>1. k - F \in 0 .. T - 1 /\ k = F + (k - F)
          BY <2>1, <4>1
        <5> QED BY <5>1
      <4>2. ASSUME NEW j \in 0 .. T - 1 PROVE F + j \in 0 .. F + T - 1
        BY <2>1
      <4>3. ASSUME NEW k \in 0 .. F - 1 PROVE k \in 0 .. F + T - 1
        BY <2>1
      <4> QED BY <4>1, <4>2, <4>3
    <3> HIDE DEF At
    <3> QED BY <3>1, <3>2, <3>3
  <2>8. Hours(42) \div FIVE_MINUTES_SECONDS - 1 = F + T - 1
    <3>1. Hours(42) \div step = F + T
      BY <2>3
    <3>2. (F + T) - 1 = F + T - 1 /\ F + T \in Nat
      BY <2>1
    <3> QED BY <3>1, <3>2 DEF step
  <2> QED BY <2>6, <2>7, <2>8 DEF ColdChainUnbroken, step
<1> QED BY <1>1, GeneratorInvariance, PTL

-----------------------------------------------------------------------------
(* The summary.                                                            *)

\* The numbers of iterations in the code.
IntervalsOfTheCode ==
    /\ FARM_INTERVALS = 288
    /\ TRANSPORT_TEMPERATURE_INTERVALS = 216
    /\ TRANSPORT_GPS_INTERVALS = 72

\* With the numbers of iterations that the code has, each literal in the
\* summary of a saved scenario is the number of its readings or transfers in
\* the file, for every seed, start time and length of an interval.
THEOREM SummaryIsAlwaysTrue ==
    IntervalsOfTheCode => (Spec => []SummaryIsTrue)
<1> SUFFICES ASSUME IntervalsOfTheCode
             PROVE  Spec => []SummaryIsTrue
  OBVIOUS
<1>1. GeneratorInv => SummaryIsTrue
  <2> SUFFICES ASSUME GeneratorInv, Saved
               PROVE  SummaryIsTrue
    BY DEF SummaryIsTrue
  <2>1. FarmRounds = 288 /\ TemperatureRounds = 216 /\ GpsRounds = 72
    BY DEF Saved, FarmRounds, TemperatureRounds, GpsRounds, IntervalsOfTheCode
  <2>2. /\ CountIn(farm_phase, "Temperature") = 576
        /\ CountIn(farm_phase, "Humidity") = 288
        /\ CountIn(transport_phase, "Temperature") = 216
        /\ CountIn(transport_phase, "GPS") = 72
        /\ CountIn(all_events, "Temperature") = 792
        /\ CountIn(all_events, "Humidity") = 288
        /\ CountIn(all_events, "GPS") = 72
    BY <2>1 DEF GeneratorInv, Counted
  <2>3. Len(all_events) = 1152
    <3>1. Len(farm_phase) = 864 /\ Len(transport_phase) = 288
      <4>1. /\ Len(farm_phase) = 3 * FarmRounds
            /\ Len(transport_phase) = TemperatureRounds + GpsRounds
        BY DEF GeneratorInv, FarmContents, TransportContents
      <4> QED BY <2>1, <4>1
    <3>2. farm_phase \in Seq(Emittable) /\ transport_phase \in Seq(Emittable)
      BY DEF GeneratorInv, GeneratorTypes
    <3>3. Len(farm_phase \o transport_phase)
              = Len(farm_phase) + Len(transport_phase)
      BY <3>2
    <3> QED BY <3>1, <3>3 DEF all_events
  <2>4. summary = Summary /\ custody_transfers = CustodyTransfers
    BY DEF Saved, GeneratorInv, Concluded
  <2>5. Len(custody_transfers) = 2
    BY <2>4 DEF CustodyTransfers
  <2> QED
    BY <2>2, <2>3, <2>4, <2>5 DEF SummaryIsTrue, Summary, Breakdown
<1> QED BY <1>1, GeneratorInvariance, PTL
===============================================================================
