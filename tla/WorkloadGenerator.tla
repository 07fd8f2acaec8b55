-------------------------- MODULE WorkloadGenerator --------------------------
(***************************************************************************)
(* generate_scenario.py: the agricultural workload.  The program sets up   *)
(* five devices, emits their signed readings in three loops, records two   *)
(* custody transfers, counts, anchors and prices what it made.  One        *)
(* iteration of a loop is an action; the intervals are the code's.         *)
(*                                                                         *)
(* The jitter of a value is left out, a coordinate is the index i of its   *)
(* progress i / TRANSPORT_GPS_INTERVALS, and a signing key is its seed.    *)
(*                                                                         *)
(* An operator commented "Fault:" is a faulty variant of the operator that *)
(* follows the faults; the specification does not use it.                  *)
(***************************************************************************)
EXTENDS Integers, SequencesExt, AnalyticalModel

CONSTANTS
    seed,                               \* --seed
    StartTimes,                         \* what --start-time can be
    FIVE_MINUTES_SECONDS, FIFTEEN_MINUTES_SECONDS,
    FARM_INTERVALS, TRANSPORT_TEMPERATURE_INTERVALS, TRANSPORT_GPS_INTERVALS

VARIABLES
    pc,                 \* the loop or step that runs
    start_time,
    devices,
    credentials,
    i,                  \* the index of the loop
    farm_phase,         \* events of the scenario, in the order of the file
    transport_phase,
    custody_transfers,
    summary,
    output              \* the reconciliation record and the costs, once saved

vars == <<pc, start_time, devices, credentials, i, farm_phase,
          transport_phase, custody_transfers, summary, output>>

ASSUME WorkloadAssumption ==
    /\ StartTimes \subseteq Nat
    /\ {FIVE_MINUTES_SECONDS, FIFTEEN_MINUTES_SECONDS, FARM_INTERVALS,
        TRANSPORT_TEMPERATURE_INTERVALS, TRANSPORT_GPS_INTERVALS}
           \subseteq Nat \ {0}

Nothing == <<>>
Hours(n) == n * 3600

-----------------------------------------------------------------------------
(* Devices.                                                                *)

\* _make_device with _device_key_seed: a key for each seed and device id.
MakeDevice(device_id, device_type, location, owner) ==
    [device_id |-> device_id, device_type |-> device_type,
     location |-> location, owner |-> owner,
     signing_key |-> <<seed, device_id>>]

\* setup_devices
SetupDevices ==
    <<MakeDevice("farm-temp-001", "temperature_sensor", "Farm Cold Storage",
                 "Producer"),
      MakeDevice("farm-temp-002", "temperature_sensor", "Farm Packaging Area",
                 "Producer"),
      MakeDevice("farm-humid-001", "humidity_sensor", "Farm Cold Storage",
                 "Producer"),
      MakeDevice("truck-temp-001", "temperature_sensor", "Refrigerated Truck",
                 "Logistics"),
      MakeDevice("truck-gps-001", "gps_tracker", "Refrigerated Truck",
                 "Logistics")>>

\* "sensor" in self.device_type
IsSensor(device_type) == device_type \in {"temperature_sensor", "humidity_sensor"}

\* Fault: every device claims to be a sensor.
CapabilitiesOfSensor(device) == {"Temperature", "Humidity"}

Capabilities(device) ==
    IF IsSensor(device.device_type) THEN {"Temperature", "Humidity"} ELSE {"GPS"}

\* get_credential: the signature covers the id, the key, the owner and the
\* metadata.
GetCredential(device) ==
    [device_id |-> device.device_id, public_key |-> device.signing_key,
     producer |-> device.owner, capabilities |-> Capabilities(device),
     signature |->
         [key |-> device.signing_key,
          text |-> <<device.device_id, device.signing_key, device.owner,
                     Capabilities(device)>>]]

\* _sign_event
SignEvent(device, timestamp, event_type, payload) ==
    [device_id |-> device.device_id, timestamp |-> timestamp,
     event_type |-> event_type, payload |-> payload,
     signature |->
         [key |-> device.signing_key,
          text |-> <<device.device_id, timestamp, event_type, payload>>]]

TemperatureEvent(device, timestamp) ==
    SignEvent(device, timestamp, "Temperature", [location |-> device.location])

HumidityEvent(device, timestamp) ==
    SignEvent(device, timestamp, "Humidity", [location |-> device.location])

GpsEvent(device, timestamp, progress) ==
    SignEvent(device, timestamp, "GPS", [progress |-> progress])

-----------------------------------------------------------------------------
(* The scenario.                                                           *)

all_events == farm_phase \o transport_phase

Init ==
    /\ pc = "setup"
    /\ start_time \in StartTimes
    /\ devices = <<>>
    /\ credentials = <<>>
    /\ i = 0
    /\ farm_phase = <<>>
    /\ transport_phase = <<>>
    /\ custody_transfers = <<>>
    /\ summary = Nothing
    /\ output = Nothing

\* setup_devices, then generate_credentials.
Setup ==
    /\ pc = "setup"
    /\ devices' = SetupDevices
    /\ credentials' = [d \in DOMAIN devices' |-> GetCredential(devices'[d])]
    /\ pc' = "farm"
    /\ UNCHANGED <<start_time, i, farm_phase, transport_phase,
                   custody_transfers, summary, output>>

\* The loop named loop has ended: the next one starts.
LoopEnds(loop, intervals, next) ==
    /\ pc = loop
    /\ i = intervals
    /\ i' = 0
    /\ pc' = next
    /\ UNCHANGED <<start_time, devices, credentials, farm_phase,
                   transport_phase, custody_transfers, summary, output>>

\* One iteration of generate_farm_phase: both temperature sensors, then the
\* humidity sensor.
FarmInterval ==
    LET timestamp == start_time + i * FIVE_MINUTES_SECONDS IN
    /\ pc = "farm"
    /\ i < FARM_INTERVALS
    /\ farm_phase' = farm_phase \o
           <<TemperatureEvent(devices[1], timestamp),
             TemperatureEvent(devices[2], timestamp),
             HumidityEvent(devices[3], timestamp)>>
    /\ i' = i + 1
    /\ UNCHANGED <<pc, start_time, devices, credentials, transport_phase,
                   custody_transfers, summary, output>>

\* Fault: the transport begins when the last farm reading is taken.
transportStartEarly == start_time + Hours(24) - FIVE_MINUTES_SECONDS

transport_start == start_time + Hours(24)

\* One iteration of a loop of generate_transport_phase.
TransportInterval(loop, intervals, event) ==
    /\ pc = loop
    /\ i < intervals
    /\ transport_phase' = Append(transport_phase, event)
    /\ i' = i + 1
    /\ UNCHANGED <<pc, start_time, devices, credentials, farm_phase,
                   custody_transfers, summary, output>>

TemperatureInterval ==
    TransportInterval("temperature", TRANSPORT_TEMPERATURE_INTERVALS,
        TemperatureEvent(devices[4], transport_start + i * FIVE_MINUTES_SECONDS))

GpsInterval ==
    TransportInterval("gps", TRANSPORT_GPS_INTERVALS,
        GpsEvent(devices[5], transport_start + i * FIFTEEN_MINUTES_SECONDS, i))

\* generate_custody_transfers
CustodyTransfers ==
    LET Transfer(from, to, hours, state_transition) ==
            [batch_id |-> "batch-lettuce-001", from |-> from, to |-> to,
             timestamp |-> start_time + Hours(hours),
             state_transition |-> state_transition]
    IN <<Transfer("Producer", "Logistics", 24, <<"Packaged", "InTransit">>),
         Transfer("Logistics", "Retailer", 42, <<"InTransit", "Delivered">>)>>

\* Fault: the transfers are added to the readings.
BreakdownWithTransfers ==
    [temperature |-> 792, humidity |-> 288, gps |-> 72,
     total |-> 792 + 288 + 72 + 2]

Breakdown ==
    [temperature |-> 792, humidity |-> 288, gps |-> 72, total |-> 792 + 288 + 72]

\* scenario["summary"]: only the total is counted, the rest is literal.
Summary ==
    [total_events |-> Len(all_events),
     farm_temperature_readings |-> 576, farm_humidity_readings |-> 288,
     transport_temperature_readings |-> 216, transport_gps_readings |-> 72,
     custody_transfers |-> 2, breakdown |-> Breakdown]

\* The end of generate_full_scenario.
Summarize ==
    /\ pc = "summarize"
    /\ custody_transfers' = CustodyTransfers
    /\ summary' = Summary
    /\ pc' = "save"
    /\ UNCHANGED <<start_time, devices, credentials, i, farm_phase,
                   transport_phase, output>>

-----------------------------------------------------------------------------
(* What main adds to the scenario.                                         *)

GovernanceFee == OperationFee(180000, 192)

\* analyze_costs: a custody transfer is charged as a checkpoint.
AnalyzeCosts ==
    [device |-> Len(credentials) * OperationFee(200000, 256),
     event |-> summary.total_events * OperationFee(150000, 128),
     governance |-> 42 * GovernanceFee,
     custody |-> Len(custody_transfers) * GovernanceFee,
     anchoring |-> GasFee(275446)]

reconciled_at == start_time + Hours(42)

Reconciliation ==
    [merkle_root |-> [blake2b |-> all_events], block_range |-> <<1000, 1500>>,
     event_count |-> Len(all_events), timestamp |-> reconciled_at]

Save ==
    /\ pc = "save"
    /\ output' = [reconciliation |-> Reconciliation,
                  cost_analysis |-> AnalyzeCosts]
    /\ pc' = "saved"
    /\ UNCHANGED <<start_time, devices, credentials, i, farm_phase,
                   transport_phase, custody_transfers, summary>>

Next ==
    \/ Setup
    \/ FarmInterval
    \/ LoopEnds("farm", FARM_INTERVALS, "temperature")
    \/ TemperatureInterval
    \/ LoopEnds("temperature", TRANSPORT_TEMPERATURE_INTERVALS, "gps")
    \/ GpsInterval
    \/ LoopEnds("gps", TRANSPORT_GPS_INTERVALS, "summarize")
    \/ Summarize
    \/ Save

Spec == Init /\ [][Next]_vars

-----------------------------------------------------------------------------

Readings == {all_events[k] : k \in DOMAIN all_events}
Saved == pc = "saved"

\* Every reading can be attributed: exactly one credential has its device id,
\* the signature is by the key of that credential, and the credential claims
\* the capability that the reading needs.
CredentialsCoverReadings ==
    \A e \in Readings :
        LET own == {k \in DOMAIN credentials :
                       credentials[k].device_id = e.device_id}
        IN /\ Cardinality(own) = 1
           /\ \A k \in own :
                 /\ credentials[k].public_key = e.signature.key
                 /\ e.event_type \in credentials[k].capabilities

\* Who held the batch at a time: transfers take effect when they are stamped.
HolderAt(time) ==
    IF time < custody_transfers[1].timestamp THEN custody_transfers[1].from
    ELSE IF time < custody_transfers[2].timestamp THEN custody_transfers[1].to
    ELSE custody_transfers[2].to

OwnerOf(event) ==
    (CHOOSE d \in ToSet(devices) : d.device_id = event.device_id).owner

\* The cold chain has no gap and no stranger in it: from the first reading to
\* the hand-over to the retailer there is a temperature every five minutes,
\* always from a device of the party that holds the batch by the custody
\* records, through the change from the farm's sensors to the truck's.
ColdChainUnbroken ==
    custody_transfers # <<>> =>
        {<<e.timestamp, OwnerOf(e)>> :
            e \in {x \in Readings : x.event_type = "Temperature"}}
          = {LET time == start_time + k * FIVE_MINUTES_SECONDS
             IN <<time, HolderAt(time)>> :
                k \in 0 .. Hours(42) \div FIVE_MINUTES_SECONDS - 1}

CountIn(list, event_type) ==
    Cardinality({k \in DOMAIN list : list[k].event_type = event_type})

\* The numbers in the summary, written down by hand, are those of the file.
SummaryIsTrue ==
    Saved =>
        /\ summary.farm_temperature_readings = CountIn(farm_phase, "Temperature")
        /\ summary.farm_humidity_readings = CountIn(farm_phase, "Humidity")
        /\ summary.transport_temperature_readings
               = CountIn(transport_phase, "Temperature")
        /\ summary.transport_gps_readings = CountIn(transport_phase, "GPS")
        /\ summary.breakdown.temperature = CountIn(all_events, "Temperature")
        /\ summary.breakdown.humidity = CountIn(all_events, "Humidity")
        /\ summary.breakdown.gps = CountIn(all_events, "GPS")
        /\ summary.breakdown.total = summary.total_events
        /\ summary.custody_transfers = Len(custody_transfers)
==============================================================================
