------------------------- MODULE TraceabilityPallet -------------------------
(***************************************************************************)
(* The operational chain: the FRAME pallet of substrate-pallet/lib.rs.     *)
(* Its storage items are variables, each of its three extrinsics is an     *)
(* action, and deposited is the history of the runtime events it emitted.  *)
(*                                                                         *)
(* Extrinsics of a block run one after another, so an action is a whole    *)
(* extrinsic.  Its checks are the code's, in the code's order.             *)
(*                                                                         *)
(* Data.  A byte string is a sequence of numbers; a fixed-width encoding   *)
(* (32-byte public key, SCALE u64, one-byte enum index) is one element of  *)
(* it.  An Ed25519 signature is the pair of the key that made it and the   *)
(* message it covers; Blake2-256 is injective.                             *)
(*                                                                         *)
(* An operator commented "Fault:" is a faulty variant of the operator that *)
(* follows it; the specification does not use it.                          *)
(***************************************************************************)
EXTENDS Integers, Sequences, FiniteSets, StorageMap

CONSTANTS
    CredentialInputs,   \* the credentials that callers present
    EventInputs,        \* the signed readings that callers present
    BatchIds,           \* the batch ids that callers name
    Roles,              \* the roles that callers claim
    FreshnessWindow,    \* Config::TimestampFreshnessWindow, in seconds
    MaxMetadataLen,     \* 1024 in the code
    MaxPayloadLen,      \* 512 in the code
    StartTime,          \* the clock when the chain starts
    MaxTime,            \* bound: the clock stops there
    MaxDeposits         \* bound: runtime events ever emitted

VARIABLES
    devices,                \* Devices: device_id -> DeviceRecord
    deviceCount,            \* DeviceCount
    events,                 \* Events: event_hash -> IoTEvent
    eventCount,             \* EventCount
    batches,                \* Batches: batch_id -> BatchState
    governanceCheckpoints,  \* GovernanceCheckpoints
    deposited,              \* runtime events emitted so far, with their time
    now,                    \* TimeProvider::now(), in seconds
    result                  \* DispatchResult of the last extrinsic

storage == <<devices, deviceCount, events, eventCount, batches,
             governanceCheckpoints, deposited>>
vars == <<storage, now, result>>

-----------------------------------------------------------------------------
(* Domain types.                                                           *)

Bytes == Seq(Nat)
Signature == [key : Nat, message : Bytes]

DeviceCredential ==
    [device_id : Bytes, public_key : Nat, producer : Bytes, metadata : Bytes,
     signature : Signature]

DeviceStatus == {"Active", "Suspended", "Revoked"}

DeviceRecord ==
    [device_id : Bytes, public_key : Nat, producer : Bytes, metadata : Bytes,
     registered_at : Nat, status : DeviceStatus]

\* Declaration order gives each variant its SCALE index.
EventTypeIndex ==
    [Temperature |-> 0, Humidity |-> 1, GPS |-> 2, CustodyTransfer |-> 3,
     QualityInspection |-> 4]
EventType == {"Temperature", "Humidity", "GPS", "CustodyTransfer",
              "QualityInspection"}

IoTEvent ==
    [device_id : Bytes, timestamp : Nat, event_type : EventType,
     payload : Bytes, signature : Signature]

BatchState == {"Harvested", "Packaged", "InTransit", "Delivered", "Inspected"}
GovernanceOutcome == {"Approved", "Rejected"}

\* BlakeTwo256::hash_of(&event): the whole event, signature included.
EventHash(event) == [blake2_256 |-> event]
EventHashes == {EventHash(e) : e \in EventInputs}

\* Runtime events.  SignatureVerificationFailed and TimestampStale are
\* declared by the code and never emitted.
RuntimeEvent ==
    [kind : {"DeviceRegistered"}, device_id : Bytes, public_key : Nat,
     producer : Bytes]
    \cup
    [kind : {"EventProcessed"}, device_id : Bytes,
     event_hash : EventHashes,
     event_type : EventType, timestamp : Nat]
    \cup
    [kind : {"GovernanceEvaluated"}, batch_id : BatchIds,
     outcome : GovernanceOutcome, new_state : BatchState]

EventRecord == [at : Nat, event : RuntimeEvent]

Origins == {"Signed", "None"}

DispatchError ==
    {"BadOrigin", "InvalidCredentialSignature", "InvalidCredentialSchema",
     "DeviceNotRegistered", "InvalidEventSignature", "StaleTimestamp",
     "InvalidEventSchema", "DeviceAlreadyRegistered", "PolicyConditionsNotMet",
     "InvalidStateTransition", "DeviceNotActive"}

ASSUME PalletAssumption ==
    /\ CredentialInputs \subseteq DeviceCredential
    /\ EventInputs \subseteq IoTEvent
    /\ FreshnessWindow \in Nat
    /\ MaxMetadataLen \in Nat
    /\ MaxPayloadLen \in Nat
    /\ StartTime \in Nat
    /\ MaxTime \in Nat
    /\ MaxDeposits \in Nat

-----------------------------------------------------------------------------
(* Validation helpers.                                                     *)

ValidateCredentialSchema(cred) ==
    /\ cred.device_id # <<>>
    /\ cred.producer # <<>>
    /\ Len(cred.metadata) <= MaxMetadataLen

ValidateEventSchema(event) ==
    /\ event.device_id # <<>>
    /\ event.timestamp > 0
    /\ Len(event.payload) <= MaxPayloadLen

\* The fields are concatenated with nothing between them.
EncodeCredentialMessage(cred) ==
    cred.device_id \o <<cred.public_key>> \o cred.producer \o cred.metadata

\* Fault: the timestamp is not covered by the signature.
EncodeEventMessageUntimed(event) ==
    event.device_id \o <<EventTypeIndex[event.event_type]>> \o event.payload

EncodeEventMessage(event) ==
    event.device_id \o <<event.timestamp>>
        \o <<EventTypeIndex[event.event_type]>> \o event.payload

\* sp_io::crypto::ed25519_verify, as an ideal signature scheme.
Ed25519Verify(signature, message, public_key) ==
    signature = [key |-> public_key, message |-> message]

\* Fault: the subtraction saturates at zero and replaces both conditions, so
\* that a reading from the future counts as fresh.
SaturatingIsFresh(event) ==
    (IF event.timestamp > now THEN 0 ELSE now - event.timestamp)
        <= FreshnessWindow

\* The first condition keeps the u64 subtraction of the second from wrapping.
IsFresh(event) ==
    /\ event.timestamp <= now
    /\ now - event.timestamp <= FreshnessWindow

-----------------------------------------------------------------------------
(* Effects of a dispatchable.                                              *)

\* Self::deposit_event.
Deposit(event) ==
    /\ Len(deposited) < MaxDeposits
    /\ deposited' = Append(deposited, [at |-> now, event |-> event])

\* Fault: the error is returned and what the call wrote to the checkpoint
\* counter before it stays.
FailKeepingCounter(error) ==
    /\ result' = error
    /\ governanceCheckpoints' = governanceCheckpoints + 1
    /\ UNCHANGED <<devices, deviceCount, events, eventCount, batches,
                   deposited, now>>

\* A dispatchable that returns Err.  FRAME runs it in a storage layer that is
\* thrown away, so what it wrote before the error, runtime events included,
\* is undone.
Fail(error) ==
    /\ result' = error
    /\ UNCHANGED <<storage, now>>

-----------------------------------------------------------------------------
(* Algorithm 1: device onboarding.                                         *)

\* Fault: a known device id is not refused.
OnboardVerdictReusingIds(origin, cred) ==
    IF origin # "Signed" THEN "BadOrigin"
    ELSE IF ~Ed25519Verify(cred.signature, EncodeCredentialMessage(cred),
                           cred.public_key) THEN "InvalidCredentialSignature"
    ELSE IF ~ValidateCredentialSchema(cred) THEN "InvalidCredentialSchema"
    ELSE "Ok"

\* The first check that fails, or Ok.
OnboardVerdict(origin, cred) ==
    IF origin # "Signed" THEN "BadOrigin"
    ELSE IF ~Ed25519Verify(cred.signature, EncodeCredentialMessage(cred),
                           cred.public_key) THEN "InvalidCredentialSignature"
    ELSE IF ~ValidateCredentialSchema(cred) THEN "InvalidCredentialSchema"
    ELSE IF cred.device_id \in DOMAIN devices THEN "DeviceAlreadyRegistered"
    ELSE "Ok"

NewDeviceRecord(cred) ==
    [device_id |-> cred.device_id, public_key |-> cred.public_key,
     producer |-> cred.producer, metadata |-> cred.metadata,
     registered_at |-> now, status |-> "Active"]

OnboardDevice(origin, cred) ==
    LET verdict == OnboardVerdict(origin, cred) IN
    \/ /\ verdict # "Ok"
       /\ Fail(verdict)
    \/ /\ verdict = "Ok"
       /\ devices' = Put(devices, cred.device_id, NewDeviceRecord(cred))
       /\ deviceCount' = deviceCount + 1
       /\ Deposit([kind |-> "DeviceRegistered", device_id |-> cred.device_id,
                   public_key |-> cred.public_key,
                   producer |-> cred.producer])
       /\ result' = "Ok"
       /\ UNCHANGED <<events, eventCount, batches, governanceCheckpoints, now>>

-----------------------------------------------------------------------------
(* Algorithm 2: event admission.                                           *)

\* Fault: the signature is checked against the key that the reading was
\* signed with, not the one its device registered.
EventVerdictAnyKey(origin, event) ==
    IF origin # "Signed" THEN "BadOrigin"
    ELSE IF ~ValidateEventSchema(event) THEN "InvalidEventSchema"
    ELSE IF ~IsFresh(event) THEN "StaleTimestamp"
    ELSE IF event.device_id \notin DOMAIN devices THEN "DeviceNotRegistered"
    ELSE IF devices[event.device_id].status # "Active" THEN "DeviceNotActive"
    ELSE IF ~Ed25519Verify(event.signature, EncodeEventMessage(event),
                           event.signature.key) THEN "InvalidEventSignature"
    ELSE "Ok"

\* The first check that fails, or Ok.
EventVerdict(origin, event) ==
    IF origin # "Signed" THEN "BadOrigin"
    ELSE IF ~ValidateEventSchema(event) THEN "InvalidEventSchema"
    ELSE IF ~IsFresh(event) THEN "StaleTimestamp"
    ELSE IF event.device_id \notin DOMAIN devices THEN "DeviceNotRegistered"
    ELSE IF devices[event.device_id].status # "Active" THEN "DeviceNotActive"
    ELSE IF ~Ed25519Verify(event.signature, EncodeEventMessage(event),
                           devices[event.device_id].public_key)
         THEN "InvalidEventSignature"
    ELSE "Ok"

\* The counter and the runtime event do not depend on whether the hash was
\* already a key of events.
ProcessEvent(origin, event) ==
    LET verdict == EventVerdict(origin, event)
        event_hash == EventHash(event)
    IN
    \/ /\ verdict # "Ok"
       /\ Fail(verdict)
    \/ /\ verdict = "Ok"
       /\ events' = Put(events, event_hash, event)
       /\ eventCount' = eventCount + 1
       /\ Deposit([kind |-> "EventProcessed", device_id |-> event.device_id,
                   event_hash |-> event_hash, event_type |-> event.event_type,
                   timestamp |-> event.timestamp])
       /\ result' = "Ok"
       /\ UNCHANGED <<devices, deviceCount, batches, governanceCheckpoints,
                      now>>

-----------------------------------------------------------------------------
(* Algorithm 3: governance evaluation and the batch state machine.         *)

\* lookup_and_evaluate_policy: the batch's state plays no part in it.
PolicyOutcome(event_type, role) ==
    IF \/ event_type = "CustodyTransfer"
          /\ role \notin {"Producer", "Logistics", "Retailer"}
       \/ event_type = "QualityInspection" /\ role # "Regulator"
    THEN "Rejected" ELSE "Approved"

\* Fault: a second custody transfer delivers the batch.
TransitionsSkippingTransit ==
    {<<"Harvested", "CustodyTransfer", "Packaged">>,
     <<"Packaged", "CustodyTransfer", "Delivered">>,
     <<"InTransit", "CustodyTransfer", "Delivered">>,
     <<"Delivered", "QualityInspection", "Inspected">>}

\* Fault: inspection leads back to the first state.
TransitionsStartingOver ==
    {<<"Harvested", "CustodyTransfer", "Packaged">>,
     <<"Packaged", "CustodyTransfer", "InTransit">>,
     <<"InTransit", "CustodyTransfer", "Delivered">>,
     <<"Delivered", "QualityInspection", "Harvested">>}

\* Fault: an inspected batch can be handed over again.
TransitionsReopening ==
    {<<"Harvested", "CustodyTransfer", "Packaged">>,
     <<"Packaged", "CustodyTransfer", "InTransit">>,
     <<"InTransit", "CustodyTransfer", "Delivered">>,
     <<"Delivered", "QualityInspection", "Inspected">>,
     <<"Delivered", "CustodyTransfer", "InTransit">>}

\* state_transition: <<from, event type, to>>; any other pair is an error.
Transitions ==
    {<<"Harvested", "CustodyTransfer", "Packaged">>,
     <<"Packaged", "CustodyTransfer", "InTransit">>,
     <<"InTransit", "CustodyTransfer", "Delivered">>,
     <<"Delivered", "QualityInspection", "Inspected">>}

\* A batch that was never evaluated counts as harvested.
CurrentState(batch_id) ==
    IF batch_id \in DOMAIN batches THEN batches[batch_id] ELSE "Harvested"

\* Fault: the runtime event reports the state that the batch leaves.
ApproveReportingOldState(batch_id, next_state) ==
    /\ batches' = Put(batches, batch_id, next_state)
    /\ governanceCheckpoints' = governanceCheckpoints + 1
    /\ Deposit([kind |-> "GovernanceEvaluated", batch_id |-> batch_id,
                outcome |-> "Approved", new_state |-> CurrentState(batch_id)])
    /\ result' = "Ok"
    /\ UNCHANGED <<devices, deviceCount, events, eventCount, now>>

\* The Approved arm, once state_transition has returned next_state.
Approve(batch_id, next_state) ==
    /\ batches' = Put(batches, batch_id, next_state)
    /\ governanceCheckpoints' = governanceCheckpoints + 1
    /\ Deposit([kind |-> "GovernanceEvaluated", batch_id |-> batch_id,
                outcome |-> "Approved", new_state |-> next_state])
    /\ result' = "Ok"
    /\ UNCHANGED <<devices, deviceCount, events, eventCount, now>>

\* The Rejected arm counts a checkpoint and deposits GovernanceEvaluated with
\* outcome Rejected, then returns Err: Fail undoes both.
EvaluateGovernance(origin, batch_id, event_type, role) ==
    LET current_state == CurrentState(batch_id)
        next_states == {s \in {t[3] : t \in Transitions} :
                           <<current_state, event_type, s>> \in Transitions}
    IN
    \/ /\ origin # "Signed"
       /\ Fail("BadOrigin")
    \/ /\ origin = "Signed"
       /\ PolicyOutcome(event_type, role) = "Approved"
       /\ \E next_state \in next_states : Approve(batch_id, next_state)
    \/ /\ origin = "Signed"
       /\ PolicyOutcome(event_type, role) = "Approved"
       /\ next_states = {}
       /\ Fail("InvalidStateTransition")
    \/ /\ origin = "Signed"
       /\ PolicyOutcome(event_type, role) = "Rejected"
       /\ Fail("PolicyConditionsNotMet")

-----------------------------------------------------------------------------
(* The chain.                                                              *)

Init ==
    /\ devices = EmptyMap
    /\ deviceCount = 0
    /\ events = EmptyMap
    /\ eventCount = 0
    /\ batches = EmptyMap
    /\ governanceCheckpoints = 0
    /\ deposited = <<>>
    /\ now = StartTime
    /\ result = "Ok"

\* The time provider moves forward between extrinsics.
AdvanceTime ==
    /\ \E time \in now + 1 .. MaxTime : now' = time
    /\ UNCHANGED <<storage, result>>

Next ==
    \/ \E origin \in Origins :
          \/ \E cred \in CredentialInputs : OnboardDevice(origin, cred)
          \/ \E event \in EventInputs : ProcessEvent(origin, event)
          \/ \E batch_id \in BatchIds, event_type \in EventType,
                role \in Roles :
                EvaluateGovernance(origin, batch_id, event_type, role)
    \/ AdvanceTime

Spec == Init /\ [][Next]_vars

\* The types of the storage items, of the runtime events and of the results.
\* No entry of Batches says Harvested: unwrap_or gives this state to batches
\* without an entry, which are those that were never evaluated.
TypeOK ==
    /\ IsMap(devices, Bytes, DeviceRecord)
    /\ deviceCount \in Nat
    /\ IsMap(events, EventHashes, EventInputs)
    /\ eventCount \in Nat
    /\ IsMap(batches, BatchIds, BatchState \ {"Harvested"})
    /\ governanceCheckpoints \in Nat
    /\ deposited \in Seq(EventRecord)
    /\ now \in Nat
    /\ result \in DispatchError \cup {"Ok"}
=============================================================================
