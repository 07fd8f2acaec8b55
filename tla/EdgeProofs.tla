----------------------------- MODULE EdgeProofs -----------------------------
(***************************************************************************)
(* The connectivity measurement for every freshness window, resolution,    *)
(* interval and sequence of periods: what it counts, and which readings.   *)
(***************************************************************************)
EXTENDS EdgeConnectivity, FiniteSetTheorems, TLAPS

-----------------------------------------------------------------------------
(* Invariants of the measurement.                                          *)

EdgeTypes ==
    /\ i \in Nat
    /\ emit_t \in Nat
    /\ state_on \in BOOLEAN
    /\ switch_at \in Nat
    /\ admitted \in Nat

\* The clock stands still, and a registry that is not empty holds the device,
\* active and with its own key.
EdgeRegistered ==
    /\ now = StartTime
    /\ devices # EmptyMap =>
          /\ EdgeCredential.device_id # <<>>
          /\ EdgeCredential.device_id \in DOMAIN devices
          /\ devices[EdgeCredential.device_id].status = "Active"
          /\ devices[EdgeCredential.device_id].public_key
                 = EdgeCredential.public_key

\* Every stored reading is one that the device emitted earlier.
StoredWereEmitted ==
    /\ IsFiniteSet(DOMAIN events)
    /\ \A h \in DOMAIN events :
          \E n \in 0 .. i - 1 : h.blake2_256.payload = Payload(n)

EdgeInv == EdgeTypes /\ EdgeRegistered /\ StoredWereEmitted /\ AdmittedAreStored

LEMMA EdgeInitInv == EdgeInit => EdgeInv
<1> SUFFICES ASSUME EdgeInit PROVE EdgeInv
  OBVIOUS
<1>1. EdgeTypes
  BY EdgeAssumption DEF EdgeInit, EdgeTypes
<1>2. EdgeRegistered
  BY DEF EdgeInit, Init, EdgeRegistered
<1>3. DOMAIN events = {}
  BY DEF EdgeInit, Init, EmptyMap
<1>4. StoredWereEmitted /\ AdmittedAreStored
  BY <1>3, FS_EmptySet
     DEF StoredWereEmitted, AdmittedAreStored, EdgeInit, Init
<1> QED BY <1>1, <1>2, <1>4 DEF EdgeInv

\* Onboarding writes the device and no reading.
LEMMA OnboardInv ==
    ASSUME EdgeInv, Onboard
    PROVE  EdgeInv'
<1>1. UNCHANGED <<trace, events, eventCount, now>>
  BY DEF Onboard, OnboardDevice, Fail, storage
<1>2. EdgeRegistered'
  <2>1. CASE OnboardVerdict("Signed", EdgeCredential) # "Ok"
    BY <2>1, <1>1 DEF Onboard, OnboardDevice, Fail, storage, EdgeInv, EdgeRegistered
  <2>2. CASE OnboardVerdict("Signed", EdgeCredential) = "Ok"
    <3>1. devices' = Put(devices, EdgeCredential.device_id,
                         NewDeviceRecord(EdgeCredential))
      BY <2>2 DEF Onboard, OnboardDevice
    <3>2. EdgeCredential.device_id # <<>>
      BY <2>2 DEF OnboardVerdict, ValidateCredentialSchema
    <3>3. /\ EdgeCredential.device_id \in DOMAIN devices'
          /\ devices'[EdgeCredential.device_id] = NewDeviceRecord(EdgeCredential)
      BY <3>1 DEF Put
    <3> QED
      BY <1>1, <3>2, <3>3 DEF EdgeInv, EdgeRegistered, NewDeviceRecord
  <2> QED BY <2>1, <2>2
<1> QED
  BY <1>1, <1>2
     DEF EdgeInv, EdgeTypes, StoredWereEmitted, AdmittedAreStored, trace

LEMMA SwitchInv ==
    ASSUME EdgeInv, Switch
    PROVE  EdgeInv'
<1>1. EdgeTypes'
  BY EdgeAssumption DEF EdgeInv, EdgeTypes, Switch
<1>2. UNCHANGED <<devices, now, events, eventCount, i, admitted>>
  BY DEF Switch, vars, storage
<1> QED
  BY <1>1, <1>2
     DEF EdgeInv, EdgeRegistered, StoredWereEmitted, AdmittedAreStored

\* A reading's number tells its hash from every earlier one, so that an
\* accepted reading makes the store larger by one.
LEMMA EmitInv ==
    ASSUME EdgeInv, Emit
    PROVE  EdgeInv'
<1> DEFINE reading == SignedReading(i, SaturatingSub(now, Round(Delay)))
           hash == EventHash(reading)
<1>1. EdgeTypes'
  BY EdgeAssumption DEF EdgeInv, EdgeTypes, Emit
<1>2. UNCHANGED <<devices, now>>
  BY DEF Emit, ProcessEvent, Fail, storage
<1>3. EdgeRegistered'
  BY <1>2 DEF EdgeInv, EdgeRegistered
<1>4. i' = i + 1 /\ i \in Nat
  BY DEF Emit, EdgeInv, EdgeTypes
<1>5. CASE EventVerdict("Signed", reading) # "Ok"
  <2>1. UNCHANGED <<events, eventCount>> /\ admitted' = admitted
    BY <1>5 DEF Emit, ProcessEvent, Fail, storage
  <2>2. 0 .. i - 1 \subseteq 0 .. i' - 1
    BY <1>4
  <2>3. StoredWereEmitted'
    BY <2>1, <2>2 DEF EdgeInv, StoredWereEmitted, Payload
  <2> QED
    BY <1>1, <1>3, <2>1, <2>3 DEF EdgeInv, AdmittedAreStored
<1>6. CASE EventVerdict("Signed", reading) = "Ok"
  <2>1. /\ events' = Put(events, hash, reading)
        /\ eventCount' = eventCount + 1
        /\ admitted' = admitted + 1
    BY <1>6 DEF Emit, ProcessEvent
  <2>2. DOMAIN events' = DOMAIN events \cup {hash}
    BY <2>1 DEF Put
  <2>3. hash.blake2_256.payload = Payload(i)
    BY DEF EventHash, SignedReading
  <2>4. hash \notin DOMAIN events
    BY <2>3, <1>4 DEF EdgeInv, StoredWereEmitted, Payload
  <2>5. /\ IsFiniteSet(DOMAIN events')
        /\ Cardinality(DOMAIN events') = Cardinality(DOMAIN events) + 1
    BY <2>2, <2>4, FS_AddElement DEF EdgeInv, StoredWereEmitted
  <2>6. StoredWereEmitted'
    BY <1>4, <2>2, <2>3, <2>5 DEF EdgeInv, StoredWereEmitted, Payload
  <2>7. AdmittedAreStored'
    BY <2>1, <2>5 DEF EdgeInv, AdmittedAreStored
  <2> QED BY <1>1, <1>3, <2>6, <2>7 DEF EdgeInv
<1> QED BY <1>5, <1>6

LEMMA EdgeNextInv == EdgeInv /\ [EdgeNext]_edgeVars => EdgeInv'
<1>1. EdgeInv /\ UNCHANGED edgeVars => EdgeInv'
  BY DEF EdgeInv, EdgeTypes, EdgeRegistered, StoredWereEmitted,
         AdmittedAreStored, edgeVars, vars, storage, trace
<1> QED BY <1>1, OnboardInv, SwitchInv, EmitInv DEF EdgeNext

LEMMA EdgeInvariance == EdgeSpec => []EdgeInv
BY EdgeInitInv, EdgeNextInv, PTL DEF EdgeSpec

\* The fraction reported is a fraction of stored events, for any number of
\* readings, whatever their timestamps.
THEOREM AdmittedAreAllStored == EdgeSpec => []AdmittedAreStored
<1>1. EdgeInv => AdmittedAreStored
  BY DEF EdgeInv
<1> QED BY <1>1, EdgeInvariance, PTL

-----------------------------------------------------------------------------
(* Which readings are accepted.                                            *)

\* The chain is older than the window, so that no wait within the window is
\* cut off at the epoch, and a payload of one number is not too long.
WindowAfterEpoch == FreshnessWindow < StartTime /\ MaxPayloadLen >= 1

\* A quotient is at most w exactly if the dividend is below the next multiple.
LEMMA QuotientAtMost ==
    ASSUME NEW a \in Nat, NEW b \in Nat \ {0}, NEW w \in Nat
    PROVE  a \div b <= w <=> a < b * (w + 1)
<1> DEFINE q == a \div b
<1>1. q \in Nat /\ b * q <= a /\ a < b * q + b
  OBVIOUS
<1>2. CASE q <= w
  <2>1. b * q <= b * w
    BY <1>1, <1>2
  <2> QED BY <1>1, <1>2, <2>1
<1>3. CASE q >= w + 1
  <2>1. b * (w + 1) <= b * q
    BY <1>1, <1>3
  <2> QED BY <1>1, <1>3, <2>1
<1> QED BY <1>1, <1>2, <1>3

\* A wait within the window to the nearest second.
LEMMA RoundWithin ==
    ASSUME NEW d \in Nat
    PROVE  /\ Round(d) \in Nat
           /\ Round(d) <= FreshnessWindow
                 <=> 2 * d < (2 * FreshnessWindow + 1) * TicksPerSecond
<1> DEFINE a == 2 * d + TicksPerSecond
           b == 2 * TicksPerSecond
<1>1. a \in Nat /\ b \in Nat \ {0} /\ FreshnessWindow \in Nat
  BY EdgeAssumption, PalletAssumption
<1>2. a \div b <= FreshnessWindow <=> a < b * (FreshnessWindow + 1)
  BY <1>1, QuotientAtMost
<1>3. b * (FreshnessWindow + 1)
          = (2 * FreshnessWindow + 1) * TicksPerSecond + TicksPerSecond
  BY EdgeAssumption, PalletAssumption
<1>4. a \div b \in Nat
  BY <1>1
<1> QED BY <1>2, <1>3, <1>4, EdgeAssumption, PalletAssumption DEF Round

\* What the pallet answers to a reading of the device depends on its wait
\* alone: it is signed by the registered key, over its own timestamp.
LEMMA VerdictIsWait ==
    ASSUME WindowAfterEpoch, EdgeInv, devices # EmptyMap, NEW r \in Nat
    PROVE  EventVerdict("Signed", SignedReading(i, SaturatingSub(now, r))) = "Ok"
               <=> r <= FreshnessWindow
<1> DEFINE ts == SaturatingSub(now, r)
           event == SignedReading(i, ts)
<1>1. now \in Nat /\ now = StartTime /\ FreshnessWindow \in Nat
  BY PalletAssumption DEF EdgeInv, EdgeRegistered
<1>2. /\ event.device_id = EdgeCredential.device_id
      /\ event.timestamp = ts
      /\ Len(event.payload) = 1
  BY DEF SignedReading, Payload
<1>3. Ed25519Verify(event.signature, EncodeEventMessage(event),
                    EdgeCredential.public_key)
  BY DEF Ed25519Verify, SignedReading, EncodeEventMessage
<1>4. ValidateEventSchema(event) <=> ts > 0
  BY <1>2 DEF ValidateEventSchema, EdgeInv, EdgeRegistered, WindowAfterEpoch
<1>5. (ts > 0 /\ IsFresh(event)) <=> r <= FreshnessWindow
  BY <1>1, <1>2 DEF IsFresh, SaturatingSub, WindowAfterEpoch
<1>6. /\ event.device_id \in DOMAIN devices
      /\ devices[event.device_id].status = "Active"
      /\ devices[event.device_id].public_key = EdgeCredential.public_key
  BY <1>2 DEF EdgeInv, EdgeRegistered
<1> QED BY <1>3, <1>4, <1>5, <1>6 DEF EventVerdict

\* What is measured is the freshness window: a reading is accepted exactly
\* when its wait, to the nearest second, is within it, for every window,
\* resolution and sequence of periods.
THEOREM WindowIsMeasured ==
    WindowAfterEpoch => (EdgeSpec => AdmittedWithinWindow)
<1> SUFFICES ASSUME WindowAfterEpoch PROVE EdgeSpec => AdmittedWithinWindow
  OBVIOUS
<1> DEFINE Accepted ==
        i' = i + 1 =>
            (admitted' = admitted + 1
                <=> 2 * Delay < (2 * FreshnessWindow + 1) * TicksPerSecond)
<1>1. EdgeInv /\ [EdgeNext]_edgeVars => [Accepted]_edgeVars
  <2> SUFFICES ASSUME EdgeInv, EdgeNext PROVE Accepted
    OBVIOUS
  <2>1. CASE Onboard \/ Switch
    BY <2>1 DEF Onboard, Switch, trace, EdgeInv, EdgeTypes
  <2>2. CASE Emit
    <3>1. Delay \in Nat
      BY <2>2 DEF Delay, Emit, EdgeInv, EdgeTypes
    <3>2. /\ Round(Delay) \in Nat
          /\ Round(Delay) <= FreshnessWindow
                <=> 2 * Delay < (2 * FreshnessWindow + 1) * TicksPerSecond
      BY <3>1, RoundWithin
    <3>3. EventVerdict("Signed",
                       SignedReading(i, SaturatingSub(now, Round(Delay)))) = "Ok"
              <=> Round(Delay) <= FreshnessWindow
      BY <2>2, <3>2, VerdictIsWait DEF Emit
    <3>4. result' = EventVerdict("Signed",
                        SignedReading(i, SaturatingSub(now, Round(Delay))))
      BY <2>2 DEF Emit, ProcessEvent, Fail
    <3>5. admitted' = admitted + 1 <=> result' = "Ok"
      BY <2>2 DEF Emit, EdgeInv, EdgeTypes
    <3> QED BY <3>2, <3>3, <3>4, <3>5
  <2> QED BY <2>1, <2>2 DEF EdgeNext
<1> QED
  BY <1>1, EdgeInvariance, PTL DEF EdgeSpec, AdmittedWithinWindow
=============================================================================
