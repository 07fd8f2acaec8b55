--------------------------- MODULE MultichainProofs ---------------------------
(***************************************************************************)
(* Part one: the operational chain for every set of credentials, readings, *)
(* batches and roles, every freshness window and every bound.  Its trail   *)
(* of runtime events can be verified alone, shows no reading replayed      *)
(* across more than one freshness window and each batch in custody order,  *)
(* and counters and storage can be rebuilt from it.                        *)
(*                                                                         *)
(* Part two: both chains and the daemon between them, for any number of    *)
(* blocks, readings and faults.  It rests on the lemmas of part one, since *)
(* a step of the composition is a step of the operational chain or leaves  *)
(* it as it is.                                                            *)
(***************************************************************************)
EXTENDS MultichainTraceability, PalletProperties, FiniteSetTheorems, TLAPS

-----------------------------------------------------------------------------
(* What a step can do.                                                     *)

\* An onboarding that passed every check.
Onboards(cred) ==
    /\ cred.device_id \notin DOMAIN devices
    /\ devices' = Put(devices, cred.device_id, NewDeviceRecord(cred))
    /\ deviceCount' = deviceCount + 1
    /\ Deposit([kind |-> "DeviceRegistered", device_id |-> cred.device_id,
                public_key |-> cred.public_key, producer |-> cred.producer])
    /\ result' = "Ok"
    /\ UNCHANGED <<events, eventCount, batches, governanceCheckpoints, now>>

\* A reading that passed every check.
Admits(event) ==
    /\ IsFresh(event)
    /\ event.device_id \in DOMAIN devices
    /\ Ed25519Verify(event.signature, EncodeEventMessage(event),
                     devices[event.device_id].public_key)
    /\ events' = Put(events, EventHash(event), event)
    /\ eventCount' = eventCount + 1
    /\ Deposit([kind |-> "EventProcessed", device_id |-> event.device_id,
                event_hash |-> EventHash(event),
                event_type |-> event.event_type,
                timestamp |-> event.timestamp])
    /\ result' = "Ok"
    /\ UNCHANGED <<devices, deviceCount, batches, governanceCheckpoints, now>>

\* An evaluation that the policy approved and the state machine allows.
Evaluates(batch_id, event_type, next_state) ==
    /\ <<CurrentState(batch_id), event_type, next_state>> \in Transitions
    /\ Approve(batch_id, next_state)

\* An onboarding passes every check, or fails and changes nothing else.
LEMMA OnboardKinds ==
    ASSUME NEW origin \in Origins, NEW cred \in CredentialInputs,
           OnboardDevice(origin, cred)
    PROVE  Onboards(cred) \/ \E error \in DispatchError : Fail(error)
<1>1. CASE OnboardVerdict(origin, cred) # "Ok"
  <2>1. OnboardVerdict(origin, cred) \in DispatchError
    BY <1>1 DEF OnboardVerdict, DispatchError
  <2>2. Fail(OnboardVerdict(origin, cred))
    BY <1>1 DEF OnboardDevice
  <2> QED BY <2>1, <2>2
<1>2. CASE OnboardVerdict(origin, cred) = "Ok"
  <2>1. cred.device_id \notin DOMAIN devices
    BY <1>2 DEF OnboardVerdict
  <2> QED BY <1>2, <2>1 DEF OnboardDevice, Onboards
<1> QED BY <1>1, <1>2

\* So does a submitted reading.
LEMMA ProcessKinds ==
    ASSUME NEW origin \in Origins, NEW event \in EventInputs,
           ProcessEvent(origin, event)
    PROVE  Admits(event) \/ \E error \in DispatchError : Fail(error)
<1>1. CASE EventVerdict(origin, event) # "Ok"
  <2>1. EventVerdict(origin, event) \in DispatchError
    BY <1>1 DEF EventVerdict, DispatchError
  <2>2. Fail(EventVerdict(origin, event))
    BY <1>1 DEF ProcessEvent
  <2> QED BY <2>1, <2>2
<1>2. CASE EventVerdict(origin, event) = "Ok"
  <2>1. /\ IsFresh(event)
        /\ event.device_id \in DOMAIN devices
        /\ Ed25519Verify(event.signature, EncodeEventMessage(event),
                         devices[event.device_id].public_key)
    BY <1>2 DEF EventVerdict
  <2> QED BY <1>2, <2>1 DEF ProcessEvent, Admits
<1> QED BY <1>1, <1>2

\* Every step is one of six kinds: three write storage, one advances the
\* clock, and the others leave all but the result as it was.
LEMMA StepKinds ==
    ASSUME [Next]_vars
    PROVE  \/ \E cred \in CredentialInputs : Onboards(cred)
           \/ \E event \in EventInputs : Admits(event)
           \/ \E batch_id \in BatchIds, event_type \in EventType,
                 next_state \in BatchState :
                 Evaluates(batch_id, event_type, next_state)
           \/ \E error \in DispatchError : Fail(error)
           \/ AdvanceTime
           \/ UNCHANGED vars
<1>1. ASSUME NEW origin \in Origins, NEW batch_id \in BatchIds,
             NEW event_type \in EventType, NEW role \in Roles,
             EvaluateGovernance(origin, batch_id, event_type, role)
      PROVE  \/ \E next_state \in BatchState :
                    Evaluates(batch_id, event_type, next_state)
             \/ \E error \in DispatchError : Fail(error)
  <2>1. \A t \in Transitions : t[3] \in BatchState
    BY DEF Transitions, BatchState
  <2> QED
    BY <1>1, <2>1 DEF EvaluateGovernance, Evaluates, DispatchError
<1> QED BY <1>1, OnboardKinds, ProcessKinds DEF Next

-----------------------------------------------------------------------------
(* Type correctness.                                                       *)

\* Put keeps a map well typed.
LEMMA PutIsMap ==
    ASSUME NEW Keys, NEW Values, NEW map, IsMap(map, Keys, Values),
           NEW key \in Keys, NEW value \in Values
    PROVE  IsMap(Put(map, key, value), Keys, Values)
BY DEF Put, IsMap

\* The stages of the lifecycle are the states of a batch.
LEMMA CurrentStateType ==
    TypeOK => \A b \in BatchIds : CurrentState(b) \in BatchState
BY DEF TypeOK, IsMap, CurrentState, BatchState

\* A deposited runtime event ends the log and disturbs nothing before it.
LEMMA DepositAppends ==
    ASSUME TypeOK, NEW event, Deposit(event), NEW N, N = Len(deposited)
    PROVE  /\ N \in Nat /\ Len(deposited') = N + 1
           /\ DOMAIN deposited = 1 .. N /\ DOMAIN deposited' = 1 .. N + 1
           /\ \A i \in 1 .. N : deposited'[i] = deposited[i]
           /\ deposited'[N + 1] = [at |-> now, event |-> event]
           /\ \A k : Deposits(deposited', k) =
                        IF event.kind = k
                        THEN Deposits(deposited, k) \cup {N + 1}
                        ELSE Deposits(deposited, k)
<1>1. /\ N \in Nat /\ Len(deposited') = N + 1
      /\ DOMAIN deposited = 1 .. N /\ DOMAIN deposited' = 1 .. N + 1
      /\ \A i \in 1 .. N : deposited'[i] = deposited[i]
      /\ deposited'[N + 1] = [at |-> now, event |-> event]
  BY DEF TypeOK, Deposit
<1>2. ASSUME NEW k
      PROVE  Deposits(deposited', k) =
                IF event.kind = k THEN Deposits(deposited, k) \cup {N + 1}
                ELSE Deposits(deposited, k)
  BY <1>1 DEF Deposits
<1> QED BY <1>1, <1>2

\* The chain starts with empty, well-typed storage.
LEMMA InitTypeOK == Init => TypeOK
BY PalletAssumption DEF Init, TypeOK, IsMap, EmptyMap

\* Each extrinsic writes values of the declared types.
LEMMA NextTypeOK == TypeOK /\ [Next]_vars => TypeOK'
<1> SUFFICES ASSUME TypeOK, [Next]_vars PROVE TypeOK'
  OBVIOUS
<1>1. ASSUME NEW cred \in CredentialInputs, Onboards(cred)
      PROVE  TypeOK'
  <2>1. cred \in DeviceCredential
    BY PalletAssumption
  <2>2. NewDeviceRecord(cred) \in DeviceRecord
    BY <2>1 DEF NewDeviceRecord, DeviceRecord, DeviceCredential, DeviceStatus,
                TypeOK
  <2>3. IsMap(devices', Bytes, DeviceRecord)
    BY <1>1, <2>1, <2>2, PutIsMap DEF Onboards, TypeOK, DeviceCredential
  <2>4. [kind |-> "DeviceRegistered", device_id |-> cred.device_id,
         public_key |-> cred.public_key, producer |-> cred.producer]
            \in RuntimeEvent
    BY <2>1 DEF RuntimeEvent, DeviceCredential
  <2>5. deposited' \in Seq(EventRecord)
    BY <1>1, <2>4 DEF Onboards, Deposit, TypeOK, EventRecord
  <2> QED BY <1>1, <2>3, <2>5 DEF Onboards, TypeOK
<1>2. ASSUME NEW event \in EventInputs, Admits(event)
      PROVE  TypeOK'
  <2>1. event \in IoTEvent /\ EventHash(event) \in EventHashes
    BY PalletAssumption DEF EventHashes
  <2>2. IsMap(events', EventHashes, EventInputs)
    BY <1>2, <2>1, PutIsMap DEF Admits, TypeOK
  <2>3. [kind |-> "EventProcessed", device_id |-> event.device_id,
         event_hash |-> EventHash(event), event_type |-> event.event_type,
         timestamp |-> event.timestamp] \in RuntimeEvent
    BY <2>1 DEF RuntimeEvent, IoTEvent
  <2>4. deposited' \in Seq(EventRecord)
    BY <1>2, <2>3 DEF Admits, Deposit, TypeOK, EventRecord
  <2> QED BY <1>2, <2>2, <2>4 DEF Admits, TypeOK
<1>3. ASSUME NEW batch_id \in BatchIds, NEW event_type \in EventType,
             NEW next_state \in BatchState,
             Evaluates(batch_id, event_type, next_state)
      PROVE  TypeOK'
  <2>0. next_state \in BatchState \ {"Harvested"}
    BY <1>3 DEF Evaluates, Transitions, BatchState
  <2>1. IsMap(batches', BatchIds, BatchState \ {"Harvested"})
    BY <1>3, <2>0, PutIsMap DEF Evaluates, Approve, TypeOK
  <2>2. [kind |-> "GovernanceEvaluated", batch_id |-> batch_id,
         outcome |-> "Approved", new_state |-> next_state] \in RuntimeEvent
    BY DEF RuntimeEvent, GovernanceOutcome
  <2>3. deposited' \in Seq(EventRecord)
    BY <1>3, <2>2 DEF Evaluates, Approve, Deposit, TypeOK, EventRecord
  <2> QED BY <1>3, <2>1, <2>3 DEF Evaluates, Approve, TypeOK
<1>4. ASSUME NEW error \in DispatchError, Fail(error)
      PROVE  TypeOK'
  BY <1>4 DEF Fail, TypeOK, storage
<1>5. CASE AdvanceTime
  BY <1>5, PalletAssumption DEF AdvanceTime, TypeOK, storage
<1>6. CASE UNCHANGED vars
  BY <1>6 DEF vars, storage, TypeOK
<1> QED BY <1>1, <1>2, <1>3, <1>4, <1>5, <1>6, StepKinds

\* Storage, runtime events and results have their declared types in every
\* state of the operational chain.
THEOREM TypeCorrect == Spec => []TypeOK
<1> QED BY InitTypeOK, NextTypeOK, PTL DEF Spec

-----------------------------------------------------------------------------
(* The device registry and the event store.                                *)

\* The device registry is a write-once registry: onboarding adds one device
\* under a fresh id and no extrinsic changes a record.
THEOREM DeviceRegistryWrittenOnce == Spec => DeviceIdsAreStable
<1>1. Init => Registry!Init
  BY DEF Init, Registry!Init, EmptyMap, Registry!EmptyMap
<1>2. [Next]_vars => [Registry!Register]_devices
  <2> SUFFICES ASSUME [Next]_vars PROVE [Registry!Register]_devices
    OBVIOUS
  <2>1. ASSUME NEW cred \in CredentialInputs, Onboards(cred)
        PROVE  Registry!Register
    BY <2>1 DEF Onboards, Put, Registry!Register, Registry!Put
  <2>2. CASE UNCHANGED devices
    BY <2>2
  <2> QED
    BY <2>1, <2>2, StepKinds
       DEF Admits, Evaluates, Approve, Fail, AdvanceTime, vars, storage
<1> QED BY <1>1, <1>2, PTL DEF Spec, DeviceIdsAreStable, Registry!Spec

\* A reading is admitted against the key that its device has then, and the
\* device keeps that key.
LEMMA NextStoredEventsVerify ==
    TypeOK /\ StoredEventsVerify /\ [Next]_vars => StoredEventsVerify'
<1> SUFFICES ASSUME TypeOK, StoredEventsVerify, [Next]_vars
             PROVE  StoredEventsVerify'
  OBVIOUS
<1>1. ASSUME NEW cred \in CredentialInputs, Onboards(cred)
      PROVE  StoredEventsVerify'
  <2>1. /\ DOMAIN devices \subseteq DOMAIN devices'
        /\ \A id \in DOMAIN devices : devices'[id] = devices[id]
        /\ events' = events
    BY <1>1 DEF Onboards, Put
  <2> QED BY <2>1 DEF StoredEventsVerify
<1>2. ASSUME NEW event \in EventInputs, Admits(event)
      PROVE  StoredEventsVerify'
  <2>1. /\ DOMAIN events' = DOMAIN events \cup {EventHash(event)}
        /\ events'[EventHash(event)] = event
        /\ \A h \in DOMAIN events : h # EventHash(event) => events'[h] = events[h]
        /\ devices' = devices
    BY <1>2 DEF Admits, Put
  <2> QED BY <1>2, <2>1 DEF Admits, StoredEventsVerify
<1>3. CASE UNCHANGED <<devices, events>>
  BY <1>3 DEF StoredEventsVerify
<1> QED
  BY <1>1, <1>2, <1>3, StepKinds
     DEF Evaluates, Approve, Fail, AdvanceTime, vars, storage

\* Every stored reading verifies, in every state, against the registry of
\* that state.
THEOREM StoredEventsAlwaysVerify == Spec => []StoredEventsVerify
<1>1. Init => StoredEventsVerify
  BY DEF Init, StoredEventsVerify, EmptyMap
<1> QED
  BY <1>1, NextStoredEventsVerify, TypeCorrect, PTL DEF Spec

\* Two byte strings of one length that agree everywhere are equal.
LEMMA SameBytes ==
    ASSUME NEW s \in Seq(Nat), NEW t \in Seq(Nat), Len(s) = Len(t),
           \A i \in 1 .. Len(s) : s[i] = t[i]
    PROVE  s = t
OBVIOUS

\* The encoder is injective on the readings of one device: the parts of a
\* reading are at fixed distances from the end of the device id.
LEMMA EncodingInjective ==
    ASSUME NEW e1 \in IoTEvent, NEW e2 \in IoTEvent,
           e1.device_id = e2.device_id,
           EncodeEventMessage(e1) = EncodeEventMessage(e2)
    PROVE  /\ e1.timestamp = e2.timestamp
           /\ e1.event_type = e2.event_type
           /\ e1.payload = e2.payload
<1>1. PICK d \in Seq(Nat), t1 \in Nat, k1 \in Nat, p1 \in Seq(Nat),
           t2 \in Nat, k2 \in Nat, p2 \in Seq(Nat) :
          /\ d = e1.device_id /\ d = e2.device_id
          /\ t1 = e1.timestamp /\ p1 = e1.payload
          /\ t2 = e2.timestamp /\ p2 = e2.payload
          /\ k1 = EventTypeIndex[e1.event_type]
          /\ k2 = EventTypeIndex[e2.event_type]
  BY DEF IoTEvent, Bytes, EventType, EventTypeIndex
<1>2. d \o <<t1>> \o <<k1>> \o p1 = d \o <<t2>> \o <<k2>> \o p2
  BY <1>1 DEF EncodeEventMessage
<1>3. /\ Len(d \o <<t1>> \o <<k1>> \o p1) = Len(d) + 2 + Len(p1)
      /\ Len(d \o <<t2>> \o <<k2>> \o p2) = Len(d) + 2 + Len(p2)
      /\ Len(d) \in Nat /\ Len(p1) \in Nat /\ Len(p2) \in Nat
  OBVIOUS
<1>4. Len(p1) = Len(p2)
  BY <1>2, <1>3
<1>5. /\ t1 = (d \o <<t1>> \o <<k1>> \o p1)[Len(d) + 1]
      /\ t2 = (d \o <<t2>> \o <<k2>> \o p2)[Len(d) + 1]
  OBVIOUS
<1>6. /\ k1 = (d \o <<t1>> \o <<k1>> \o p1)[Len(d) + 2]
      /\ k2 = (d \o <<t2>> \o <<k2>> \o p2)[Len(d) + 2]
  OBVIOUS
<1>7. /\ \A i \in 1 .. Len(p1) :
            p1[i] = (d \o <<t1>> \o <<k1>> \o p1)[Len(d) + 2 + i]
      /\ \A i \in 1 .. Len(p2) :
            p2[i] = (d \o <<t2>> \o <<k2>> \o p2)[Len(d) + 2 + i]
  OBVIOUS
<1>8. \A i \in 1 .. Len(p1) : p1[i] = p2[i]
  BY <1>2, <1>4, <1>7
<1>9. t1 = t2 /\ k1 = k2
  BY <1>2, <1>5, <1>6
<1>10. p1 = p2
  BY <1>4, <1>8, SameBytes
<1>11. e1.event_type = e2.event_type
  BY <1>1, <1>9 DEF IoTEvent, EventType, EventTypeIndex
<1> QED BY <1>1, <1>9, <1>10, <1>11

\* A signature verifies for one message only.
LEMMA SignatureCoversOneMessage ==
    ASSUME NEW s, NEW m1, NEW m2, NEW k1, NEW k2,
           Ed25519Verify(s, m1, k1), Ed25519Verify(s, m2, k2)
    PROVE  m1 = m2
BY DEF Ed25519Verify

\* Two stored readings of one device under one signature are one reading:
\* what the signature covers leaves no field of the reading open.
THEOREM SignaturesPinReadings == Spec => []SignaturePinsReading
<1>1. TypeOK /\ StoredEventsVerify => SignaturePinsReading
  <2> SUFFICES ASSUME TypeOK, StoredEventsVerify,
                      NEW h1 \in DOMAIN events, NEW h2 \in DOMAIN events,
                      events[h1].device_id = events[h2].device_id,
                      events[h1].signature = events[h2].signature
               PROVE  h1 = h2
    BY DEF SignaturePinsReading
  <2>1. events[h1] \in IoTEvent /\ events[h2] \in IoTEvent
    BY PalletAssumption DEF TypeOK, IsMap
  <2>2. EncodeEventMessage(events[h1]) = EncodeEventMessage(events[h2])
    BY SignatureCoversOneMessage DEF StoredEventsVerify
  <2>5. events[h1].device_id = events[h2].device_id
    OBVIOUS
  <2>3. /\ events[h1].timestamp = events[h2].timestamp
        /\ events[h1].event_type = events[h2].event_type
        /\ events[h1].payload = events[h2].payload
    BY <2>1, <2>2, <2>5, EncodingInjective
  <2>4. events[h1] = events[h2]
    BY <2>1, <2>3 DEF IoTEvent
  <2> QED BY <2>4 DEF StoredEventsVerify
<1> QED
  BY <1>1, TypeCorrect, StoredEventsAlwaysVerify, PTL

-----------------------------------------------------------------------------
(* The trail and the registry.                                             *)

\* The strengthening: every registered device was announced with its key.
Announced ==
    \A id \in DOMAIN devices :
        \E i \in Deposits(deposited, "DeviceRegistered") :
            /\ deposited[i].event.device_id = id
            /\ deposited[i].event.public_key = devices[id].public_key

\* A reading is admitted against a registered key, which was announced before.
LEMMA NextTrail ==
    TypeOK /\ Announced /\ TrailSelfContained /\ [Next]_vars
        => Announced' /\ TrailSelfContained'
<1> SUFFICES ASSUME TypeOK, Announced, TrailSelfContained, [Next]_vars
             PROVE  Announced' /\ TrailSelfContained'
  OBVIOUS
<1>1. PICK N : N = Len(deposited)
  OBVIOUS
<1>2. ASSUME NEW event, Deposit(event), event.kind # "EventProcessed"
      PROVE  TrailSelfContained'
  <2>1. /\ N \in Nat /\ DOMAIN deposited = 1 .. N
        /\ \A i \in 1 .. N : deposited'[i] = deposited[i]
        /\ Deposits(deposited', "EventProcessed")
               = Deposits(deposited, "EventProcessed")
        /\ Deposits(deposited, "DeviceRegistered")
               \subseteq Deposits(deposited', "DeviceRegistered")
    BY <1>1, <1>2, DepositAppends
  <2>2. \A k : Deposits(deposited, k) \subseteq 1 .. N
    BY <2>1 DEF Deposits
  <2> QED BY <2>1, <2>2 DEF TrailSelfContained
<1>3. ASSUME NEW cred \in CredentialInputs, Onboards(cred)
      PROVE  Announced' /\ TrailSelfContained'
  <2> DEFINE event == [kind |-> "DeviceRegistered",
                       device_id |-> cred.device_id,
                       public_key |-> cred.public_key,
                       producer |-> cred.producer]
  <2>1. /\ Deposit(event) /\ event.kind = "DeviceRegistered"
        /\ event.device_id = cred.device_id
        /\ event.public_key = cred.public_key
    BY <1>3 DEF Onboards
  <2> HIDE DEF event
  <2>2. /\ DOMAIN devices' = DOMAIN devices \cup {cred.device_id}
        /\ devices'[cred.device_id].public_key = cred.public_key
        /\ \A id \in DOMAIN devices : devices'[id] = devices[id]
    BY <1>3 DEF Onboards, Put, NewDeviceRecord
  <2>3. /\ N \in Nat /\ DOMAIN deposited = 1 .. N
        /\ \A i \in 1 .. N : deposited'[i] = deposited[i]
        /\ deposited'[N + 1] = [at |-> now, event |-> event]
        /\ Deposits(deposited', "DeviceRegistered")
               = Deposits(deposited, "DeviceRegistered") \cup {N + 1}
    BY <1>1, <2>1, DepositAppends
  <2>4. Deposits(deposited, "DeviceRegistered") \subseteq 1 .. N
    BY <2>3 DEF Deposits
  <2>5. ASSUME NEW id \in DOMAIN devices'
        PROVE  \E i \in Deposits(deposited', "DeviceRegistered") :
                  /\ deposited'[i].event.device_id = id
                  /\ deposited'[i].event.public_key = devices'[id].public_key
    <3>1. CASE id \in DOMAIN devices
      BY <2>2, <2>3, <2>4, <3>1 DEF Announced
    <3>2. CASE id = cred.device_id
      BY <2>1, <2>2, <2>3, <3>2
    <3> QED BY <2>2, <3>1, <3>2
  <2>6. Announced'
    BY <2>5 DEF Announced
  <2>7. TrailSelfContained'
    BY <2>1, <1>2
  <2> QED BY <2>6, <2>7
<1>4. ASSUME NEW event \in EventInputs, Admits(event)
      PROVE  Announced' /\ TrailSelfContained'
  <2> DEFINE processed == [kind |-> "EventProcessed",
                           device_id |-> event.device_id,
                           event_hash |-> EventHash(event),
                           event_type |-> event.event_type,
                           timestamp |-> event.timestamp]
  <2>1. /\ Deposit(processed) /\ processed.kind = "EventProcessed"
        /\ processed.device_id = event.device_id
        /\ processed.event_hash.blake2_256 = event
        /\ devices' = devices
        /\ event.device_id \in DOMAIN devices
        /\ Ed25519Verify(event.signature, EncodeEventMessage(event),
                         devices[event.device_id].public_key)
    BY <1>4 DEF Admits, EventHash
  <2> HIDE DEF processed
  <2>2. /\ N \in Nat /\ DOMAIN deposited = 1 .. N
        /\ \A i \in 1 .. N : deposited'[i] = deposited[i]
        /\ deposited'[N + 1] = [at |-> now, event |-> processed]
        /\ Deposits(deposited', "DeviceRegistered")
               = Deposits(deposited, "DeviceRegistered")
        /\ Deposits(deposited', "EventProcessed")
               = Deposits(deposited, "EventProcessed") \cup {N + 1}
    BY <1>1, <2>1, DepositAppends
  <2>3. \A k : Deposits(deposited, k) \subseteq 1 .. N
    BY <2>2 DEF Deposits
  <2>4. Announced'
    BY <2>1, <2>2, <2>3 DEF Announced
  <2>5. PICK i \in Deposits(deposited, "DeviceRegistered") :
            /\ deposited[i].event.device_id = event.device_id
            /\ deposited[i].event.public_key
                   = devices[event.device_id].public_key
    BY <2>1 DEF Announced
  <2>6. i < N + 1 /\ deposited'[i] = deposited[i]
    BY <2>2, <2>3
  <2>7. ASSUME NEW j \in Deposits(deposited', "EventProcessed")
        PROVE  \E r \in Deposits(deposited', "DeviceRegistered") :
                  /\ r < j
                  /\ deposited'[r].event.device_id
                         = deposited'[j].event.device_id
                  /\ Ed25519Verify(
                         deposited'[j].event.event_hash.blake2_256.signature,
                         EncodeEventMessage(
                             deposited'[j].event.event_hash.blake2_256),
                         deposited'[r].event.public_key)
    <3>1. CASE j = N + 1
      <4>1. deposited'[j].event = processed
        BY <2>2, <3>1
      <4> QED BY <2>1, <2>2, <2>5, <2>6, <3>1, <4>1
    <3>2. CASE j \in Deposits(deposited, "EventProcessed")
      BY <2>2, <2>3, <3>2 DEF TrailSelfContained
    <3> QED BY <2>2, <3>1, <3>2
  <2> QED BY <2>4, <2>7 DEF TrailSelfContained
<1>5. ASSUME NEW batch_id \in BatchIds, NEW event_type \in EventType,
             NEW next_state \in BatchState,
             Evaluates(batch_id, event_type, next_state)
      PROVE  Announced' /\ TrailSelfContained'
  <2> DEFINE event == [kind |-> "GovernanceEvaluated", batch_id |-> batch_id,
                       outcome |-> "Approved", new_state |-> next_state]
  <2>1. /\ Deposit(event) /\ event.kind = "GovernanceEvaluated"
        /\ devices' = devices
    BY <1>5 DEF Evaluates, Approve
  <2> HIDE DEF event
  <2>2. /\ N \in Nat /\ DOMAIN deposited = 1 .. N
        /\ \A i \in 1 .. N : deposited'[i] = deposited[i]
        /\ Deposits(deposited', "DeviceRegistered")
               = Deposits(deposited, "DeviceRegistered")
    BY <1>1, <2>1, DepositAppends
  <2>3. Deposits(deposited, "DeviceRegistered") \subseteq 1 .. N
    BY <2>2 DEF Deposits
  <2>4. Announced'
    BY <2>1, <2>2, <2>3 DEF Announced
  <2> QED BY <1>2, <2>1, <2>4
<1>6. CASE UNCHANGED <<devices, deposited>>
  BY <1>6 DEF Announced, TrailSelfContained, Deposits
<1> QED
  BY <1>3, <1>4, <1>5, <1>6, StepKinds DEF Fail, AdvanceTime, vars, storage

\* Every processed reading of the trail verifies under a key that the trail
\* announced earlier for its device.
THEOREM TrailIsSelfContained == Spec => []TrailSelfContained
<1>1. Init => Announced /\ TrailSelfContained
  BY DEF Init, Announced, TrailSelfContained, Deposits, EmptyMap
<1>2. /\ TypeOK /\ Announced /\ TrailSelfContained
      /\ [Next]_vars
      => (Announced /\ TrailSelfContained)'
  BY NextTrail
<1> QED BY <1>1, <1>2, TypeCorrect, PTL DEF Spec

-----------------------------------------------------------------------------
(* Replay.                                                                 *)

\* The strengthening: every reading was fresh when it was processed.
ProcessedFresh ==
    \A i \in Deposits(deposited, "EventProcessed") :
        LET event == deposited[i].event.event_hash.blake2_256 IN
        /\ event.timestamp \in Nat /\ deposited[i].at \in Nat
        /\ event.timestamp <= deposited[i].at
        /\ deposited[i].at - event.timestamp <= FreshnessWindow

\* Only process_event adds a processed reading, and it checks the window.
LEMMA NextProcessedFresh ==
    TypeOK /\ ProcessedFresh /\ [Next]_vars => ProcessedFresh'
<1> SUFFICES ASSUME TypeOK, ProcessedFresh, [Next]_vars PROVE ProcessedFresh'
  OBVIOUS
<1>1. PICK N : N = Len(deposited)
  OBVIOUS
<1>2. ASSUME NEW event, Deposit(event), event.kind # "EventProcessed"
      PROVE  ProcessedFresh'
  <2>1. /\ N \in Nat /\ DOMAIN deposited = 1 .. N
        /\ \A i \in 1 .. N : deposited'[i] = deposited[i]
        /\ Deposits(deposited', "EventProcessed")
               = Deposits(deposited, "EventProcessed")
    BY <1>1, <1>2, DepositAppends
  <2>2. Deposits(deposited, "EventProcessed") \subseteq 1 .. N
    BY <2>1 DEF Deposits
  <2> QED BY <2>1, <2>2 DEF ProcessedFresh
<1>3. ASSUME NEW cred \in CredentialInputs, Onboards(cred)
      PROVE  ProcessedFresh'
  BY <1>2, <1>3 DEF Onboards
<1>4. ASSUME NEW event \in EventInputs, Admits(event)
      PROVE  ProcessedFresh'
  <2> DEFINE processed == [kind |-> "EventProcessed",
                           device_id |-> event.device_id,
                           event_hash |-> EventHash(event),
                           event_type |-> event.event_type,
                           timestamp |-> event.timestamp]
  <2>1. /\ Deposit(processed) /\ processed.kind = "EventProcessed"
        /\ processed.event_hash.blake2_256 = event
        /\ event.timestamp \in Nat /\ now \in Nat
        /\ event.timestamp <= now
        /\ now - event.timestamp <= FreshnessWindow
    BY <1>4, PalletAssumption DEF Admits, EventHash, IsFresh, IoTEvent, TypeOK
  <2> HIDE DEF processed
  <2>2. /\ N \in Nat /\ DOMAIN deposited = 1 .. N
        /\ \A i \in 1 .. N : deposited'[i] = deposited[i]
        /\ deposited'[N + 1] = [at |-> now, event |-> processed]
        /\ Deposits(deposited', "EventProcessed")
               = Deposits(deposited, "EventProcessed") \cup {N + 1}
    BY <1>1, <2>1, DepositAppends
  <2>3. Deposits(deposited, "EventProcessed") \subseteq 1 .. N
    BY <2>2 DEF Deposits
  <2> QED BY <2>1, <2>2, <2>3 DEF ProcessedFresh
<1>5. ASSUME NEW batch_id \in BatchIds, NEW event_type \in EventType,
             NEW next_state \in BatchState,
             Evaluates(batch_id, event_type, next_state)
      PROVE  ProcessedFresh'
  BY <1>2, <1>5 DEF Evaluates, Approve
<1>6. CASE UNCHANGED deposited
  BY <1>6 DEF ProcessedFresh, Deposits
<1> QED
  BY <1>3, <1>4, <1>5, <1>6, StepKinds DEF Fail, AdvanceTime, vars, storage

\* Two admissions of one reading are at most one freshness window apart.
THEOREM ReplayIsConfined == Spec => []ReplayConfined
<1>1. Init => ProcessedFresh
  BY DEF Init, ProcessedFresh, Deposits
<1>2. ProcessedFresh => ReplayConfined
  <2> SUFFICES ASSUME ProcessedFresh,
                      NEW i \in Deposits(deposited, "EventProcessed"),
                      NEW j \in Deposits(deposited, "EventProcessed"),
                      deposited[i].event.event_hash
                          = deposited[j].event.event_hash
               PROVE  deposited[j].at - deposited[i].at <= FreshnessWindow
    BY DEF ReplayConfined
  <2>1. PICK t : /\ t = deposited[i].event.event_hash.blake2_256.timestamp
                 /\ t = deposited[j].event.event_hash.blake2_256.timestamp
    OBVIOUS
  <2>2. /\ t \in Nat /\ deposited[i].at \in Nat /\ deposited[j].at \in Nat
        /\ t <= deposited[i].at
        /\ deposited[j].at - t <= FreshnessWindow
    BY <2>1 DEF ProcessedFresh
  <2> QED BY <2>2, PalletAssumption
<1> QED
  BY <1>1, <1>2, NextProcessedFresh, TypeCorrect, PTL DEF Spec

-----------------------------------------------------------------------------
(* The lifecycle.                                                          *)

\* A transition leads from a stage to the next one.
LEMMA TransitionsAdvance ==
    ASSUME NEW from, NEW event_type, NEW to,
           <<from, event_type, to>> \in Transitions
    PROVE  /\ Rank[from] \in 1 .. 4
           /\ Rank[to] = Rank[from] + 1
BY DEF Transitions, Rank

\* An approved evaluation changes the stage of its batch and of no other.
LEMMA EvaluationMovesOneBatch ==
    ASSUME NEW batch_id, NEW next_state, Approve(batch_id, next_state)
    PROVE  /\ CurrentState(batch_id)' = next_state
           /\ \A b \in BatchIds \ {batch_id} :
                 CurrentState(b)' = CurrentState(b)
BY DEF Approve, Put, CurrentState

\* The steps of the chain, seen as stages of batches, are steps of the
\* lifecycle or leave every stage as it was.
THEOREM CustodyRefinesLifecycle == Spec => BatchesFollowLifecycle
<1> DEFINE Stage == [b \in BatchIds |-> Rank[CurrentState(b)]]
<1>1. Init => Lifecycle!Init
  BY DEF Init, Lifecycle!Init, CurrentState, Rank, EmptyMap
<1>2. [Next]_vars => [Lifecycle!Next]_Stage
  <2> SUFFICES ASSUME [Next]_vars PROVE [Lifecycle!Next]_Stage
    OBVIOUS
  <2>1. ASSUME NEW batch_id \in BatchIds, NEW event_type \in EventType,
               NEW next_state \in BatchState,
               Evaluates(batch_id, event_type, next_state)
        PROVE  Lifecycle!Next
    <3>1. /\ Rank[CurrentState(batch_id)] \in 1 .. 4
          /\ Rank[next_state] = Rank[CurrentState(batch_id)] + 1
      BY <2>1, TransitionsAdvance DEF Evaluates
    <3>2. /\ CurrentState(batch_id)' = next_state
          /\ \A b \in BatchIds \ {batch_id} :
                CurrentState(b)' = CurrentState(b)
      BY <2>1, EvaluationMovesOneBatch DEF Evaluates
    <3>3. Stage' = [Stage EXCEPT ![batch_id] = @ + 1]
      BY <3>1, <3>2
    <3>4. Stage[batch_id] < Len(Lifecycle!Stages)
      BY <3>1 DEF Lifecycle!Stages
    <3> QED BY <3>3, <3>4 DEF Lifecycle!Next, Lifecycle!Advance
  <2>2. CASE UNCHANGED batches
    BY <2>2 DEF CurrentState
  <2> QED
    BY <2>1, <2>2, StepKinds
       DEF Onboards, Admits, Fail, AdvanceTime, vars, storage
<1> QED BY <1>1, <1>2, PTL DEF Spec, BatchesFollowLifecycle, Lifecycle!Spec

-----------------------------------------------------------------------------
(* The custody chain in the trail.                                         *)

\* The runtime events of one kind are finitely many.
LEMMA DepositsFinite ==
    ASSUME TypeOK, NEW kind
    PROVE  IsFiniteSet(Deposits(deposited, kind))
<1>1. /\ IsFiniteSet(1 .. Len(deposited))
      /\ DOMAIN deposited = 1 .. Len(deposited)
  BY FS_Interval DEF TypeOK
<1>2. Deposits(deposited, kind) \in SUBSET (1 .. Len(deposited))
  BY <1>1 DEF Deposits
<1> QED BY <1>1, <1>2, FS_Subset

\* So are the evaluations of one batch.
LEMMA EvaluationsFinite ==
    ASSUME TypeOK, NEW b
    PROVE  IsFiniteSet(Evaluations(deposited, b))
<1>1. IsFiniteSet(Deposits(deposited, "GovernanceEvaluated"))
  BY DepositsFinite
<1>2. Evaluations(deposited, b)
          \in SUBSET Deposits(deposited, "GovernanceEvaluated")
  BY DEF Evaluations
<1> QED BY <1>1, <1>2, FS_Subset

\* A runtime event of another kind adds no evaluation.
LEMMA OtherDepositsKeepEvaluations ==
    ASSUME TypeOK, NEW event, Deposit(event),
           event.kind # "GovernanceEvaluated", NEW b
    PROVE  Evaluations(deposited', b) = Evaluations(deposited, b)
<1>1. PICK N : N = Len(deposited)
  OBVIOUS
<1>2. /\ N \in Nat /\ DOMAIN deposited = 1 .. N
      /\ \A i \in 1 .. N : deposited'[i] = deposited[i]
      /\ Deposits(deposited', "GovernanceEvaluated")
             = Deposits(deposited, "GovernanceEvaluated")
  BY <1>1, DepositAppends
<1>3. Deposits(deposited, "GovernanceEvaluated") \subseteq 1 .. N
  BY <1>2 DEF Deposits
<1> QED BY <1>2, <1>3 DEF Evaluations

\* An evaluation is added to those of its batch, behind all others.
LEMMA EvaluationAppends ==
    ASSUME TypeOK, NEW batch_id, NEW next_state, Approve(batch_id, next_state),
           NEW N, N = Len(deposited)
    PROVE  /\ N \in Nat
           /\ \A i \in 1 .. N : deposited'[i] = deposited[i]
           /\ deposited'[N + 1].event.new_state = next_state
           /\ \A b : Evaluations(deposited, b) \subseteq 1 .. N
           /\ \A b : Evaluations(deposited', b) =
                        IF b = batch_id
                        THEN Evaluations(deposited, b) \cup {N + 1}
                        ELSE Evaluations(deposited, b)
<1> DEFINE event == [kind |-> "GovernanceEvaluated", batch_id |-> batch_id,
                     outcome |-> "Approved", new_state |-> next_state]
<1>1. /\ Deposit(event) /\ event.kind = "GovernanceEvaluated"
      /\ event.batch_id = batch_id /\ event.new_state = next_state
  BY DEF Approve
<1> HIDE DEF event
<1>2. /\ N \in Nat /\ DOMAIN deposited = 1 .. N
      /\ \A i \in 1 .. N : deposited'[i] = deposited[i]
      /\ deposited'[N + 1] = [at |-> now, event |-> event]
      /\ Deposits(deposited', "GovernanceEvaluated")
             = Deposits(deposited, "GovernanceEvaluated") \cup {N + 1}
  BY <1>1, DepositAppends
<1>3. Deposits(deposited, "GovernanceEvaluated") \subseteq 1 .. N
  BY <1>2 DEF Deposits
<1>4. deposited'[N + 1].event = event
  BY <1>2
<1>5. \A b : Evaluations(deposited, b) \subseteq 1 .. N
  BY <1>3 DEF Evaluations
<1>6. ASSUME NEW b
      PROVE  Evaluations(deposited', b) =
                IF b = batch_id THEN Evaluations(deposited, b) \cup {N + 1}
                ELSE Evaluations(deposited, b)
  BY <1>1, <1>2, <1>3, <1>4 DEF Evaluations
<1> QED BY <1>1, <1>2, <1>4, <1>5, <1>6

\* The strengthening: the stage of a batch is the number of its evaluations.
StageIsCount ==
    \A b \in BatchIds :
        Rank[CurrentState(b)] = 1 + Cardinality(Evaluations(deposited, b))

\* An evaluation advances the stage and the count together, and what the
\* trail already holds keeps its place.
LEMMA NextCustody ==
    TypeOK /\ StageIsCount /\ CustodyOrder /\ [Next]_vars
        => StageIsCount' /\ CustodyOrder'
<1> SUFFICES ASSUME TypeOK, StageIsCount, CustodyOrder, [Next]_vars
             PROVE  StageIsCount' /\ CustodyOrder'
  OBVIOUS
<1>1. PICK N : N = Len(deposited)
  OBVIOUS
<1>2. ASSUME NEW event, Deposit(event), event.kind # "GovernanceEvaluated",
             batches' = batches
      PROVE  StageIsCount' /\ CustodyOrder'
  <2>1. \A b : Evaluations(deposited', b) = Evaluations(deposited, b)
    BY <1>2, OtherDepositsKeepEvaluations
  <2>2. /\ DOMAIN deposited = 1 .. N
        /\ \A i \in 1 .. N : deposited'[i] = deposited[i]
    BY <1>1, <1>2, DepositAppends
  <2>3. \A b : Evaluations(deposited, b) \subseteq 1 .. N
    BY <2>2 DEF Evaluations, Deposits
  <2>4. StageIsCount'
    BY <1>2, <2>1 DEF StageIsCount, CurrentState
  <2>5. CustodyOrder'
    BY <2>1, <2>2, <2>3 DEF CustodyOrder
  <2> QED BY <2>4, <2>5
<1>3. ASSUME NEW batch_id \in BatchIds, NEW event_type \in EventType,
             NEW next_state \in BatchState,
             Evaluates(batch_id, event_type, next_state)
      PROVE  StageIsCount' /\ CustodyOrder'
  <2>1. /\ N \in Nat
        /\ \A i \in 1 .. N : deposited'[i] = deposited[i]
        /\ deposited'[N + 1].event.new_state = next_state
        /\ \A b : Evaluations(deposited, b) \subseteq 1 .. N
        /\ \A b : Evaluations(deposited', b) =
                     IF b = batch_id
                     THEN Evaluations(deposited, b) \cup {N + 1}
                     ELSE Evaluations(deposited, b)
    BY <1>1, <1>3, EvaluationAppends DEF Evaluates
  <2>2. PICK count : count = Cardinality(Evaluations(deposited, batch_id))
    OBVIOUS
  <2>3. /\ count \in Nat
        /\ Cardinality(Evaluations(deposited', batch_id)) = count + 1
    <3>1. IsFiniteSet(Evaluations(deposited, batch_id))
      BY EvaluationsFinite
    <3>2. N + 1 \notin Evaluations(deposited, batch_id)
      BY <2>1
    <3>3. Evaluations(deposited', batch_id)
              = Evaluations(deposited, batch_id) \cup {N + 1}
      BY <2>1
    <3> QED BY <2>2, <3>1, <3>2, <3>3, FS_AddElement, FS_CardinalityType
  <2>4. /\ CurrentState(batch_id)' = next_state
        /\ \A b \in BatchIds \ {batch_id} :
              CurrentState(b)' = CurrentState(b)
    BY <1>3, EvaluationMovesOneBatch DEF Evaluates
  <2>5. Rank[next_state] = 2 + count
    <3>1. /\ Rank[CurrentState(batch_id)] \in 1 .. 4
          /\ Rank[next_state] = Rank[CurrentState(batch_id)] + 1
      BY <1>3, TransitionsAdvance DEF Evaluates
    <3>2. Rank[CurrentState(batch_id)] = 1 + count
      BY <2>2 DEF StageIsCount
    <3> QED BY <2>3, <3>1, <3>2
  <2>6. StageIsCount'
    <3>1. Rank[CurrentState(batch_id)']
              = 1 + Cardinality(Evaluations(deposited', batch_id))
      BY <2>3, <2>4, <2>5
    <3>2. \A b \in BatchIds \ {batch_id} :
              Rank[CurrentState(b)']
                  = 1 + Cardinality(Evaluations(deposited', b))
      BY <2>1, <2>4 DEF StageIsCount
    <3> QED BY <3>1, <3>2 DEF StageIsCount
  <2>7. ASSUME NEW b \in BatchIds, NEW i \in Evaluations(deposited', b)
        PROVE  Rank[deposited'[i].event.new_state]
                   = 1 + Cardinality({j \in Evaluations(deposited', b) :
                                         j <= i})
    <3>1. CASE i \in Evaluations(deposited, b)
      <4>1. {j \in Evaluations(deposited', b) : j <= i}
                = {j \in Evaluations(deposited, b) : j <= i}
        BY <2>1, <3>1
      <4>2. deposited'[i] = deposited[i]
        BY <2>1, <3>1
      <4> QED BY <3>1, <4>1, <4>2 DEF CustodyOrder
    <3>2. CASE b = batch_id /\ i = N + 1
      <4>1. {j \in Evaluations(deposited', b) : j <= i}
                = Evaluations(deposited', b)
        BY <2>1, <3>2
      <4> QED BY <2>1, <2>3, <2>5, <3>2, <4>1
    <3> QED BY <2>1, <3>1, <3>2
  <2> QED BY <2>6, <2>7 DEF CustodyOrder
<1>4. ASSUME NEW cred \in CredentialInputs, Onboards(cred)
      PROVE  StageIsCount' /\ CustodyOrder'
  BY <1>2, <1>4 DEF Onboards
<1>5. ASSUME NEW event \in EventInputs, Admits(event)
      PROVE  StageIsCount' /\ CustodyOrder'
  BY <1>2, <1>5 DEF Admits
<1>6. CASE UNCHANGED <<batches, deposited>>
  BY <1>6 DEF StageIsCount, CustodyOrder, CurrentState, Evaluations, Deposits
<1> QED
  BY <1>3, <1>4, <1>5, <1>6, StepKinds DEF Fail, AdvanceTime, vars, storage

\* The n-th evaluation of a batch in the trail announces stage n + 1.
THEOREM CustodyIsOrdered == Spec => []CustodyOrder
<1>1. Init => StageIsCount /\ CustodyOrder
  <2> SUFFICES ASSUME Init PROVE StageIsCount /\ CustodyOrder
    OBVIOUS
  <2>1. \A b : Evaluations(deposited, b) = {}
    BY DEF Init, Evaluations, Deposits
  <2>2. \A b \in BatchIds : Rank[CurrentState(b)] = 1
    BY DEF Init, CurrentState, EmptyMap, Rank
  <2> QED BY <2>1, <2>2, FS_EmptySet DEF StageIsCount, CustodyOrder
<1>2. TypeOK /\ StageIsCount /\ CustodyOrder /\ [Next]_vars
      => (StageIsCount /\ CustodyOrder)'
  BY NextCustody
<1> QED BY <1>1, <1>2, TypeCorrect, PTL DEF Spec

-----------------------------------------------------------------------------
(* The counters.                                                           *)

\* A runtime event adds one to the number of its kind and to no other.
LEMMA DepositCounts ==
    ASSUME TypeOK, NEW event, Deposit(event), NEW kind
    PROVE  /\ Cardinality(Deposits(deposited, kind)) \in Nat
           /\ Cardinality(Deposits(deposited', kind)) =
                 IF event.kind = kind
                 THEN Cardinality(Deposits(deposited, kind)) + 1
                 ELSE Cardinality(Deposits(deposited, kind))
<1>1. PICK N : N = Len(deposited)
  OBVIOUS
<1>2. /\ N \in Nat /\ DOMAIN deposited = 1 .. N
      /\ Deposits(deposited', kind) =
            IF event.kind = kind THEN Deposits(deposited, kind) \cup {N + 1}
            ELSE Deposits(deposited, kind)
  BY <1>1, DepositAppends
<1>3. IsFiniteSet(Deposits(deposited, kind))
  BY DepositsFinite
<1>4. N + 1 \notin Deposits(deposited, kind)
  BY <1>2 DEF Deposits
<1>5. CASE event.kind = kind
  BY <1>2, <1>3, <1>4, <1>5, FS_AddElement, FS_CardinalityType
<1>6. CASE event.kind # kind
  BY <1>2, <1>3, <1>6, FS_CardinalityType
<1> QED BY <1>5, <1>6

\* The strengthening: the registry is finite, so that a new device makes it
\* larger.
RegistryFinite == IsFiniteSet(DOMAIN devices)

\* A call counts, registers and announces together, or does none of these.
LEMMA NextCounters ==
    TypeOK /\ RegistryFinite /\ CountersMatchTrail /\ [Next]_vars
        => RegistryFinite' /\ CountersMatchTrail'
<1> SUFFICES ASSUME TypeOK, RegistryFinite, CountersMatchTrail, [Next]_vars
             PROVE  RegistryFinite' /\ CountersMatchTrail'
  OBVIOUS
<1>1. ASSUME NEW cred \in CredentialInputs, Onboards(cred)
      PROVE  RegistryFinite' /\ CountersMatchTrail'
  <2>1. PICK event : Deposit(event) /\ event.kind = "DeviceRegistered"
    BY <1>1 DEF Onboards
  <2>2. /\ DOMAIN devices' = DOMAIN devices \cup {cred.device_id}
        /\ cred.device_id \notin DOMAIN devices
    BY <1>1 DEF Onboards, Put
  <2>3. /\ IsFiniteSet(DOMAIN devices')
        /\ Cardinality(DOMAIN devices') = Cardinality(DOMAIN devices) + 1
    BY <2>2, FS_AddElement DEF RegistryFinite
  <2>4. /\ deviceCount' = deviceCount + 1
        /\ eventCount' = eventCount
        /\ governanceCheckpoints' = governanceCheckpoints
    BY <1>1 DEF Onboards
  <2> QED
    BY <2>1, <2>3, <2>4, DepositCounts DEF RegistryFinite, CountersMatchTrail
<1>2. ASSUME NEW reading \in EventInputs, Admits(reading)
      PROVE  RegistryFinite' /\ CountersMatchTrail'
  <2>1. PICK event : Deposit(event) /\ event.kind = "EventProcessed"
    BY <1>2 DEF Admits
  <2>2. /\ eventCount' = eventCount + 1
        /\ UNCHANGED <<devices, deviceCount, governanceCheckpoints>>
    BY <1>2 DEF Admits
  <2> QED
    BY <2>1, <2>2, DepositCounts DEF RegistryFinite, CountersMatchTrail
<1>3. ASSUME NEW batch_id \in BatchIds, NEW event_type \in EventType,
             NEW next_state \in BatchState,
             Evaluates(batch_id, event_type, next_state)
      PROVE  RegistryFinite' /\ CountersMatchTrail'
  <2>1. PICK event : Deposit(event) /\ event.kind = "GovernanceEvaluated"
    BY <1>3 DEF Evaluates, Approve
  <2>2. /\ governanceCheckpoints' = governanceCheckpoints + 1
        /\ UNCHANGED <<devices, deviceCount, eventCount>>
    BY <1>3 DEF Evaluates, Approve
  <2> QED
    BY <2>1, <2>2, DepositCounts DEF RegistryFinite, CountersMatchTrail
<1>4. CASE UNCHANGED storage
  BY <1>4 DEF storage, RegistryFinite, CountersMatchTrail, Deposits
<1> QED
  BY <1>1, <1>2, <1>3, <1>4, StepKinds DEF Fail, AdvanceTime, vars

\* The metrics counters are the numbers of runtime events of each kind, and
\* the device counter is the size of the registry.
THEOREM CountersAreExact == Spec => []CountersMatchTrail
<1>1. Init => RegistryFinite /\ CountersMatchTrail
  <2> SUFFICES ASSUME Init PROVE RegistryFinite /\ CountersMatchTrail
    OBVIOUS
  <2>1. \A kind : Deposits(deposited, kind) = {}
    BY DEF Init, Deposits
  <2>2. DOMAIN devices = {}
    BY DEF Init, EmptyMap
  <2> QED
    BY <2>1, <2>2, FS_EmptySet DEF Init, RegistryFinite, CountersMatchTrail
<1> QED BY <1>1, NextCounters, TypeCorrect, PTL DEF Spec

-----------------------------------------------------------------------------
(* The three parts, each a function of the log and of one storage map.     *)

Registered(map) ==
    {[device_id |-> id, public_key |-> map[id].public_key,
      producer |-> map[id].producer, at |-> map[id].registered_at] :
        id \in DOMAIN map}

Announcement(entry) ==
    [device_id |-> entry.event.device_id, public_key |-> entry.event.public_key,
     producer |-> entry.event.producer, at |-> entry.at]

AnnouncedIn(log) ==
    {Announcement(log[i]) : i \in Deposits(log, "DeviceRegistered")}

ProcessedIn(log) ==
    {log[i].event.event_hash : i \in Deposits(log, "EventProcessed")}

LastEvaluationIs(log, b, map) ==
    \/ b \notin DOMAIN map /\ Evaluations(log, b) = {}
    \/ /\ b \in DOMAIN map
       /\ \E last \in Evaluations(log, b) :
             /\ \A i \in Evaluations(log, b) : i <= last
             /\ log[last].event.new_state = map[b]

\* The property is the conjunction of the three.
LEMMA RebuildParts ==
    TrailRebuildsStorage <=>
        /\ Registered(devices) = AnnouncedIn(deposited)
        /\ DOMAIN events = ProcessedIn(deposited)
        /\ \A b \in BatchIds : LastEvaluationIs(deposited, b, batches)
BY DEF TrailRebuildsStorage, Registered, AnnouncedIn, Announcement,
       ProcessedIn, LastEvaluationIs

-----------------------------------------------------------------------------
(* One part at a time.                                                     *)

\* A runtime event of another kind leaves each part of the log as it was.
LEMMA OtherDepositsKeepParts ==
    ASSUME TypeOK, NEW event, Deposit(event)
    PROVE  /\ event.kind # "DeviceRegistered"
                => AnnouncedIn(deposited') = AnnouncedIn(deposited)
           /\ event.kind # "EventProcessed"
                => ProcessedIn(deposited') = ProcessedIn(deposited)
           /\ event.kind # "GovernanceEvaluated"
                => \A b, map : LastEvaluationIs(deposited', b, map)
                                  <=> LastEvaluationIs(deposited, b, map)
<1>1. PICK N : N = Len(deposited)
  OBVIOUS
<1>2. /\ DOMAIN deposited = 1 .. N
      /\ \A i \in 1 .. N : deposited'[i] = deposited[i]
      /\ \A k : event.kind # k => Deposits(deposited', k) = Deposits(deposited, k)
  BY <1>1, DepositAppends
<1>3. \A k : Deposits(deposited, k) \subseteq 1 .. N
  BY <1>2 DEF Deposits
<1>4. ASSUME event.kind # "DeviceRegistered"
      PROVE  AnnouncedIn(deposited') = AnnouncedIn(deposited)
  BY <1>2, <1>3, <1>4 DEF AnnouncedIn
<1>5. ASSUME event.kind # "EventProcessed"
      PROVE  ProcessedIn(deposited') = ProcessedIn(deposited)
  BY <1>2, <1>3, <1>5 DEF ProcessedIn
<1>6. ASSUME event.kind # "GovernanceEvaluated", NEW b, NEW map
      PROVE  LastEvaluationIs(deposited', b, map)
                <=> LastEvaluationIs(deposited, b, map)
  <2>1. Evaluations(deposited', b) = Evaluations(deposited, b)
    BY <1>6, OtherDepositsKeepEvaluations
  <2>2. Evaluations(deposited, b) \subseteq 1 .. N
    BY <1>3 DEF Evaluations
  <2> QED BY <1>2, <2>1, <2>2 DEF LastEvaluationIs
<1> QED BY <1>4, <1>5, <1>6

\* An onboarding announces the record that it inserts.
LEMMA OnboardingAnnounced ==
    ASSUME TypeOK, NEW cred, Onboards(cred),
           Registered(devices) = AnnouncedIn(deposited)
    PROVE  Registered(devices') = AnnouncedIn(deposited')
<1> DEFINE event == [kind |-> "DeviceRegistered",
                     device_id |-> cred.device_id,
                     public_key |-> cred.public_key,
                     producer |-> cred.producer]
           entry == [device_id |-> cred.device_id,
                     public_key |-> cred.public_key,
                     producer |-> cred.producer, at |-> now]
<1>1. /\ Deposit(event) /\ event.kind = "DeviceRegistered"
      /\ event.device_id = cred.device_id /\ event.producer = cred.producer
      /\ event.public_key = cred.public_key
  BY DEF Onboards
<1> HIDE DEF event
<1>2. PICK N : N = Len(deposited)
  OBVIOUS
<1>3. /\ DOMAIN deposited = 1 .. N
      /\ \A i \in 1 .. N : deposited'[i] = deposited[i]
      /\ deposited'[N + 1] = [at |-> now, event |-> event]
      /\ Deposits(deposited', "DeviceRegistered")
             = Deposits(deposited, "DeviceRegistered") \cup {N + 1}
  BY <1>1, <1>2, DepositAppends
<1>4. Announcement(deposited'[N + 1]) = entry
  BY <1>1, <1>3 DEF Announcement
<1>5. \A i \in Deposits(deposited, "DeviceRegistered") : deposited'[i] = deposited[i]
  BY <1>3 DEF Deposits
<1>6. AnnouncedIn(deposited') = AnnouncedIn(deposited) \cup {entry}
  BY <1>3, <1>4, <1>5 DEF AnnouncedIn
<1>7. /\ DOMAIN devices' = DOMAIN devices \cup {cred.device_id}
      /\ devices'[cred.device_id].public_key = cred.public_key
      /\ devices'[cred.device_id].producer = cred.producer
      /\ devices'[cred.device_id].registered_at = now
      /\ \A id \in DOMAIN devices : devices'[id] = devices[id]
  BY DEF Onboards, Put, NewDeviceRecord
<1>8. Registered(devices') = Registered(devices) \cup {entry}
  BY <1>7 DEF Registered
<1> QED BY <1>6, <1>8

\* An admission announces the hash under which it stores the reading.
LEMMA AdmissionProcessed ==
    ASSUME TypeOK, NEW event, Admits(event),
           DOMAIN events = ProcessedIn(deposited)
    PROVE  DOMAIN events' = ProcessedIn(deposited')
<1> DEFINE processed == [kind |-> "EventProcessed",
                         device_id |-> event.device_id,
                         event_hash |-> EventHash(event),
                         event_type |-> event.event_type,
                         timestamp |-> event.timestamp]
<1>1. /\ Deposit(processed) /\ processed.kind = "EventProcessed"
      /\ processed.event_hash = EventHash(event)
      /\ DOMAIN events' = DOMAIN events \cup {EventHash(event)}
  BY DEF Admits, Put
<1> HIDE DEF processed
<1>2. PICK N : N = Len(deposited)
  OBVIOUS
<1>3. /\ DOMAIN deposited = 1 .. N
      /\ \A i \in 1 .. N : deposited'[i] = deposited[i]
      /\ deposited'[N + 1] = [at |-> now, event |-> processed]
      /\ Deposits(deposited', "EventProcessed")
             = Deposits(deposited, "EventProcessed") \cup {N + 1}
  BY <1>1, <1>2, DepositAppends
<1>4. \A i \in Deposits(deposited, "EventProcessed") : deposited'[i] = deposited[i]
  BY <1>3 DEF Deposits
<1>5. ProcessedIn(deposited') = ProcessedIn(deposited) \cup {EventHash(event)}
  BY <1>1, <1>3, <1>4 DEF ProcessedIn
<1> QED BY <1>1, <1>5

\* An evaluation announces the state that it writes, and is the last of its
\* batch; the other batches keep their last one.
LEMMA EvaluationIsLast ==
    ASSUME TypeOK, NEW batch_id, NEW next_state, Approve(batch_id, next_state),
           NEW b, LastEvaluationIs(deposited, b, batches)
    PROVE  LastEvaluationIs(deposited', b, batches')
<1>1. PICK N : N = Len(deposited)
  OBVIOUS
<1>2. /\ N \in Nat
      /\ \A i \in 1 .. N : deposited'[i] = deposited[i]
      /\ deposited'[N + 1].event.new_state = next_state
      /\ Evaluations(deposited, b) \subseteq 1 .. N
      /\ Evaluations(deposited', b) =
            IF b = batch_id THEN Evaluations(deposited, b) \cup {N + 1}
            ELSE Evaluations(deposited, b)
  BY <1>1, EvaluationAppends
<1>3. /\ DOMAIN batches' = DOMAIN batches \cup {batch_id}
      /\ batches'[batch_id] = next_state
      /\ b \in DOMAIN batches /\ b # batch_id => batches'[b] = batches[b]
  BY DEF Approve, Put
<1>4. CASE b = batch_id
  <2>1. N + 1 \in Evaluations(deposited', b)
    BY <1>2, <1>4
  <2>2. \A i \in Evaluations(deposited', b) : i <= N + 1
    BY <1>2, <1>4
  <2> QED BY <1>2, <1>3, <1>4, <2>1, <2>2 DEF LastEvaluationIs
<1>5. CASE b # batch_id
  BY <1>2, <1>3, <1>5 DEF LastEvaluationIs
<1> QED BY <1>4, <1>5

-----------------------------------------------------------------------------

\* Each extrinsic keeps the three parts.
LEMMA NextRebuild ==
    ASSUME TypeOK, TrailRebuildsStorage, [Next]_vars
    PROVE  TrailRebuildsStorage'
<1>0. /\ Registered(devices) = AnnouncedIn(deposited)
      /\ DOMAIN events = ProcessedIn(deposited)
      /\ \A b \in BatchIds : LastEvaluationIs(deposited, b, batches)
  BY RebuildParts
<1> SUFFICES /\ Registered(devices') = AnnouncedIn(deposited')
             /\ DOMAIN events' = ProcessedIn(deposited')
             /\ \A b \in BatchIds : LastEvaluationIs(deposited', b, batches')
  BY DEF TrailRebuildsStorage, Registered, AnnouncedIn, Announcement,
         ProcessedIn, LastEvaluationIs
<1>1. ASSUME NEW cred \in CredentialInputs, Onboards(cred)
      PROVE  /\ Registered(devices') = AnnouncedIn(deposited')
             /\ DOMAIN events' = ProcessedIn(deposited')
             /\ \A b \in BatchIds : LastEvaluationIs(deposited', b, batches')
  <2>1. PICK event : Deposit(event) /\ event.kind = "DeviceRegistered"
    BY <1>1 DEF Onboards
  <2>2. events' = events /\ batches' = batches
    BY <1>1 DEF Onboards
  <2> QED BY <1>0, <1>1, <2>1, <2>2, OnboardingAnnounced, OtherDepositsKeepParts
<1>2. ASSUME NEW event \in EventInputs, Admits(event)
      PROVE  /\ Registered(devices') = AnnouncedIn(deposited')
             /\ DOMAIN events' = ProcessedIn(deposited')
             /\ \A b \in BatchIds : LastEvaluationIs(deposited', b, batches')
  <2>1. PICK processed : Deposit(processed) /\ processed.kind = "EventProcessed"
    BY <1>2 DEF Admits
  <2>2. devices' = devices /\ batches' = batches
    BY <1>2 DEF Admits
  <2> QED BY <1>0, <1>2, <2>1, <2>2, AdmissionProcessed, OtherDepositsKeepParts
<1>3. ASSUME NEW batch_id \in BatchIds, NEW event_type \in EventType,
             NEW next_state \in BatchState,
             Evaluates(batch_id, event_type, next_state)
      PROVE  /\ Registered(devices') = AnnouncedIn(deposited')
             /\ DOMAIN events' = ProcessedIn(deposited')
             /\ \A b \in BatchIds : LastEvaluationIs(deposited', b, batches')
  <2>0. Approve(batch_id, next_state)
    BY <1>3 DEF Evaluates
  <2>1. PICK event : Deposit(event) /\ event.kind = "GovernanceEvaluated"
    BY <2>0 DEF Approve
  <2>2. devices' = devices /\ events' = events
    BY <2>0 DEF Approve
  <2>3. \A b \in BatchIds : LastEvaluationIs(deposited', b, batches')
    BY <1>0, <2>0, EvaluationIsLast
  <2> QED BY <1>0, <2>1, <2>2, <2>3, OtherDepositsKeepParts
<1>4. CASE UNCHANGED <<devices, events, batches, deposited>>
  BY <1>0, <1>4
<1> QED
  BY <1>1, <1>2, <1>3, <1>4, StepKinds
     DEF Fail, AdvanceTime, vars, storage

\* Whoever has the runtime events has the storage: registry, store and batch
\* states can be rebuilt from them in every state, failed calls included.
THEOREM StorageIsRebuilt == Spec => []TrailRebuildsStorage
<1>1. Init => TrailRebuildsStorage
  <2> SUFFICES ASSUME Init PROVE TrailRebuildsStorage
    OBVIOUS
  <2>1. /\ deposited = <<>> /\ devices = EmptyMap /\ events = EmptyMap
        /\ batches = EmptyMap
    BY DEF Init
  <2>2. \A k : Deposits(deposited, k) = {}
    BY <2>1 DEF Deposits
  <2>3. DOMAIN EmptyMap = {}
    BY DEF EmptyMap
  <2>4. \A b : Evaluations(deposited, b) = {}
    BY <2>2 DEF Evaluations
  <2> QED
    BY <2>1, <2>2, <2>3, <2>4, RebuildParts
       DEF Registered, AnnouncedIn, ProcessedIn, LastEvaluationIs
<1>2. TypeOK /\ TrailRebuildsStorage /\ [Next]_vars => TrailRebuildsStorage'
  BY NextRebuild
<1> QED BY <1>1, <1>2, TypeCorrect, PTL DEF Spec

-----------------------------------------------------------------------------
(* The readings of a trail.                                                *)

\* What the readings of a trail are, prefix by prefix.
LEMMA ReadingsInDef ==
    ASSUME NEW log \in Seq(EventRecord)
    PROVE  LET R == ReadingsIn(log) IN
           /\ R \in [0 .. Len(log) -> Seq(EventHashes)]
           /\ R[0] = <<>>
           /\ \A k \in 1 .. Len(log) :
                 R[k] = IF log[k].event.kind = "EventProcessed"
                        THEN Append(R[k - 1], log[k].event.event_hash)
                        ELSE R[k - 1]
<1>1. PICK N : N = Len(log)
  OBVIOUS
<1>2. N \in Nat
  BY <1>1
<1> DEFINE R == ReadingsIn(log)
<1>3. /\ R = [k \in 0 .. N |-> R[k]]
      /\ R[0] = <<>>
      /\ \A k \in 1 .. N : R[k] = WithReading(log, k, R[k - 1])
  BY <1>1, <1>2, Trail!IterateDef DEF ReadingsIn
<1>4. \A k \in 1 .. N : log[k].event.kind = "EventProcessed"
          => log[k].event.event_hash \in EventHashes
  <2>1. \A k \in 1 .. N : log[k].event \in RuntimeEvent
    <3>1. \A k \in 1 .. N : log[k] \in EventRecord
      BY <1>1
    <3> QED BY <3>1 DEF EventRecord
  <2>2. \A e \in RuntimeEvent :
           e.kind = "EventProcessed" => e.event_hash \in EventHashes
    BY DEF RuntimeEvent
  <2> QED BY <2>1, <2>2
<1>5. \A k \in 1 .. N : \A readings \in Seq(EventHashes) :
          WithReading(log, k, readings) \in Seq(EventHashes)
  BY <1>4 DEF WithReading
<1>6. \A k \in 0 .. N : R[k] \in Seq(EventHashes)
  <2> HIDE DEF R
  <2> DEFINE S == {k \in 0 .. N : R[k] \in Seq(EventHashes)}
  <2>1. 0 \in S
    BY <1>2, <1>3
  <2>2. ASSUME NEW k \in 0 .. N, k < N, k \in S
        PROVE  k + 1 \in S
    <3>1. k + 1 \in 1 .. N /\ (k + 1) - 1 = k
      BY <1>2, <2>2
    <3>2. R[k + 1] = WithReading(log, k + 1, R[k])
      BY <1>3, <3>1
    <3>3. WithReading(log, k + 1, R[k]) \in Seq(EventHashes)
      BY <1>5, <2>2, <3>1
    <3>4. k + 1 \in 0 .. N
      BY <1>2, <2>2
    <3> QED BY <3>2, <3>3, <3>4
  <2> HIDE DEF S
  <2>3. 0 .. N \subseteq S
    BY <1>2, <2>1, <2>2, Trail!IntervalInduction
  <2> QED BY <2>3 DEF S
<1>7. R \in [0 .. N -> Seq(EventHashes)]
  <2> HIDE DEF R
  <2> QED BY <1>3, <1>6
<1>8. \A k \in 1 .. N :
         R[k] = IF log[k].event.kind = "EventProcessed"
                THEN Append(R[k - 1], log[k].event.event_hash)
                ELSE R[k - 1]
  <2> HIDE DEF R
  <2> QED BY <1>3 DEF WithReading
<1> QED BY <1>1, <1>3, <1>7, <1>8

\* short begins long.
Begins(short, long) ==
    /\ Len(short) <= Len(long)
    /\ \A i \in 1 .. Len(short) : short[i] = long[i]

\* The readings of a part of a log begin those of a longer part.
LEMMA ReadingsGrow ==
    ASSUME NEW log \in Seq(EventRecord), NEW j \in 0 .. Len(log),
           NEW k \in 0 .. Len(log), j <= k
    PROVE  Begins(ReadingsIn(log)[j], ReadingsIn(log)[k])
<1> DEFINE R == ReadingsIn(log)
           S == {n \in 0 .. Len(log) : j <= n => Begins(R[j], R[n])}
<1>1. Len(log) \in Nat
  OBVIOUS
<1>2. /\ R \in [0 .. Len(log) -> Seq(EventHashes)]
      /\ \A n \in 1 .. Len(log) :
            \/ R[n] = R[n - 1]
            \/ R[n] = Append(R[n - 1], log[n].event.event_hash)
  BY ReadingsInDef
<1> HIDE DEF R
<1>3. 0 \in S
  <2>1. R[0] \in Seq(EventHashes)
    BY <1>1, <1>2
  <2>2. Begins(R[0], R[0])
    BY <2>1 DEF Begins
  <2>3. j <= 0 => j = 0
    BY <1>1
  <2> QED BY <1>1, <2>2, <2>3
<1>4. ASSUME NEW n \in 0 .. Len(log), n < Len(log), n \in S PROVE n + 1 \in S
  <2>1. /\ n + 1 \in 1 .. Len(log) /\ (n + 1) - 1 = n
        /\ n + 1 \in 0 .. Len(log)
    BY <1>1, <1>4
  <2>2. CASE j = n + 1
    <3>1. R[n + 1] \in Seq(EventHashes)
      BY <1>2, <2>1
    <3>2. Begins(R[n + 1], R[n + 1])
      BY <3>1 DEF Begins
    <3> QED BY <2>1, <2>2, <3>2
  <2>3. CASE j <= n
    <3>1. Begins(R[j], R[n])
      BY <1>4, <2>3
    <3>2. Begins(R[n], R[n + 1])
      <4>1. R[n] \in Seq(EventHashes) /\ R[n + 1] \in Seq(EventHashes)
        BY <1>2, <2>1
      <4>2. R[n + 1] = R[n] \/ \E hash : R[n + 1] = Append(R[n], hash)
        BY <1>2, <2>1
      <4>3. ASSUME NEW hash PROVE Begins(R[n], Append(R[n], hash))
        BY <4>1 DEF Begins
      <4>4. Begins(R[n], R[n])
        BY <4>1 DEF Begins
      <4> QED BY <4>2, <4>3, <4>4
    <3>3. Len(R[j]) \in Nat /\ Len(R[n]) \in Nat /\ Len(R[n + 1]) \in Nat
      BY <1>2, <2>1
    <3>4. Begins(R[j], R[n + 1])
      BY <3>1, <3>2, <3>3 DEF Begins
    <3> QED BY <2>1, <3>4
  <2> QED BY <1>1, <2>1, <2>2, <2>3
<1> HIDE DEF S
<1>5. 0 .. Len(log) \subseteq S
  BY <1>1, <1>3, <1>4, Trail!IntervalInduction
<1>6. Begins(R[j], R[k])
  BY <1>5 DEF S
<1> QED BY <1>6 DEF R

\* A further runtime event adds to the readings at most its own, and leaves
\* those of each earlier part of the log as they were.
LEMMA ReadingsOfAppend ==
    ASSUME NEW log \in Seq(EventRecord), NEW entry \in EventRecord
    PROVE  LET R == ReadingsIn(log)
               Q == ReadingsIn(Append(log, entry))
               N == Len(log)
           IN /\ \A k \in 0 .. N : Q[k] = R[k]
              /\ Q[N + 1] = IF entry.event.kind = "EventProcessed"
                            THEN Append(R[N], entry.event.event_hash)
                            ELSE R[N]
<1> DEFINE longer == Append(log, entry)
           R == ReadingsIn(log)
           Q == ReadingsIn(longer)
           N == Len(log)
           S == {k \in 0 .. N : Q[k] = R[k]}
<1>1. /\ N \in Nat
      /\ longer \in Seq(EventRecord)
      /\ Len(longer) = N + 1
      /\ \A k \in 1 .. N : longer[k] = log[k]
      /\ longer[N + 1] = entry
  OBVIOUS
<1> HIDE DEF longer, N
<1>2. /\ R[0] = <<>>
      /\ \A k \in 1 .. N :
            R[k] = IF log[k].event.kind = "EventProcessed"
                   THEN Append(R[k - 1], log[k].event.event_hash)
                   ELSE R[k - 1]
  BY ReadingsInDef DEF N
<1>3. /\ Q[0] = <<>>
      /\ \A k \in 1 .. N + 1 :
            Q[k] = IF longer[k].event.kind = "EventProcessed"
                   THEN Append(Q[k - 1], longer[k].event.event_hash)
                   ELSE Q[k - 1]
  BY <1>1, ReadingsInDef
<1> HIDE DEF R, Q
<1>4. 0 \in S
  BY <1>1, <1>2, <1>3
<1>5. ASSUME NEW n \in 0 .. N, n < N, n \in S PROVE n + 1 \in S
  <2>1. /\ n + 1 \in 1 .. N /\ n + 1 \in 1 .. N + 1 /\ (n + 1) - 1 = n
        /\ n + 1 \in 0 .. N
    BY <1>1, <1>5
  <2>2. Q[n] = R[n] /\ longer[n + 1] = log[n + 1]
    BY <1>1, <1>5, <2>1
  <2> QED BY <1>2, <1>3, <2>1, <2>2
<1> HIDE DEF S
<1>6. 0 .. N \subseteq S
  BY <1>1, <1>4, <1>5, Trail!IntervalInduction
<1>7. \A k \in 0 .. N : Q[k] = R[k]
  BY <1>6 DEF S
<1>8. Q[N + 1] = IF entry.event.kind = "EventProcessed"
                 THEN Append(R[N], entry.event.event_hash) ELSE R[N]
  <2>1. N + 1 \in 1 .. N + 1 /\ (N + 1) - 1 = N /\ N \in 0 .. N
    BY <1>1
  <2> QED BY <1>1, <1>3, <1>7, <2>1
<1> QED BY <1>7, <1>8 DEF R, Q, N, longer

-----------------------------------------------------------------------------
(* The inductive invariant.                                                *)

\* All readings in the trail.
Recorded == ReadingsIn(deposited)[Len(deposited)]

\* The first entry of the trail is an onboarding, so that a window always has
\* fewer readings than the trail may have entries.
TrailInv ==
    /\ TypeOK
    /\ blocks \in Seq(Nat)
    /\ \A b \in DOMAIN blocks : blocks[b] <= Len(deposited)
    /\ \A a, b \in DOMAIN blocks : a <= b => blocks[a] <= blocks[b]
    /\ Len(deposited) <= MaxDeposits
    /\ DOMAIN devices # {} => deposited # <<>>
    /\ Recorded = <<>> \/ Len(Recorded) < Len(deposited)

\* A record or a payload covers finalized blocks with a reading among them,
\* and has the root and the number of their readings.
IsWindow(window) ==
    /\ window.startBlock \in 1 .. Len(blocks)
    /\ window.endBlock \in window.startBlock .. Len(blocks)
    /\ FinalizedBy(window.startBlock - 1) < FinalizedBy(window.endBlock)
    /\ LET readings == WindowReadings(window.startBlock, window.endBlock)
       IN /\ window.merkleRoot = Root(readings)
          /\ window.eventCount = Len(readings)

\* What was final before a window is covered by the first n of the ledger.
PriorCovered(window, n) ==
    ToSet(FinalReadings(window.startBlock - 1)) \subseteq CoveredByFirst(n)

\* The last block that some window of the ledger covers.
Covered == LastCovered(Len(merkleRoots))

\* What the contract has anchored is enumerated, in the order of the blocks.
\* What was final before a window is covered by those before it, so that the
\* covered readings are all those of the blocks up to the last one covered.
LedgerInv ==
    /\ merkleRoots \in Seq(Roots)
    /\ DOMAIN anchorings = Roots
    /\ \A root \in Roots : anchorings[root].merkleRoot # ZeroWord
          => \E k \in DOMAIN merkleRoots : merkleRoots[k] = root
    /\ \A k \in DOMAIN merkleRoots :
          /\ merkleRoots[k] # ZeroWord
          /\ Record(k).merkleRoot = merkleRoots[k]
          /\ IsWindow(Record(k))
          /\ LastCovered(k - 1) < Record(k).startBlock
          /\ Record(k).endBlock <= Covered
          /\ PriorCovered(Record(k), k - 1)
    /\ Covered \in 0 .. Len(blocks)
    /\ CoveredReadings = ToSet(FinalReadings(Covered))

\* The daemon knows all windows of the ledger, and stopped where all that was
\* final is covered.
KnowsLedger ==
    /\ Covered <= anchoredTo
    /\ CoveredReadings = ToSet(FinalReadings(anchoredTo))

\* The window without a receipt is the last one of the ledger.
MissesLast ==
    LET n == Len(merkleRoots) IN
    /\ pending # <<>>
    /\ merkleRoots # <<>>
    /\ pending[1].merkleRoot = merkleRoots[n]
    /\ pending[1].endBlock = Covered
    /\ Record(n).startBlock = anchoredTo + 1
    /\ LastCovered(n - 1) <= anchoredTo

\* The window without a receipt begins where the daemon stopped.
DaemonInv ==
    /\ anchoredTo \in 0 .. Len(blocks)
    /\ \/ pending = <<>>
       \/ /\ pending = <<pending[1]>>
          /\ IsWindow(pending[1])
          /\ pending[1].startBlock = anchoredTo + 1
    /\ KnowsLedger \/ MissesLast

MultichainInv == TrailInv /\ LedgerInv /\ DaemonInv

-----------------------------------------------------------------------------
(* What the invariant says of the trail.                                   *)

\* The readings of the finalized blocks only grow from block to block.
LEMMA FinalReadingsFacts ==
    ASSUME TrailInv
    PROVE  /\ Len(blocks) \in Nat
           /\ FinalReadings(0) = <<>>
           /\ \A b \in 0 .. Len(blocks) :
                 /\ FinalReadings(b) \in Seq(EventHashes)
                 /\ FinalizedBy(b) \in Nat
                 /\ FinalizedBy(b) = 0 \/ FinalizedBy(b) < MaxDeposits
           /\ \A a, b \in 0 .. Len(blocks) :
                 a <= b => Begins(FinalReadings(a), FinalReadings(b))
<1> DEFINE R == ReadingsIn(deposited)
           N == Len(deposited)
<1>1. /\ deposited \in Seq(EventRecord) /\ N \in Nat
      /\ MaxDeposits \in Nat /\ N <= MaxDeposits
      /\ Len(blocks) \in Nat
      /\ \A b \in 1 .. Len(blocks) : blocks[b] \in 0 .. N
  BY PalletAssumption DEF TrailInv, TypeOK
<1>2. FinalReadings(0) = <<>>
  BY DEF FinalReadings
<1>3. \A k \in 0 .. N : R[k] \in Seq(EventHashes) /\ Begins(R[k], R[N])
  BY <1>1, ReadingsInDef, ReadingsGrow
<1>4. R[0] = <<>>
  BY <1>1, ReadingsInDef
<1>5. \A b \in 1 .. Len(blocks) : FinalReadings(b) = R[blocks[b]]
  BY <1>1 DEF FinalReadings
<1>6. Len(R[N]) = 0 \/ Len(R[N]) < N
  <2>1. R[N] \in Seq(EventHashes)
    BY <1>1, <1>3
  <2> QED BY <2>1 DEF TrailInv, Recorded
<1> HIDE DEF R, N
<1>7. ASSUME NEW b \in 0 .. Len(blocks)
      PROVE  \E k \in 0 .. N : FinalReadings(b) = R[k]
  <2>1. CASE b = 0
    BY <1>1, <1>2, <1>4, <2>1
  <2>2. CASE b \in 1 .. Len(blocks)
    BY <1>1, <1>5, <2>2
  <2> QED BY <1>1, <2>1, <2>2
<1>8. ASSUME NEW b \in 0 .. Len(blocks)
      PROVE  /\ FinalReadings(b) \in Seq(EventHashes)
             /\ FinalizedBy(b) \in Nat
             /\ FinalizedBy(b) = 0 \/ FinalizedBy(b) < MaxDeposits
  <2>1. PICK k \in 0 .. N : FinalReadings(b) = R[k]
    BY <1>7
  <2>2. FinalReadings(b) \in Seq(EventHashes) /\ FinalizedBy(b) = Len(R[k])
    BY <1>3, <2>1 DEF FinalizedBy
  <2>3. FinalizedBy(b) \in Nat /\ Len(R[N]) \in Nat
    BY <1>1, <1>3, <2>1, <2>2
  <2>4. Begins(FinalReadings(b), R[N])
    BY <1>3, <2>1
  <2>5. FinalizedBy(b) = 0 \/ FinalizedBy(b) < MaxDeposits
    BY <1>1, <1>6, <2>1, <2>2, <2>3, <2>4 DEF Begins
  <2> QED BY <2>2, <2>3, <2>5
<1>9. ASSUME NEW a \in 0 .. Len(blocks), NEW b \in 0 .. Len(blocks), a <= b
      PROVE  Begins(FinalReadings(a), FinalReadings(b))
  <2>1. CASE a = 0
    <3>1. FinalReadings(b) \in Seq(EventHashes)
      BY <1>8
    <3> QED BY <1>2, <2>1, <3>1 DEF Begins
  <2>2. CASE a \in 1 .. Len(blocks)
    <3>1. /\ b \in 1 .. Len(blocks)
          /\ blocks[a] \in 0 .. N /\ blocks[b] \in 0 .. N
          /\ blocks[a] <= blocks[b]
      BY <1>1, <1>9, <2>2 DEF TrailInv
    <3>2. Begins(R[blocks[a]], R[blocks[b]])
      BY <1>1, <3>1, ReadingsGrow DEF R, N
    <3> QED BY <1>5, <2>2, <3>1, <3>2
  <2> QED BY <1>1, <2>1, <2>2
<1> QED BY <1>1, <1>2, <1>8, <1>9

\* The readings of a window, and its root among those that the ledger knows.
LEMMA WindowFacts ==
    ASSUME TrailInv, NEW first \in 1 .. Len(blocks),
           NEW last \in first .. Len(blocks),
           FinalizedBy(first - 1) < FinalizedBy(last)
    PROVE  LET window == WindowReadings(first, last)
           IN /\ window \in Seq(EventHashes)
              /\ Len(window) = FinalizedBy(last) - FinalizedBy(first - 1)
              /\ \A i \in 1 .. Len(window) :
                    window[i] = FinalReadings(last)[FinalizedBy(first - 1) + i]
              /\ Root(window) \in Roots
<1>1. PICK m, n : m = FinalizedBy(first - 1) /\ n = FinalizedBy(last)
  OBVIOUS
<1>2. PICK s : s = FinalReadings(last)
  OBVIOUS
<1>3. /\ m \in Nat /\ n \in Nat /\ m < n /\ n < MaxDeposits
      /\ s \in Seq(EventHashes) /\ Len(s) = n
  <2>1. /\ Len(blocks) \in Nat
        /\ first - 1 \in 0 .. Len(blocks) /\ last \in 0 .. Len(blocks)
    BY FinalReadingsFacts
  <2>2. m \in Nat /\ n \in Nat /\ (n = 0 \/ n < MaxDeposits)
    BY <1>1, <2>1, FinalReadingsFacts
  <2>3. s \in Seq(EventHashes)
    BY <1>2, <2>1, FinalReadingsFacts
  <2> QED BY <1>1, <1>2, <2>2, <2>3 DEF FinalizedBy
<1>4. PICK w : w = SubSeq(s, m + 1, n)
  OBVIOUS
<1>5. WindowReadings(first, last) = w
  BY <1>1, <1>2, <1>4 DEF WindowReadings
<1>6. /\ w \in Seq(EventHashes)
      /\ Len(w) = n - m
      /\ \A i \in 1 .. Len(w) : w[i] = s[m + i]
  BY <1>3, <1>4
<1>7. Root(w) \in Roots
  <2>1. Len(w) \in 0 .. MaxDeposits - 1
    BY <1>3, <1>6, PalletAssumption
  <2>2. w \in [1 .. Len(w) -> EventHashes]
    BY <1>6
  <2>3. w \in BoundedSeq(EventHashes, MaxDeposits - 1)
    BY <2>1, <2>2 DEF BoundedSeq, SeqOf
  <2> QED BY <2>3 DEF Roots
<1> QED BY <1>1, <1>2, <1>5, <1>6, <1>7

-----------------------------------------------------------------------------
(* What a step does to the trail.                                          *)

\* A step of the operational chain adds at most one entry to the trail, and
\* the end of a block adds none.
LEMMA TrailSteps ==
    ASSUME [MultichainNext]_allVars
    PROVE  /\ [Next]_vars
           /\ \/ \E cred \in CredentialInputs : Onboards(cred)
              \/ \E event \in EventInputs : Admits(event)
              \/ \E batch_id \in BatchIds, event_type \in EventType,
                    next_state \in BatchState :
                    Evaluates(batch_id, event_type, next_state)
              \/ UNCHANGED <<deposited, devices>>
           /\ blocks' = blocks
              \/ (blocks' = Append(blocks, Len(deposited)) /\ UNCHANGED deposited)
<1>1. CASE OperationalStep
  <2>1. [Next]_vars /\ blocks' = blocks
    BY <1>1 DEF OperationalStep
  <2> QED BY <2>1, StepKinds DEF Fail, AdvanceTime, vars, storage
<1>2. CASE FinalizeBlock
  BY <1>2 DEF FinalizeBlock, vars, storage
<1>3. CASE UNCHANGED <<vars, blocks>>
  BY <1>3 DEF vars, storage
<1>4. CASE \/ SubmitAcknowledged \/ SubmitReceiptLost \/ SubmitLost
           \/ Partition \/ Heal
  BY <1>3, <1>4
     DEF SubmitAcknowledged, SubmitReceiptLost, SubmitLost, Partition, Heal
<1>5. CASE UNCHANGED allVars
  BY <1>3, <1>5 DEF allVars
<1> QED BY <1>1, <1>2, <1>4, <1>5 DEF MultichainNext

\* An entry of the trail that a step deposits.
LEMMA DepositIsAppend ==
    ASSUME TypeOK, TypeOK', NEW event, Deposit(event)
    PROVE  \E entry \in EventRecord :
              entry.event = event /\ deposited' = Append(deposited, entry)
<1>1. PICK entry : entry = [at |-> now, event |-> event]
  OBVIOUS
<1>2. deposited' = Append(deposited, entry)
  BY <1>1 DEF Deposit
<1>3. entry \in EventRecord
  <2>1. /\ Len(deposited) \in Nat
        /\ Len(deposited) + 1 \in 1 .. Len(deposited')
        /\ deposited'[Len(deposited) + 1] = entry
    BY <1>2 DEF TypeOK
  <2> QED BY <2>1 DEF TypeOK
<1> QED BY <1>1, <1>2, <1>3

\* No step changes the readings of a block that is final.
LEMMA FinalReadingsStable ==
    ASSUME TrailInv, [MultichainNext]_allVars
    PROVE  /\ Len(blocks) \in Nat /\ Len(blocks') \in Nat
           /\ Len(blocks) <= Len(blocks')
           /\ \A b \in 0 .. Len(blocks) :
                 /\ FinalReadings(b)' = FinalReadings(b)
                 /\ FinalizedBy(b)' = FinalizedBy(b)
<1> USE DEF TrailInv
<1>1. TypeOK /\ TypeOK'
  BY TrailSteps, NextTypeOK
<1>2. /\ Len(blocks) \in Nat /\ Len(blocks') \in Nat
      /\ Len(blocks) <= Len(blocks')
      /\ \A b \in 1 .. Len(blocks) : blocks'[b] = blocks[b]
                                     /\ blocks[b] \in 0 .. Len(deposited)
  <2>1. Len(deposited) \in Nat
    BY <1>1 DEF TypeOK
  <2> QED BY <2>1, TrailSteps
<1> DEFINE Kept == \A k \in 0 .. Len(deposited) :
                      ReadingsIn(deposited')[k] = ReadingsIn(deposited)[k]
<1>3. Kept
  <2>1. CASE deposited' = deposited
    BY <2>1
  <2>2. ASSUME NEW event, Deposit(event)
        PROVE  Kept
    <3>1. PICK entry \in EventRecord : deposited' = Append(deposited, entry)
      BY <1>1, <2>2, DepositIsAppend
    <3>2. deposited \in Seq(EventRecord)
      BY <1>1 DEF TypeOK
    <3> QED BY <3>1, <3>2, ReadingsOfAppend
  <2> HIDE DEF Kept
  <2> QED BY <2>1, <2>2, TrailSteps DEF Onboards, Admits, Evaluates, Approve
<1>4. ASSUME NEW b \in 0 .. Len(blocks)
      PROVE  FinalReadings(b)' = FinalReadings(b)
  <2>1. CASE b = 0
    BY <2>1 DEF FinalReadings
  <2>2. CASE b \in 1 .. Len(blocks)
    <3>1. b # 0
      BY <2>2
    <3> QED BY <1>2, <1>3, <2>2, <3>1 DEF FinalReadings
  <2> QED BY <1>2, <2>1, <2>2
<1> QED BY <1>2, <1>4 DEF FinalizedBy

\* A step keeps the invariant of the trail.
LEMMA NextTrailInv ==
    TrailInv /\ [MultichainNext]_allVars => TrailInv'
<1> SUFFICES ASSUME TrailInv, [MultichainNext]_allVars PROVE TrailInv'
  OBVIOUS
<1>1. TypeOK /\ TypeOK'
  BY TrailSteps, NextTypeOK DEF TrailInv
<1>2. PICK N : N = Len(deposited)
  OBVIOUS
<1>3. /\ deposited \in Seq(EventRecord) /\ N \in Nat
      /\ blocks \in Seq(Nat) /\ blocks' \in Seq(Nat)
      /\ MaxDeposits \in Nat
  <2>1. deposited \in Seq(EventRecord) /\ N \in Nat
    BY <1>1, <1>2 DEF TypeOK
  <2> QED BY <1>2, <2>1, TrailSteps, PalletAssumption DEF TrailInv
<1>4. /\ Recorded \in Seq(EventHashes) /\ Len(Recorded) \in Nat
      /\ DOMAIN Recorded = 1 .. Len(Recorded)
  <2>1. ReadingsIn(deposited) \in [0 .. N -> Seq(EventHashes)]
    BY <1>2, <1>3, ReadingsInDef
  <2>2. Recorded \in Seq(EventHashes)
    BY <1>2, <1>3, <2>1 DEF Recorded
  <2> QED BY <2>2
<1>5. ASSUME N <= Len(deposited'), Len(deposited') \in Nat
      PROVE  /\ \A b \in DOMAIN blocks' : blocks'[b] <= Len(deposited')
             /\ \A a, b \in DOMAIN blocks' :
                   a <= b => blocks'[a] <= blocks'[b]
  <2>1. /\ \A b \in 1 .. Len(blocks) : blocks[b] \in Nat /\ blocks[b] <= N
        /\ \A a, b \in 1 .. Len(blocks) : a <= b => blocks[a] <= blocks[b]
        /\ Len(blocks) \in Nat
    BY <1>2, <1>3 DEF TrailInv
  <2>2. CASE blocks' = blocks
    <3>1. DOMAIN blocks' = 1 .. Len(blocks)
      BY <1>3, <2>2
    <3> QED BY <1>3, <1>5, <2>1, <2>2, <3>1
  <2>3. CASE blocks' = Append(blocks, N)
    <3>1. /\ DOMAIN blocks' = 1 .. Len(blocks) + 1
          /\ \A b \in 1 .. Len(blocks) : blocks'[b] = blocks[b]
          /\ blocks'[Len(blocks) + 1] = N
      BY <1>3, <2>3
    <3>2. ASSUME NEW b \in DOMAIN blocks'
          PROVE  blocks'[b] \in Nat /\ blocks'[b] <= N
      <4>1. CASE b = Len(blocks) + 1
        BY <1>3, <3>1, <4>1
      <4>2. CASE b \in 1 .. Len(blocks)
        BY <2>1, <3>1, <4>2
      <4> QED BY <2>1, <3>1, <4>1, <4>2
    <3>3. ASSUME NEW a \in DOMAIN blocks', NEW b \in DOMAIN blocks', a <= b
          PROVE  blocks'[a] <= blocks'[b]
      <4>1. CASE b = Len(blocks) + 1
        BY <3>1, <3>2, <4>1
      <4>2. CASE b # Len(blocks) + 1
        BY <2>1, <3>1, <3>3, <4>2
      <4> QED BY <4>1, <4>2
    <3> QED BY <1>3, <1>5, <3>2, <3>3
  <2> QED BY <1>2, <2>2, <2>3, TrailSteps
<1>6. CASE UNCHANGED <<deposited, devices>>
  <2>1. Recorded' = Recorded
    BY <1>6 DEF Recorded
  <2> QED BY <1>1, <1>2, <1>3, <1>5, <1>6, <2>1 DEF TrailInv
<1>7. ASSUME NEW entry \in EventRecord,
             N < MaxDeposits, deposited' = Append(deposited, entry),
             entry.event.kind = "EventProcessed" => DOMAIN devices # {}
      PROVE  TrailInv'
  <2>1. Len(deposited') = N + 1 /\ deposited' # <<>>
    <3>1. /\ Len(Append(deposited, entry)) = N + 1
          /\ Append(deposited, entry) # <<>>
      BY <1>2, <1>3
    <3> QED BY <1>7, <3>1
  <2>2. ReadingsIn(deposited')[N + 1] =
            IF entry.event.kind = "EventProcessed"
            THEN Append(Recorded, entry.event.event_hash) ELSE Recorded
    BY <1>2, <1>3, <1>7, ReadingsOfAppend DEF Recorded
  <2>3. Recorded' = ReadingsIn(deposited')[N + 1]
    BY <2>1 DEF Recorded
  <2>4. Len(Recorded) <= N
    BY <1>2, <1>3, <1>4 DEF TrailInv
  <2>5. entry.event.kind = "EventProcessed" => Len(Recorded) < N
    <3>1. DOMAIN devices # {} => N > 0
      BY <1>2, <1>3 DEF TrailInv
    <3> QED BY <1>2, <1>4, <1>7, <3>1 DEF TrailInv
  <2>6. Recorded' = <<>> \/ Len(Recorded') < N + 1
    BY <1>3, <1>4, <2>2, <2>3, <2>4, <2>5
  <2> QED BY <1>1, <1>2, <1>3, <1>5, <1>7, <2>1, <2>6 DEF TrailInv
<1>8. ASSUME NEW event, Deposit(event),
             event.kind = "EventProcessed" => DOMAIN devices # {}
      PROVE  TrailInv'
  <2>1. PICK entry \in EventRecord :
            entry.event = event /\ deposited' = Append(deposited, entry)
    BY <1>1, <1>8, DepositIsAppend
  <2>2. N < MaxDeposits
    BY <1>2, <1>8 DEF Deposit
  <2> QED BY <1>7, <1>8, <2>1, <2>2
<1>9. ASSUME NEW cred \in CredentialInputs, Onboards(cred)
      PROVE  TrailInv'
  BY <1>8, <1>9 DEF Onboards
<1>10. ASSUME NEW reading \in EventInputs, Admits(reading)
       PROVE  TrailInv'
  BY <1>8, <1>10 DEF Admits
<1>11. ASSUME NEW batch_id \in BatchIds, NEW event_type \in EventType,
              NEW next_state \in BatchState,
              Evaluates(batch_id, event_type, next_state)
       PROVE  TrailInv'
  BY <1>8, <1>11 DEF Evaluates, Approve
<1> QED BY <1>6, <1>9, <1>10, <1>11, TrailSteps

-----------------------------------------------------------------------------
(* The windows.                                                            *)

\* A window keeps its readings.
LEMMA WindowStays ==
    ASSUME TrailInv, [MultichainNext]_allVars, NEW window, IsWindow(window)
    PROVE  IsWindow(window)'
<1>1. PICK first, last : first = window.startBlock /\ last = window.endBlock
  OBVIOUS
<1>2. /\ Len(blocks) \in Nat /\ Len(blocks') \in Nat
      /\ Len(blocks) <= Len(blocks')
      /\ first \in 1 .. Len(blocks) /\ last \in first .. Len(blocks)
  BY <1>1, FinalReadingsStable DEF IsWindow
<1>3. first - 1 \in 0 .. Len(blocks) /\ last \in 0 .. Len(blocks)
  BY <1>2
<1>4. /\ FinalReadings(last)' = FinalReadings(last)
      /\ FinalizedBy(last)' = FinalizedBy(last)
      /\ FinalizedBy(first - 1)' = FinalizedBy(first - 1)
  BY <1>3, FinalReadingsStable
<1>5. WindowReadings(first, last)' = WindowReadings(first, last)
  BY <1>4 DEF WindowReadings
<1>6. first \in 1 .. Len(blocks') /\ last \in first .. Len(blocks')
  BY <1>2
<1> QED BY <1>1, <1>4, <1>5, <1>6 DEF IsWindow

\* What was final before a window stays covered.
LEMMA PriorStays ==
    ASSUME TrailInv, [MultichainNext]_allVars, NEW window, IsWindow(window),
           NEW n, CoveredByFirst(n)' = CoveredByFirst(n),
           PriorCovered(window, n)
    PROVE  PriorCovered(window, n)'
<1>1. PICK before : before = window.startBlock - 1
  OBVIOUS
<1>2. before \in 0 .. Len(blocks)
  BY <1>1, FinalReadingsFacts DEF IsWindow
<1>3. FinalReadings(before)' = FinalReadings(before)
  BY <1>2, FinalReadingsStable
<1>4. ToSet(FinalReadings(before))' = ToSet(FinalReadings(before))
  BY <1>3 DEF ToSet
<1> QED BY <1>1, <1>4 DEF PriorCovered

\* What the daemon submits is a window, and begins where it stopped.
LEMMA SubmittedIsWindow ==
    ASSUME TrailInv, DaemonInv, HasWindow
    PROVE  IsWindow(Submitted) /\ Submitted.startBlock = anchoredTo + 1
<1>1. CASE pending # <<>>
  BY <1>1 DEF DaemonInv, Submitted
<1>2. CASE pending = <<>>
  <2>1. /\ Len(blocks) \in Nat /\ anchoredTo \in Nat
        /\ anchoredTo < Len(blocks)
        /\ FinalizedBy(anchoredTo) < FinalizedBy(Len(blocks))
    BY <1>2, FinalReadingsFacts DEF HasWindow, DaemonInv
  <2>2. (anchoredTo + 1) - 1 = anchoredTo
    BY <2>1
  <2>3. Submitted = NextWindow
    BY <1>2 DEF Submitted
  <2>4. /\ anchoredTo + 1 \in 1 .. Len(blocks)
        /\ Len(blocks) \in anchoredTo + 1 .. Len(blocks)
    BY <2>1
  <2> QED BY <2>1, <2>2, <2>3, <2>4 DEF NextWindow, IsWindow
<1> QED BY <1>1, <1>2

\* The readings of a window are among those of all finalized blocks, at the
\* places that the blocks before it leave.
LEMMA WindowPlaces ==
    ASSUME TrailInv, NEW window, IsWindow(window)
    PROVE  LET final == FinalReadings(Len(blocks))
               before == FinalizedBy(window.startBlock - 1)
               w == window.merkleRoot.merkle
           IN /\ w \in Seq(EventHashes) /\ before \in Nat
              /\ Len(w) = FinalizedBy(window.endBlock) - before /\ Len(w) > 0
              /\ \A i \in 1 .. Len(w) :
                    before + i \in 1 .. Len(final) /\ w[i] = final[before + i]
              /\ window.merkleRoot \in Roots
<1>1. PICK first, last : first = window.startBlock /\ last = window.endBlock
  OBVIOUS
<1>2. PICK final, before, n : /\ final = FinalReadings(Len(blocks))
                              /\ before = FinalizedBy(first - 1)
                              /\ n = FinalizedBy(last)
  OBVIOUS
<1>3. /\ Len(blocks) \in Nat
      /\ first \in 1 .. Len(blocks) /\ last \in first .. Len(blocks)
      /\ before < n
  BY <1>1, <1>2, FinalReadingsFacts DEF IsWindow
<1>4. PICK w : w = WindowReadings(first, last)
  OBVIOUS
<1>5. /\ w \in Seq(EventHashes) /\ Len(w) = n - before
      /\ \A i \in 1 .. Len(w) : w[i] = FinalReadings(last)[before + i]
      /\ Root(w) \in Roots
  BY <1>2, <1>3, <1>4, WindowFacts
<1>6. window.merkleRoot = Root(w) /\ window.merkleRoot.merkle = w
  BY <1>1, <1>4 DEF IsWindow, Root
<1>7. /\ first - 1 \in 0 .. Len(blocks) /\ last \in 0 .. Len(blocks)
      /\ Len(blocks) \in 0 .. Len(blocks) /\ last <= Len(blocks)
  BY <1>3
<1>8. /\ before \in Nat /\ n \in Nat
      /\ n = Len(FinalReadings(last))
      /\ Begins(FinalReadings(last), final)
      /\ Len(final) \in Nat
  <2>1. before \in Nat /\ n \in Nat
    BY <1>2, <1>7, FinalReadingsFacts
  <2>2. Begins(FinalReadings(last), final)
    BY <1>2, <1>7, FinalReadingsFacts
  <2>3. Len(final) \in Nat
    BY <1>2, <1>7, FinalReadingsFacts DEF FinalizedBy
  <2> QED BY <1>2, <2>1, <2>2, <2>3 DEF FinalizedBy
<1>9. ASSUME NEW i \in 1 .. Len(w)
      PROVE  before + i \in 1 .. Len(final) /\ w[i] = final[before + i]
  <2>1. before + i \in 1 .. n
    BY <1>3, <1>5, <1>8
  <2> QED BY <1>5, <1>8, <2>1 DEF Begins
<1> QED BY <1>1, <1>2, <1>3, <1>5, <1>6, <1>8, <1>9

-----------------------------------------------------------------------------
(* The ledger.                                                             *)

\* While the contract stores nothing, no record changes.
LEMMA LedgerUnchanged ==
    ASSUME UNCHANGED <<anchorings, merkleRoots>>
    PROVE  /\ \A k : Record(k)' = Record(k) /\ LastCovered(k)' = LastCovered(k)
           /\ Covered' = Covered /\ CoveredReadings' = CoveredReadings
           /\ \A k : CoveredByFirst(k)' = CoveredByFirst(k)
BY DEF Record, LastCovered, Covered, CoveredReadings, CoveredByFirst

\* The last root of an enumeration that is not empty.
LEMMA LastIsListed ==
    ASSUME LedgerInv, merkleRoots # <<>>
    PROVE  Len(merkleRoots) \in DOMAIN merkleRoots /\ Len(merkleRoots) # 0
<1>1. merkleRoots \in Seq(Roots)
  BY DEF LedgerInv
<1> QED BY <1>1

\* The contract accepts a submitted window only if the daemon knows all windows
\* of the ledger and none has its root.  It refuses it as anchored if it is the
\* window that the daemon misses, or if one that it knows has this root.
LEMMA AnswersToSubmitted ==
    ASSUME MultichainInv, HasWindow, NEW payload, payload = Submitted
    PROVE  /\ Contract!AnchorVerdict(Daemon, payload) = "Ok"
                 => /\ KnowsLedger
                    /\ payload.merkleRoot # ZeroWord
                    /\ \A k \in DOMAIN merkleRoots :
                          merkleRoots[k] # payload.merkleRoot
           /\ Contract!AnchorVerdict(Daemon, payload)
                       = "Merkle root already anchored"
                 => \/ MissesLast /\ payload = pending[1]
                    \/ /\ KnowsLedger
                       /\ \E k \in DOMAIN merkleRoots :
                             merkleRoots[k] = payload.merkleRoot
<1>1. TrailInv /\ LedgerInv /\ DaemonInv
  BY DEF MultichainInv
<1>2. payload.merkleRoot \in Roots
  BY <1>1, SubmittedIsWindow, WindowPlaces
<1>3. Contract!AnchorVerdict(Daemon, payload) = "Ok"
         => /\ payload.merkleRoot # ZeroWord
            /\ anchorings[payload.merkleRoot].merkleRoot = ZeroWord
  BY DEF Contract!AnchorVerdict, Contract!IsAnchored
<1>4. Contract!AnchorVerdict(Daemon, payload) = "Merkle root already anchored"
         => anchorings[payload.merkleRoot].merkleRoot # ZeroWord
  BY DEF Contract!AnchorVerdict, Contract!IsAnchored
<1>5. \A k \in DOMAIN merkleRoots :
         anchorings[merkleRoots[k]].merkleRoot # ZeroWord
  BY <1>1 DEF LedgerInv, Record
<1>6. MissesLast => /\ payload = pending[1]
                    /\ \E k \in DOMAIN merkleRoots :
                          merkleRoots[k] = payload.merkleRoot
  BY <1>1, LastIsListed DEF MissesLast, Submitted
<1>7. KnowsLedger \/ MissesLast
  BY <1>1 DEF DaemonInv
<1>8. anchorings[payload.merkleRoot].merkleRoot # ZeroWord
         => \E k \in DOMAIN merkleRoots : merkleRoots[k] = payload.merkleRoot
  BY <1>1, <1>2 DEF LedgerInv
<1> QED BY <1>3, <1>4, <1>5, <1>6, <1>7, <1>8

\* A stored window ends the enumeration and changes no record before it.
LEMMA StoreExtends ==
    ASSUME MultichainInv, HasWindow, NEW payload, payload = Submitted,
           Contract!AnchorVerdict(Daemon, payload) = "Ok",
           Contract!Store(Daemon, payload), NEW n, n = Len(merkleRoots)
    PROVE  /\ n \in Nat
           /\ DOMAIN merkleRoots = 1 .. n /\ DOMAIN merkleRoots' = 1 .. n + 1
           /\ Len(merkleRoots') = n + 1
           /\ merkleRoots' \in Seq(Roots) /\ DOMAIN anchorings' = Roots
           /\ merkleRoots'[n + 1] = payload.merkleRoot
           /\ \A root \in Roots : root # payload.merkleRoot
                                 => anchorings'[root] = anchorings[root]
           /\ \A k \in 1 .. n : /\ merkleRoots'[k] = merkleRoots[k]
                               /\ Record(k)' = Record(k)
           /\ \A k \in 0 .. n : /\ LastCovered(k)' = LastCovered(k)
                               /\ CoveredByFirst(k)' = CoveredByFirst(k)
           /\ CoveredByFirst(n)' = CoveredReadings
           /\ CoveredReadings' = CoveredReadings
                                     \cup ToSet(payload.merkleRoot.merkle)
           /\ Record(n + 1)' = Contract!NewRecord(Daemon, payload)
           /\ Covered' = payload.endBlock
           /\ LastCovered(n)' = Covered
<1>1. TrailInv /\ LedgerInv /\ DaemonInv
  BY DEF MultichainInv
<1>2. payload.merkleRoot \in Roots
  BY <1>1, SubmittedIsWindow, WindowPlaces
<1>3. \A k \in DOMAIN merkleRoots : merkleRoots[k] # payload.merkleRoot
  BY AnswersToSubmitted
<1>4. /\ merkleRoots' = Append(merkleRoots, payload.merkleRoot)
      /\ anchorings' = [anchorings EXCEPT ![payload.merkleRoot] =
                            Contract!NewRecord(Daemon, payload)]
  BY DEF Contract!Store
<1>5. merkleRoots \in Seq(Roots) /\ DOMAIN anchorings = Roots
  BY <1>1 DEF LedgerInv
<1>6. /\ n \in Nat
      /\ DOMAIN merkleRoots = 1 .. n /\ DOMAIN merkleRoots' = 1 .. n + 1
      /\ Len(merkleRoots') = n + 1
      /\ merkleRoots' \in Seq(Roots)
      /\ merkleRoots'[n + 1] = payload.merkleRoot
      /\ \A k \in 1 .. n : merkleRoots'[k] = merkleRoots[k] /\ merkleRoots[k] \in Roots
  BY <1>2, <1>4, <1>5
<1> HIDE DEF Contract!NewRecord
<1>7. /\ DOMAIN anchorings' = Roots
      /\ anchorings'[payload.merkleRoot] = Contract!NewRecord(Daemon, payload)
      /\ \A root \in Roots : root # payload.merkleRoot
                            => anchorings'[root] = anchorings[root]
  BY <1>2, <1>4, <1>5
<1>8. \A k \in 1 .. n : Record(k)' = Record(k)
  BY <1>3, <1>6, <1>7 DEF Record
<1>9. \A k \in 0 .. n : LastCovered(k)' = LastCovered(k)
  BY <1>6, <1>8 DEF LastCovered
<1>10. Record(n + 1)' = Contract!NewRecord(Daemon, payload)
  BY <1>6, <1>7 DEF Record
<1>11. Covered' = payload.endBlock
  <2>1. n + 1 # 0
    BY <1>6
  <2>2. Covered' = (Record(n + 1)').endBlock
    BY <1>6, <2>1 DEF Covered, LastCovered
  <2> QED BY <1>10, <2>2 DEF Contract!NewRecord
<1>12. LastCovered(n)' = Covered
  BY <1>6, <1>9 DEF Covered
<1>13. ASSUME NEW k \in 0 .. n
       PROVE  CoveredByFirst(k)' = CoveredByFirst(k)
  <2>1. \A j \in 1 .. k : merkleRoots'[j] = merkleRoots[j]
    BY <1>6
  <2> QED BY <2>1 DEF CoveredByFirst, ToSet
<1>14. CoveredByFirst(n)' = CoveredReadings
  BY <1>6, <1>13 DEF CoveredByFirst, CoveredReadings
<1>15. CoveredReadings' = CoveredReadings \cup ToSet(payload.merkleRoot.merkle)
  <2>1. CoveredReadings' = UNION {ToSet(merkleRoots'[k].merkle) : k \in 1 .. n + 1}
    BY <1>6 DEF CoveredReadings, ToSet
  <2>2. CoveredReadings = UNION {ToSet(merkleRoots[k].merkle) : k \in 1 .. n}
    BY <1>6 DEF CoveredReadings
  <2>3. 1 .. n + 1 = (1 .. n) \cup {n + 1}
    BY <1>6
  <2> QED BY <1>6, <2>1, <2>2, <2>3
<1> QED BY <1>6, <1>7, <1>8, <1>9, <1>10, <1>11, <1>12, <1>13, <1>14, <1>15

\* A submission is executed or reverted.
LEMMA AnchorKinds ==
    ASSUME NEW payload, Contract!AnchorReconciliation(Daemon, payload)
    PROVE  /\ receipt' = Contract!AnchorVerdict(Daemon, payload)
           /\ IF receipt' = "Ok" THEN Contract!Store(Daemon, payload)
                                ELSE UNCHANGED <<anchorings, merkleRoots>>
BY DEF Contract!AnchorReconciliation, Contract!Revert, Contract!storage

\* A step leaves the ledger alone, or stores what the daemon submits.
LEMMA LedgerSteps ==
    ASSUME [MultichainNext]_allVars
    PROVE  \/ UNCHANGED <<anchorings, merkleRoots>>
           \/ /\ HasWindow
              /\ Contract!AnchorVerdict(Daemon, Submitted) = "Ok"
              /\ Contract!Store(Daemon, Submitted)
              /\ UNCHANGED <<vars, blocks>>
<1> USE DEF contract
<1>1. CASE SubmitAcknowledged \/ SubmitReceiptLost
  <2>1. /\ HasWindow /\ Contract!AnchorReconciliation(Daemon, Submitted)
        /\ UNCHANGED <<vars, blocks>>
    BY <1>1 DEF SubmitAcknowledged, SubmitReceiptLost
  <2> QED
    BY <2>1 DEF Contract!AnchorReconciliation, Contract!Revert, Contract!storage
<1>2. CASE UNCHANGED allVars
  BY <1>2 DEF allVars
<1> QED
  BY <1>1, <1>2 DEF MultichainNext, OperationalStep, FinalizeBlock,
                    SubmitLost, Partition, Heal

\* With the readings of the window that it submits, a daemon that knows the
\* ledger has covered all that is final up to the end of this window.
LEMMA WindowCompletes ==
    ASSUME MultichainInv, HasWindow, KnowsLedger, NEW payload,
           payload = Submitted
    PROVE  /\ payload.endBlock \in anchoredTo + 1 .. Len(blocks)
           /\ ToSet(FinalReadings(payload.endBlock))
                  = CoveredReadings \cup ToSet(payload.merkleRoot.merkle)
<1>1. PICK w : w = payload.merkleRoot.merkle
  OBVIOUS
<1>2. PICK e, old, new : /\ e = payload.endBlock
                         /\ old = FinalReadings(anchoredTo)
                         /\ new = FinalReadings(e)
  OBVIOUS
<1>3. TrailInv /\ LedgerInv /\ DaemonInv
  BY DEF MultichainInv
<1>4. IsWindow(payload) /\ payload.startBlock = anchoredTo + 1
  BY <1>3, SubmittedIsWindow
<1>5. /\ anchoredTo \in Nat /\ Len(blocks) \in Nat
      /\ payload.startBlock - 1 = anchoredTo
      /\ payload.startBlock \in 1 .. Len(blocks)
      /\ e \in payload.startBlock .. Len(blocks)
      /\ anchoredTo \in 0 .. Len(blocks) /\ e \in 0 .. Len(blocks)
      /\ anchoredTo <= e
  <2>1. /\ anchoredTo \in Nat /\ Len(blocks) \in Nat
        /\ anchoredTo \in 0 .. Len(blocks)
    BY <1>3, FinalReadingsFacts DEF DaemonInv
  <2>2. /\ payload.startBlock \in 1 .. Len(blocks)
        /\ e \in payload.startBlock .. Len(blocks)
    BY <1>2, <1>4 DEF IsWindow
  <2> QED BY <1>4, <2>1, <2>2
<1>6. /\ old \in Seq(EventHashes) /\ new \in Seq(EventHashes)
      /\ Begins(old, new)
  BY <1>2, <1>3, <1>5, FinalReadingsFacts
<1>7. /\ Len(w) = Len(new) - Len(old)
      /\ DOMAIN w = 1 .. Len(w)
      /\ \A i \in 1 .. Len(w) : w[i] = new[Len(old) + i]
  <2>1. FinalizedBy(payload.startBlock - 1) < FinalizedBy(e)
    BY <1>2, <1>4 DEF IsWindow
  <2>2. w = WindowReadings(payload.startBlock, e)
    BY <1>1, <1>2, <1>4 DEF IsWindow, Root
  <2>3. /\ w \in Seq(EventHashes)
        /\ Len(w) = FinalizedBy(e) - FinalizedBy(payload.startBlock - 1)
        /\ \A i \in 1 .. Len(w) :
              w[i] = new[FinalizedBy(payload.startBlock - 1) + i]
    BY <1>2, <1>3, <1>5, <2>1, <2>2, WindowFacts
  <2>4. FinalizedBy(e) = Len(new)
        /\ FinalizedBy(payload.startBlock - 1) = Len(old)
    BY <1>2, <1>5 DEF FinalizedBy
  <2>5. DOMAIN w = 1 .. Len(w)
    BY <2>3
  <2> QED BY <2>3, <2>4, <2>5
<1>8. ToSet(new) = ToSet(old) \cup ToSet(w)
  <2>1. /\ Len(old) \in Nat /\ Len(new) \in Nat
        /\ DOMAIN old = 1 .. Len(old) /\ DOMAIN new = 1 .. Len(new)
        /\ Len(old) <= Len(new)
        /\ \A i \in 1 .. Len(old) : new[i] = old[i]
    BY <1>6 DEF Begins
  <2>2. ASSUME NEW i \in 1 .. Len(new)
        PROVE  new[i] \in ToSet(old) \cup ToSet(w)
    <3>1. CASE i <= Len(old)
      BY <2>1, <3>1 DEF ToSet
    <3>2. CASE i > Len(old)
      <4>1. i - Len(old) \in 1 .. Len(w) /\ Len(old) + (i - Len(old)) = i
        BY <1>7, <2>1, <3>2
      <4> QED BY <1>7, <4>1 DEF ToSet
    <3> QED BY <2>1, <3>1, <3>2
  <2>3. ASSUME NEW i \in 1 .. Len(old) PROVE old[i] \in ToSet(new)
    BY <2>1 DEF ToSet
  <2>4. ASSUME NEW i \in 1 .. Len(w) PROVE w[i] \in ToSet(new)
    <3>1. Len(old) + i \in 1 .. Len(new)
      BY <1>7, <2>1
    <3> QED BY <1>7, <2>1, <3>1 DEF ToSet
  <2> QED BY <1>7, <2>1, <2>2, <2>3, <2>4 DEF ToSet
<1>9. CoveredReadings = ToSet(old)
  BY <1>2 DEF KnowsLedger
<1> QED BY <1>1, <1>2, <1>4, <1>5, <1>8, <1>9

\* A stored window covers all that is final up to its end.
LEMMA StoreCovers ==
    ASSUME MultichainInv, HasWindow, NEW payload, payload = Submitted,
           Contract!AnchorVerdict(Daemon, payload) = "Ok",
           Contract!Store(Daemon, payload)
    PROVE  CoveredReadings' = ToSet(FinalReadings(payload.endBlock))
<1>1. KnowsLedger
  BY AnswersToSubmitted
<1>2. CoveredReadings' = CoveredReadings \cup ToSet(payload.merkleRoot.merkle)
  BY StoreExtends
<1> QED BY <1>1, <1>2, WindowCompletes

\* A step keeps the invariant of the ledger.
LEMMA NextLedgerInv ==
    MultichainInv /\ [MultichainNext]_allVars => LedgerInv'
<1> SUFFICES ASSUME MultichainInv, [MultichainNext]_allVars PROVE LedgerInv'
  OBVIOUS
<1>1. TrailInv /\ LedgerInv /\ DaemonInv
  BY DEF MultichainInv
<1>2. /\ Len(blocks) \in Nat /\ Len(blocks') \in Nat
      /\ Len(blocks) <= Len(blocks')
  BY <1>1, FinalReadingsStable
<1>3. ASSUME NEW b \in 0 .. Len(blocks)
      PROVE  ToSet(FinalReadings(b))' = ToSet(FinalReadings(b))
  BY <1>1, FinalReadingsStable DEF ToSet
<1>4. CASE UNCHANGED <<anchorings, merkleRoots>>
  <2>1. /\ \A k : Record(k)' = Record(k) /\ LastCovered(k)' = LastCovered(k)
        /\ Covered' = Covered /\ CoveredReadings' = CoveredReadings
        /\ \A k : CoveredByFirst(k)' = CoveredByFirst(k)
    BY <1>4, LedgerUnchanged
  <2>2. Covered \in 0 .. Len(blocks) /\ Covered \in 0 .. Len(blocks')
    BY <1>1, <1>2 DEF LedgerInv
  <2>3. CoveredReadings' = ToSet(FinalReadings(Covered))'
    BY <1>1, <1>3, <2>1, <2>2 DEF LedgerInv
  <2>4. ASSUME NEW k \in DOMAIN merkleRoots
        PROVE  /\ merkleRoots'[k] # ZeroWord
               /\ (Record(k)').merkleRoot = merkleRoots'[k]
               /\ IsWindow(Record(k))'
               /\ LastCovered(k - 1)' < (Record(k)').startBlock
               /\ (Record(k)').endBlock <= Covered'
               /\ PriorCovered(Record(k), k - 1)'
    <3>1. PICK window : window = Record(k)
      OBVIOUS
    <3>2. IsWindow(window)'
      BY <1>1, <3>1, WindowStays DEF LedgerInv
    <3>3. IsWindow(Record(k))'
      BY <2>1, <3>1, <3>2 DEF IsWindow
    <3>4. PICK m : m = k - 1
      OBVIOUS
    <3>5. PriorCovered(window, m)'
      BY <1>1, <2>1, <3>1, <3>4, PriorStays DEF LedgerInv
    <3>6. PriorCovered(Record(k), k - 1)'
      BY <2>1, <3>1, <3>4, <3>5 DEF PriorCovered
    <3> QED BY <1>1, <1>4, <2>1, <3>3, <3>6 DEF LedgerInv
  <2> QED BY <1>1, <1>4, <2>1, <2>2, <2>3, <2>4 DEF LedgerInv
<1>5. CASE /\ HasWindow
           /\ Contract!AnchorVerdict(Daemon, Submitted) = "Ok"
           /\ Contract!Store(Daemon, Submitted)
           /\ UNCHANGED <<vars, blocks>>
  <2>1. PICK payload : payload = Submitted
    OBVIOUS
  <2>2. PICK n : n = Len(merkleRoots)
    OBVIOUS
  <2>3. /\ n \in Nat
        /\ DOMAIN merkleRoots = 1 .. n /\ DOMAIN merkleRoots' = 1 .. n + 1
        /\ merkleRoots' \in Seq(Roots) /\ DOMAIN anchorings' = Roots
        /\ merkleRoots'[n + 1] = payload.merkleRoot
        /\ \A root \in Roots : root # payload.merkleRoot
                              => anchorings'[root] = anchorings[root]
        /\ \A k \in 1 .. n : /\ merkleRoots'[k] = merkleRoots[k]
                            /\ Record(k)' = Record(k)
        /\ \A k \in 0 .. n : /\ LastCovered(k)' = LastCovered(k)
                            /\ CoveredByFirst(k)' = CoveredByFirst(k)
        /\ CoveredByFirst(n)' = CoveredReadings
        /\ Record(n + 1)' = Contract!NewRecord(Daemon, payload)
        /\ Covered' = payload.endBlock
        /\ LastCovered(n)' = Covered
    BY <1>5, <2>1, <2>2, StoreExtends
  <2>4. /\ IsWindow(payload) /\ payload.startBlock = anchoredTo + 1
        /\ payload.merkleRoot # ZeroWord
        /\ KnowsLedger
    BY <1>1, <1>5, <2>1, SubmittedIsWindow, AnswersToSubmitted
  <2>5. /\ Covered \in Nat /\ anchoredTo \in Nat
        /\ anchoredTo \in 0 .. Len(blocks)
        /\ Covered < payload.startBlock
        /\ payload.startBlock \in 1 .. Len(blocks)
        /\ payload.endBlock \in payload.startBlock .. Len(blocks)
    BY <1>1, <1>2, <2>4 DEF LedgerInv, DaemonInv, KnowsLedger, IsWindow
  <2>6. payload.endBlock \in 0 .. Len(blocks) /\ Covered <= payload.endBlock
    BY <1>2, <2>4, <2>5
  <2>7. /\ Covered' \in 0 .. Len(blocks')
        /\ CoveredReadings' = ToSet(FinalReadings(Covered))'
    <3>1. CoveredReadings' = ToSet(FinalReadings(payload.endBlock))
      BY <1>5, <2>1, StoreCovers
    <3>2. CoveredReadings' = ToSet(FinalReadings(payload.endBlock))'
      BY <1>3, <2>6, <3>1
    <3>3. FinalReadings(Covered)' = FinalReadings(payload.endBlock)'
      BY <2>3 DEF FinalReadings
    <3> QED BY <1>2, <2>3, <2>6, <3>2, <3>3 DEF ToSet
  <2>8. ASSUME NEW k \in 1 .. n
        PROVE  /\ merkleRoots'[k] # ZeroWord
               /\ (Record(k)').merkleRoot = merkleRoots'[k]
               /\ IsWindow(Record(k))'
               /\ LastCovered(k - 1)' < (Record(k)').startBlock
               /\ (Record(k)').endBlock <= Covered'
               /\ PriorCovered(Record(k), k - 1)'
    <3>1. PICK window, m : window = Record(k) /\ m = k - 1
      OBVIOUS
    <3>2. /\ IsWindow(window) /\ window.endBlock <= Covered
          /\ window.merkleRoot = merkleRoots[k] /\ merkleRoots[k] # ZeroWord
          /\ LastCovered(m) < window.startBlock
          /\ PriorCovered(window, m)
      BY <1>1, <2>3, <3>1 DEF LedgerInv
    <3>3. IsWindow(window)'
      BY <1>1, <3>2, WindowStays
    <3>4. IsWindow(Record(k))'
      BY <2>3, <3>1, <3>3 DEF IsWindow
    <3>5. m \in 0 .. n
      BY <2>3, <3>1
    <3>6. window.endBlock <= payload.endBlock
      BY <1>2, <2>5, <2>6, <3>2 DEF IsWindow
    <3>7. PriorCovered(window, m)'
      BY <1>1, <2>3, <3>2, <3>5, PriorStays
    <3>8. PriorCovered(Record(k), k - 1)'
      BY <2>3, <3>1, <3>7 DEF PriorCovered
    <3> QED BY <2>3, <3>1, <3>2, <3>4, <3>5, <3>6, <3>8
  <2>9. /\ merkleRoots'[n + 1] # ZeroWord
        /\ (Record(n + 1)').merkleRoot = merkleRoots'[n + 1]
        /\ IsWindow(Record(n + 1))'
        /\ LastCovered((n + 1) - 1)' < (Record(n + 1)').startBlock
        /\ (Record(n + 1)').endBlock <= Covered'
        /\ PriorCovered(Record(n + 1), (n + 1) - 1)'
    <3>1. IsWindow(payload)'
      BY <1>1, <2>4, WindowStays
    <3>2. PICK window : window = Contract!NewRecord(Daemon, payload)
      OBVIOUS
    <3>3. /\ window.merkleRoot = payload.merkleRoot
          /\ window.startBlock = payload.startBlock
          /\ window.endBlock = payload.endBlock
          /\ window.eventCount = payload.eventCount
      BY <3>2 DEF Contract!NewRecord
    <3>4. IsWindow(window)'
      BY <3>1, <3>3 DEF IsWindow
    <3>5. IsWindow(Record(n + 1))'
      BY <2>3, <3>2, <3>4 DEF IsWindow
    <3>6. (n + 1) - 1 = n
      BY <2>3
    <3>7. (Record(n + 1)') = window
      BY <2>3, <3>2
    <3>8. payload.endBlock <= Covered'
      BY <1>2, <2>3, <2>5
    <3>9. PriorCovered(window, n)'
      <4>1. payload.startBlock - 1 = anchoredTo
        BY <2>4, <2>5
      <4>2. PICK before : before = anchoredTo
        OBVIOUS
      <4>3. ToSet(FinalReadings(before))' = ToSet(FinalReadings(before))
        BY <1>3, <2>5, <4>2
      <4>4. ToSet(FinalReadings(before)) = CoveredReadings
        BY <2>4, <4>2 DEF KnowsLedger
      <4> QED BY <2>3, <3>3, <4>1, <4>2, <4>3, <4>4 DEF PriorCovered
    <3>10. PriorCovered(Record(n + 1), (n + 1) - 1)'
      BY <3>6, <3>7, <3>9 DEF PriorCovered
    <3> QED BY <2>3, <2>4, <2>5, <3>3, <3>5, <3>6, <3>7, <3>8, <3>10
  <2>10. ASSUME NEW root \in Roots, anchorings'[root].merkleRoot # ZeroWord
         PROVE  \E k \in 1 .. n + 1 : merkleRoots'[k] = root
    <3>1. CASE root = payload.merkleRoot
      BY <2>3, <3>1
    <3>2. CASE root # payload.merkleRoot
      <4>1. PICK k \in 1 .. n : merkleRoots[k] = root
        BY <1>1, <2>3, <2>10, <3>2 DEF LedgerInv
      <4>2. k \in 1 .. n + 1
        BY <2>3
      <4> QED BY <2>3, <4>1, <4>2
    <3> QED BY <3>1, <3>2
  <2>11. ASSUME NEW k \in DOMAIN merkleRoots'
         PROVE  k \in 1 .. n \/ k = n + 1
    BY <2>3, <2>11
  <2> QED BY <2>3, <2>7, <2>8, <2>9, <2>10, <2>11 DEF LedgerInv
<1> QED BY <1>4, <1>5, LedgerSteps

-----------------------------------------------------------------------------
(* The daemon.                                                             *)

\* As long as the contract and the daemon stay as they are, the daemon knows
\* the ledger or still misses its last window.
LEMMA KnowledgeStays ==
    ASSUME TrailInv, [MultichainNext]_allVars, anchoredTo \in 0 .. Len(blocks),
           UNCHANGED <<anchorings, merkleRoots, anchoredTo>>, KnowsLedger
    PROVE  KnowsLedger'
<1>1. Covered' = Covered /\ CoveredReadings' = CoveredReadings
  BY LedgerUnchanged
<1>2. PICK last : last = anchoredTo
  OBVIOUS
<1>3. FinalReadings(last)' = FinalReadings(last)
  BY <1>2, FinalReadingsStable
<1>4. ToSet(FinalReadings(last))' = ToSet(FinalReadings(last))
  BY <1>3 DEF ToSet
<1>5. ToSet(FinalReadings(anchoredTo))' = ToSet(FinalReadings(last))'
  BY <1>2 DEF FinalReadings, ToSet
<1> QED BY <1>1, <1>2, <1>4, <1>5 DEF KnowsLedger

\* Where the daemon stands after it submitted a window and did not learn of
\* its fate.
LEMMA DaemonWaits ==
    ASSUME MultichainInv, [MultichainNext]_allVars, HasWindow,
           UNCHANGED anchoredTo, pending' = <<Submitted>>,
           \/ UNCHANGED <<anchorings, merkleRoots>>
           \/ /\ Contract!AnchorVerdict(Daemon, Submitted) = "Ok"
              /\ Contract!Store(Daemon, Submitted)
    PROVE  DaemonInv'
<1>1. TrailInv /\ LedgerInv /\ DaemonInv
  BY DEF MultichainInv
<1>2. PICK payload : payload = Submitted
  OBVIOUS
<1>3. /\ IsWindow(payload) /\ payload.startBlock = anchoredTo + 1
  BY <1>1, <1>2, SubmittedIsWindow
<1>4. IsWindow(payload)'
  BY <1>1, <1>3, WindowStays
<1>5. /\ pending' = <<payload>> /\ pending'[1] = payload /\ pending' # <<>>
  BY <1>2
<1>6. IsWindow(pending[1])'
  BY <1>4, <1>5 DEF IsWindow
<1>7. anchoredTo' \in 0 .. Len(blocks')
  BY <1>1, FinalReadingsStable DEF DaemonInv
<1>8. CASE UNCHANGED <<anchorings, merkleRoots>>
  <2>1. KnowsLedger => KnowsLedger'
    BY <1>1, <1>8, KnowledgeStays DEF DaemonInv
  <2>2. MissesLast => pending[1] = payload
    BY <1>2 DEF MissesLast, Submitted
  <2>3. MissesLast => MissesLast'
    BY <1>5, <1>8, <2>2 DEF MissesLast, Covered, LastCovered, Record
  <2> QED BY <1>1, <1>3, <1>5, <1>6, <1>7, <2>1, <2>3 DEF DaemonInv
<1>9. CASE /\ Contract!AnchorVerdict(Daemon, Submitted) = "Ok"
           /\ Contract!Store(Daemon, Submitted)
  <2>1. PICK n : n = Len(merkleRoots)
    OBVIOUS
  <2>2. /\ n \in Nat /\ Len(merkleRoots') = n + 1
        /\ DOMAIN merkleRoots' = 1 .. n + 1
        /\ merkleRoots'[n + 1] = payload.merkleRoot
        /\ Record(n + 1)' = Contract!NewRecord(Daemon, payload)
        /\ Covered' = payload.endBlock
        /\ LastCovered(n)' = Covered
    BY <1>2, <1>9, <2>1, StoreExtends
  <2>3. (n + 1) - 1 = n /\ merkleRoots' # <<>>
    BY <2>2
  <2>4. Covered <= anchoredTo
    BY <1>2, <1>9, AnswersToSubmitted DEF KnowsLedger
  <2>5. LastCovered(Len(merkleRoots) - 1)' = LastCovered(n)'
    BY <2>2, <2>3 DEF LastCovered, Record
  <2>6. (Record(Len(merkleRoots))').startBlock = anchoredTo + 1
    <3>1. Record(Len(merkleRoots))' = Record(n + 1)'
      BY <2>2 DEF Record
    <3> QED BY <1>3, <2>2, <3>1 DEF Contract!NewRecord
  <2>7. MissesLast'
    BY <1>5, <2>2, <2>3, <2>4, <2>5, <2>6 DEF MissesLast
  <2> QED BY <1>3, <1>5, <1>6, <1>7, <2>7 DEF DaemonInv
<1> QED BY <1>8, <1>9

\* After an answer that ends the window, all that is final up to the end of
\* this window is covered.
LEMMA AnswerCovers ==
    ASSUME MultichainInv, HasWindow, NEW payload, payload = Submitted
    PROVE  LET verdict == Contract!AnchorVerdict(Daemon, payload) IN
           \/ verdict = "Ok" /\ Contract!Store(Daemon, payload)
           \/ /\ verdict = "Merkle root already anchored"
              /\ UNCHANGED <<anchorings, merkleRoots>>
           => /\ Covered' <= payload.endBlock
              /\ CoveredReadings' = ToSet(FinalReadings(payload.endBlock))
<1>1. TrailInv /\ LedgerInv /\ DaemonInv
  BY DEF MultichainInv
<1>2. /\ Len(blocks) \in Nat
      /\ payload.startBlock \in 1 .. Len(blocks)
      /\ payload.endBlock \in payload.startBlock .. Len(blocks)
  BY <1>1, SubmittedIsWindow, FinalReadingsFacts DEF IsWindow
<1> DEFINE Covers ==
        /\ Covered' <= payload.endBlock
        /\ CoveredReadings' = ToSet(FinalReadings(payload.endBlock))
<1>3. ASSUME Contract!AnchorVerdict(Daemon, payload) = "Ok",
             Contract!Store(Daemon, payload)
      PROVE  Covers
  <2>1. Covered' = payload.endBlock
    BY <1>3, StoreExtends
  <2> QED BY <1>2, <1>3, <2>1, StoreCovers
<1>4. ASSUME Contract!AnchorVerdict(Daemon, payload)
                 = "Merkle root already anchored",
             UNCHANGED <<anchorings, merkleRoots>>
      PROVE  Covers
  <2>1. Covered' = Covered /\ CoveredReadings' = CoveredReadings
    BY <1>4, LedgerUnchanged
  <2>2. CASE MissesLast /\ payload = pending[1]
    <3>1. payload.endBlock = Covered
      BY <2>2 DEF MissesLast
    <3>2. CoveredReadings = ToSet(FinalReadings(Covered))
      BY <1>1 DEF LedgerInv
    <3>3. payload.endBlock <= payload.endBlock
      BY <1>2
    <3> QED BY <2>1, <3>1, <3>2, <3>3
  <2>3. CASE /\ KnowsLedger
             /\ \E k \in DOMAIN merkleRoots : merkleRoots[k] = payload.merkleRoot
    <3>1. ToSet(payload.merkleRoot.merkle) \subseteq CoveredReadings
      BY <2>3 DEF CoveredReadings
    <3>2. /\ payload.endBlock \in anchoredTo + 1 .. Len(blocks)
          /\ ToSet(FinalReadings(payload.endBlock)) = CoveredReadings
      BY <2>3, <3>1, WindowCompletes
    <3>3. PICK c, a, e, b : /\ c = Covered /\ a = anchoredTo
                            /\ e = payload.endBlock /\ b = Len(blocks)
      OBVIOUS
    <3>4. /\ c \in 0 .. b /\ a \in 0 .. b /\ b \in Nat /\ c <= a
          /\ e \in a + 1 .. b
      BY <1>1, <1>2, <2>3, <3>2, <3>3 DEF LedgerInv, DaemonInv, KnowsLedger
    <3>5. c <= e
      BY <3>4
    <3> QED BY <2>1, <3>2, <3>3, <3>5
  <2> QED BY <1>4, <2>2, <2>3, AnswersToSubmitted
<1> QED BY <1>3, <1>4

\* A step keeps the invariant of the daemon.
LEMMA NextDaemonInv ==
    MultichainInv /\ [MultichainNext]_allVars => DaemonInv'
<1> SUFFICES ASSUME MultichainInv, [MultichainNext]_allVars PROVE DaemonInv'
  OBVIOUS
<1>1. TrailInv /\ LedgerInv /\ DaemonInv
  BY DEF MultichainInv
<1>2. CASE UNCHANGED <<anchorings, merkleRoots, anchoredTo, pending>>
  <2>1. KnowsLedger => KnowsLedger'
    BY <1>1, <1>2, KnowledgeStays DEF DaemonInv
  <2>2. MissesLast => MissesLast'
    BY <1>2 DEF MissesLast, Covered, LastCovered, Record
  <2>3. anchoredTo' \in 0 .. Len(blocks')
    BY <1>1, <1>2, FinalReadingsStable DEF DaemonInv
  <2>4. pending # <<>> => IsWindow(pending[1])'
    <3>1. PICK window : window = pending[1]
      OBVIOUS
    <3>2. pending # <<>> => IsWindow(window)'
      BY <1>1, <3>1, WindowStays DEF DaemonInv
    <3> QED BY <1>2, <3>1, <3>2 DEF IsWindow
  <2> QED BY <1>1, <1>2, <2>1, <2>2, <2>3, <2>4 DEF DaemonInv
<1>3. CASE SubmitAcknowledged
  <2>1. /\ HasWindow
        /\ receipt' = Contract!AnchorVerdict(Daemon, Submitted)
        /\ IF receipt' = "Ok" THEN Contract!Store(Daemon, Submitted)
                              ELSE UNCHANGED <<anchorings, merkleRoots>>
        /\ UNCHANGED <<vars, blocks>>
    BY <1>3, AnchorKinds DEF SubmitAcknowledged
  <2>2. CASE receipt' \notin {"Ok", "Merkle root already anchored"}
    BY <1>3, <2>1, <2>2, DaemonWaits DEF SubmitAcknowledged, IsDone
  <2>3. CASE receipt' \in {"Ok", "Merkle root already anchored"}
    <3>1. PICK payload, last : payload = Submitted /\ last = payload.endBlock
      OBVIOUS
    <3>2. anchoredTo' = last /\ pending' = <<>>
      BY <1>3, <2>3, <3>1 DEF SubmitAcknowledged, IsDone
    <3>3. last \in anchoredTo + 1 .. Len(blocks)
      BY <1>1, <2>1, <3>1, SubmittedIsWindow DEF IsWindow
    <3>4. FinalReadings(anchoredTo)' = FinalReadings(last)
      BY <2>1, <3>2 DEF FinalReadings, vars, storage
    <3>5. Covered' <= last /\ CoveredReadings' = ToSet(FinalReadings(last))
      BY <1>1, <2>1, <2>3, <3>1, AnswerCovers
    <3>6. KnowsLedger'
      BY <3>2, <3>4, <3>5 DEF KnowsLedger, ToSet
    <3>7. last \in 0 .. Len(blocks')
      BY <1>1, <2>1, <3>3, FinalReadingsFacts DEF DaemonInv
    <3> QED BY <3>2, <3>6, <3>7 DEF DaemonInv
  <2> QED BY <2>2, <2>3
<1>4. CASE SubmitReceiptLost
  <2>1. /\ HasWindow
        /\ receipt' = Contract!AnchorVerdict(Daemon, Submitted)
        /\ IF receipt' = "Ok" THEN Contract!Store(Daemon, Submitted)
                              ELSE UNCHANGED <<anchorings, merkleRoots>>
    BY <1>4, AnchorKinds DEF SubmitReceiptLost
  <2> QED BY <1>4, <2>1, DaemonWaits DEF SubmitReceiptLost
<1>5. CASE SubmitLost
  BY <1>5, DaemonWaits DEF SubmitLost, contract
<1>6. CASE OperationalStep \/ FinalizeBlock \/ Partition \/ Heal
           \/ UNCHANGED allVars
  BY <1>2, <1>6 DEF OperationalStep, FinalizeBlock, Partition, Heal,
                    allVars, contract, daemon
<1> QED BY <1>3, <1>4, <1>5, <1>6 DEF MultichainNext

-----------------------------------------------------------------------------
(* The theorems.                                                           *)

\* Both chains start empty, and the daemon has anchored nothing.
LEMMA InitMultichainInv == MultichainInit => MultichainInv
<1> SUFFICES ASSUME MultichainInit PROVE MultichainInv
  OBVIOUS
<1>1. /\ Init /\ Contract!Init /\ blocks = <<>> /\ anchoredTo = 0
      /\ pending = <<>>
  BY DEF MultichainInit
<1>2. TypeOK /\ deposited = <<>> /\ DOMAIN devices = {}
  BY <1>1, InitTypeOK DEF Init, EmptyMap
<1>3. Recorded = <<>>
  <2>1. <<>> \in Seq(EventRecord) /\ Len(<<>>) = 0
    OBVIOUS
  <2> QED BY <1>2, <2>1, ReadingsInDef DEF Recorded
<1>4. TrailInv
  <2>1. MaxDeposits \in Nat
    BY PalletAssumption
  <2> QED BY <1>1, <1>2, <1>3, <2>1 DEF TrailInv
<1>5. /\ merkleRoots = <<>>
      /\ DOMAIN anchorings = Roots
      /\ \A root \in Roots : anchorings[root].merkleRoot = ZeroWord
  BY <1>1 DEF Contract!Init, Contract!EmptyRecord
<1>6. Covered = 0 /\ CoveredReadings = {} /\ FinalReadings(0) = <<>>
  BY <1>5 DEF Covered, LastCovered, CoveredReadings, FinalReadings
<1>7. LedgerInv
  BY <1>1, <1>5, <1>6 DEF LedgerInv, ToSet
<1>8. DaemonInv
  BY <1>1, <1>6 DEF DaemonInv, KnowsLedger, ToSet
<1> QED BY <1>4, <1>7, <1>8 DEF MultichainInv

\* The invariant holds in every state of the two chains and the daemon.
LEMMA MultichainInvariance == MultichainSpec => []MultichainInv
<1>1. MultichainInv /\ [MultichainNext]_allVars => MultichainInv'
  BY NextTrailInv, NextLedgerInv, NextDaemonInv DEF MultichainInv
<1> QED BY <1>1, InitMultichainInv, PTL DEF MultichainSpec

\* The anchored windows are in the order of the blocks, and what was final
\* before each of them is covered, through any number of partitions, losses,
\* resubmissions and replays.
THEOREM WindowsAlwaysInOrder == MultichainSpec => []WindowsInOrder
<1>1. MultichainInv => WindowsInOrder
  <2> SUFFICES ASSUME MultichainInv, NEW k \in DOMAIN merkleRoots
               PROVE  LET window == WindowReadings(Record(k).startBlock,
                                                   Record(k).endBlock)
                      IN /\ merkleRoots[k] = Root(window)
                         /\ Record(k).eventCount = Len(window)
                         /\ LastCovered(k - 1) < Record(k).startBlock
                         /\ Record(k).endBlock <= Len(blocks)
                         /\ ToSet(FinalReadings(Record(k).startBlock - 1))
                                \subseteq CoveredByFirst(k - 1)
    BY DEF WindowsInOrder
  <2>1. /\ LastCovered(k - 1) < Record(k).startBlock
        /\ Record(k).merkleRoot = merkleRoots[k]
        /\ IsWindow(Record(k))
        /\ PriorCovered(Record(k), k - 1)
    BY DEF MultichainInv, LedgerInv
  <2>2. Len(blocks) \in Nat
    BY FinalReadingsFacts DEF MultichainInv
  <2> QED BY <2>1, <2>2 DEF IsWindow, PriorCovered
<1> QED BY <1>1, MultichainInvariance, PTL

\* All that the daemon takes for anchored is covered, and it misses one window
\* of the ledger at most.
THEOREM BeliefAlwaysCovered == MultichainSpec => []BeliefIsCovered
<1>1. MultichainInv => BeliefIsCovered
  <2> SUFFICES ASSUME MultichainInv PROVE BeliefIsCovered
    OBVIOUS
  <2>1. TrailInv /\ LedgerInv /\ DaemonInv
    BY DEF MultichainInv
  <2>2. CASE KnowsLedger
    BY <2>2 DEF KnowsLedger, BeliefIsCovered, Covered
  <2>3. CASE MissesLast
    <3>1. PICK n : n = Len(merkleRoots)
      OBVIOUS
    <3>2. /\ n \in DOMAIN merkleRoots
          /\ Record(n).startBlock = anchoredTo + 1
      BY <2>1, <2>3, <3>1, LastIsListed DEF MissesLast
    <3>3. IsWindow(Record(n)) /\ Record(n).endBlock <= Covered
      BY <2>1, <3>2 DEF LedgerInv
    <3>4. /\ Len(blocks) \in Nat
          /\ anchoredTo \in 0 .. Len(blocks) /\ Covered \in 0 .. Len(blocks)
          /\ anchoredTo <= Covered
      BY <2>1, <3>2, <3>3, FinalReadingsFacts DEF LedgerInv, DaemonInv, IsWindow
    <3>5. /\ Begins(FinalReadings(anchoredTo), FinalReadings(Covered))
          /\ FinalReadings(anchoredTo) \in Seq(EventHashes)
          /\ FinalReadings(Covered) \in Seq(EventHashes)
      BY <2>1, <3>4, FinalReadingsFacts
    <3>6. ToSet(FinalReadings(anchoredTo)) \subseteq ToSet(FinalReadings(Covered))
      BY <3>5 DEF Begins, ToSet
    <3> QED BY <2>1, <2>3, <3>6 DEF LedgerInv, MissesLast, BeliefIsCovered
  <2> QED BY <2>1, <2>2, <2>3 DEF DaemonInv
<1> QED BY <1>1, MultichainInvariance, PTL

\* A refusal as already anchored passes over no reading: what is anchored is
\* the window itself, or an earlier one with the same readings.
THEOREM RefusalsAreCovered == MultichainSpec => RefusedWindowIsCovered
<1> DEFINE Covers ==
        receipt' = "Merkle root already anchored" /\ anchoredTo' # anchoredTo
        => LET record == anchorings[Submitted.merkleRoot] IN
           /\ WindowReadings(record.startBlock, record.endBlock)
                  = WindowReadings(anchoredTo + 1, anchoredTo')
           /\ \/ /\ record.startBlock = anchoredTo + 1
                 /\ record.endBlock = anchoredTo'
              \/ record.endBlock <= anchoredTo
<1>1. MultichainInv /\ [MultichainNext]_allVars => [Covers]_allVars
  <2>0. SUFFICES ASSUME MultichainInv, [MultichainNext]_allVars,
                        receipt' = "Merkle root already anchored",
                        anchoredTo' # anchoredTo
                 PROVE  Covers
    OBVIOUS
  <2>1. TrailInv /\ LedgerInv /\ DaemonInv
    BY <2>0 DEF MultichainInv
  <2>2. SubmitAcknowledged
    BY <2>0 DEF MultichainNext, OperationalStep, FinalizeBlock,
           SubmitReceiptLost, SubmitLost, Partition, Heal, allVars, daemon
  <2>3. PICK payload : payload = Submitted
    OBVIOUS
  <2>4. /\ HasWindow
        /\ Contract!AnchorVerdict(Daemon, payload) = "Merkle root already anchored"
        /\ anchoredTo' = payload.endBlock
    BY <2>0, <2>2, <2>3, AnchorKinds DEF SubmitAcknowledged, IsDone
  <2>5. IsWindow(payload) /\ payload.startBlock = anchoredTo + 1
    BY <2>1, <2>3, <2>4, SubmittedIsWindow
  <2>6. PICK k \in DOMAIN merkleRoots :
            /\ merkleRoots[k] = payload.merkleRoot
            /\ \/ /\ Record(k).startBlock = anchoredTo + 1
                  /\ Record(k).endBlock = payload.endBlock
               \/ Record(k).endBlock <= anchoredTo
    <3>1. CASE MissesLast /\ payload = pending[1]
      <4>1. PICK n : n = Len(merkleRoots)
        OBVIOUS
      <4>2. n \in DOMAIN merkleRoots /\ n # 0
        BY <2>1, <3>1, <4>1, LastIsListed DEF MissesLast
      <4>3. Record(n).endBlock = Covered
        BY <4>1, <4>2 DEF Covered, LastCovered
      <4> QED BY <3>1, <4>1, <4>2, <4>3 DEF MissesLast
    <3>2. CASE /\ KnowsLedger
               /\ \E i \in DOMAIN merkleRoots : merkleRoots[i] = payload.merkleRoot
      <4>1. PICK i \in DOMAIN merkleRoots : merkleRoots[i] = payload.merkleRoot
        BY <3>2
      <4>2. IsWindow(Record(i)) /\ Record(i).endBlock <= Covered
        BY <2>1, <4>1 DEF LedgerInv
      <4>3. Record(i).endBlock <= anchoredTo
        <5>1. PICK window, c, a, b : /\ window = Record(i) /\ c = Covered
                                   /\ a = anchoredTo /\ b = Len(blocks)
          OBVIOUS
        <5>2. c \in 0 .. b /\ a \in 0 .. b /\ b \in Nat /\ c <= a
          BY <2>1, <3>2, <5>1, FinalReadingsFacts
             DEF LedgerInv, DaemonInv, KnowsLedger
        <5>3. window.endBlock \in window.startBlock .. b /\ window.startBlock \in 1 .. b
          BY <4>2, <5>1 DEF IsWindow
        <5> QED BY <4>2, <5>1, <5>2, <5>3
      <4> QED BY <4>1, <4>3
    <3> QED BY <2>0, <2>3, <2>4, <3>1, <3>2, AnswersToSubmitted
  <2>7. Record(k) = anchorings[payload.merkleRoot]
    BY <2>6 DEF Record
  <2>8. IsWindow(Record(k)) /\ Record(k).merkleRoot = payload.merkleRoot
    BY <2>1, <2>6 DEF LedgerInv
  <2>9. WindowReadings(Record(k).startBlock, Record(k).endBlock)
            = WindowReadings(payload.startBlock, payload.endBlock)
    <3>1. PICK window : window = Record(k)
      OBVIOUS
    <3>2. PICK u, v : /\ u = WindowReadings(window.startBlock, window.endBlock)
                      /\ v = WindowReadings(payload.startBlock, payload.endBlock)
      OBVIOUS
    <3>3. window.merkleRoot = Root(u) /\ payload.merkleRoot = Root(v)
      BY <2>5, <2>8, <3>1, <3>2 DEF IsWindow
    <3>4. Root(u).merkle = u /\ Root(v).merkle = v
      BY DEF Root
    <3> QED BY <2>8, <3>1, <3>2, <3>3, <3>4
  <2>10. PICK record : record = anchorings[payload.merkleRoot]
    OBVIOUS
  <2>11. WindowReadings(record.startBlock, record.endBlock)
             = WindowReadings(anchoredTo + 1, anchoredTo')
    BY <2>4, <2>5, <2>7, <2>9, <2>10
  <2>12. \/ record.startBlock = anchoredTo + 1 /\ record.endBlock = anchoredTo'
         \/ record.endBlock <= anchoredTo
    BY <2>4, <2>6, <2>7, <2>10
  <2> QED BY <2>3, <2>10, <2>11, <2>12
<1> QED BY <1>1, MultichainInvariance, PTL
        DEF MultichainSpec, RefusedWindowIsCovered

\* The final readings of a state begin those of the next one.
LEMMA FinalExtends ==
    ASSUME TrailInv, [MultichainNext]_allVars
    PROVE  /\ FinalReadings(Len(blocks))' \in Seq(EventHashes)
           /\ Begins(FinalReadings(Len(blocks)), FinalReadings(Len(blocks))')
<1>1. PICK b, N : b = Len(blocks) /\ N = Len(deposited)
  OBVIOUS
<1>2. /\ b \in Nat /\ b \in 0 .. b /\ N \in Nat
      /\ blocks \in Seq(Nat) /\ deposited \in Seq(EventRecord)
      /\ FinalReadings(b) \in Seq(EventHashes)
      /\ FinalReadings(b)' = FinalReadings(b)
  <2>1. /\ N \in Nat /\ blocks \in Seq(Nat) /\ deposited \in Seq(EventRecord)
    BY <1>1 DEF TrailInv, TypeOK
  <2>2. b \in Nat /\ b \in 0 .. b
    BY <1>1, FinalReadingsFacts
  <2> QED BY <1>1, <2>1, <2>2, FinalReadingsFacts, FinalReadingsStable
<1>3. CASE blocks' = blocks
  <2>1. FinalReadings(Len(blocks))' = FinalReadings(b)'
    BY <1>1, <1>3 DEF FinalReadings
  <2>2. Begins(FinalReadings(b), FinalReadings(b))
    BY <1>2 DEF Begins
  <2> QED BY <1>1, <1>2, <2>1, <2>2
<1>4. CASE blocks' = Append(blocks, N) /\ UNCHANGED deposited
  <2>1. Len(blocks') = b + 1 /\ blocks'[b + 1] = N /\ b + 1 # 0
    BY <1>1, <1>2, <1>4
  <2>2. FinalReadings(Len(blocks))' = ReadingsIn(deposited)[N]
    BY <1>4, <2>1 DEF FinalReadings
  <2>3. ReadingsIn(deposited)[N] \in Seq(EventHashes)
    BY <1>1, <1>2, ReadingsInDef
  <2>4. Begins(FinalReadings(b), ReadingsIn(deposited)[N])
    <3>1. CASE b = 0
      <4>1. FinalReadings(b) = <<>>
        BY <3>1 DEF FinalReadings
      <4> QED BY <2>3, <4>1 DEF Begins
    <3>2. CASE b \in 1 .. Len(blocks)
      <4>1. blocks[b] \in 0 .. N /\ blocks[b] <= N /\ b # 0
        BY <1>1, <1>2, <3>2 DEF TrailInv
      <4> QED BY <1>1, <1>2, <4>1, ReadingsGrow DEF FinalReadings
    <3> QED BY <1>1, <1>2, <3>1, <3>2
  <2> QED BY <1>1, <2>2, <2>3, <2>4
<1> QED BY <1>1, <1>3, <1>4, TrailSteps

\* The two chains and the daemon implement one ledger: finality extends a
\* sequence of readings, and anchoring covers a longer prefix of it.
THEOREM ChainsImplementLedger == MultichainSpec => ChainsFormLedger
<1>1. MultichainInit => Ledger!Init
  <2> SUFFICES ASSUME MultichainInit PROVE Ledger!Init
    OBVIOUS
  <2>1. blocks = <<>> /\ merkleRoots = <<>>
    BY DEF MultichainInit, Contract!Init
  <2>2. FinalReadings(Len(blocks)) = <<>> /\ CoveredReadings = {}
    BY <2>1 DEF FinalReadings, CoveredReadings
  <2> QED BY <2>2 DEF Ledger!Init
<1>2. MultichainInv /\ [MultichainNext]_allVars
         => [Ledger!Next]_<<FinalReadings(Len(blocks)), CoveredReadings>>
  <2> SUFFICES ASSUME MultichainInv, [MultichainNext]_allVars
               PROVE  [Ledger!Next]_<<FinalReadings(Len(blocks)), CoveredReadings>>
    OBVIOUS
  <2>1. TrailInv /\ LedgerInv /\ DaemonInv
    BY DEF MultichainInv
  <2>2. PICK b, final, next : /\ b = Len(blocks)
                              /\ final = FinalReadings(Len(blocks))
                              /\ next = FinalReadings(Len(blocks))'
    OBVIOUS
  <2>3. /\ b \in Nat /\ b \in 0 .. b
        /\ final \in Seq(EventHashes) /\ next \in Seq(EventHashes)
        /\ Begins(final, next)
    BY <2>1, <2>2, FinalReadingsFacts, FinalExtends
  <2>4. CASE UNCHANGED <<anchorings, merkleRoots>>
    <3>1. UNCHANGED CoveredReadings
      BY <2>4, LedgerUnchanged
    <3>2. CASE Len(next) = Len(final)
      <4>1. next = final
        BY <2>3, <3>2 DEF Begins
      <4> QED BY <2>2, <3>1, <4>1
    <3>3. CASE Len(next) # Len(final)
      <4>1. Len(next) > Len(final) /\ SubSeq(next, 1, Len(final)) = final
        BY <2>3, <3>3 DEF Begins
      <4> QED BY <2>2, <3>1, <4>1 DEF Ledger!Next, Ledger!Finalize
    <3> QED BY <3>2, <3>3
  <2>5. CASE /\ HasWindow
             /\ Contract!AnchorVerdict(Daemon, Submitted) = "Ok"
             /\ Contract!Store(Daemon, Submitted)
             /\ UNCHANGED <<vars, blocks>>
    <3>1. UNCHANGED FinalReadings(Len(blocks))
      BY <2>5 DEF FinalReadings, vars, storage
    <3>2. PICK payload, e, n : /\ payload = Submitted
                               /\ e = payload.endBlock /\ n = FinalizedBy(e)
      OBVIOUS
    <3>3. CoveredReadings' = ToSet(FinalReadings(e))
      BY <2>1, <2>5, <3>2, StoreCovers
    <3>4. IsWindow(payload)
      BY <2>1, <2>5, <3>2, SubmittedIsWindow
    <3>5. /\ e \in 0 .. b /\ e <= b
          /\ payload.startBlock - 1 \in 0 .. b
      BY <2>1, <2>2, <2>3, <3>2, <3>4 DEF IsWindow
    <3>6. /\ FinalReadings(e) \in Seq(EventHashes)
          /\ Begins(FinalReadings(e), final)
          /\ FinalizedBy(payload.startBlock - 1) \in Nat
      BY <2>1, <2>2, <2>3, <3>5, FinalReadingsFacts
    <3>7. n = Len(FinalReadings(e)) /\ n > 0
      BY <3>2, <3>4, <3>5, <3>6 DEF IsWindow, FinalizedBy
    <3>8. /\ n \in 1 .. Len(final)
          /\ CoveredReadings' = {final[i] : i \in 1 .. n}
      <4>1. n \in 1 .. Len(final)
        BY <2>3, <3>6, <3>7 DEF Begins, FinalizedBy
      <4>2. /\ DOMAIN FinalReadings(e) = 1 .. n
            /\ \A i \in 1 .. n : FinalReadings(e)[i] = final[i]
        BY <3>6, <3>7 DEF Begins
      <4> QED BY <3>3, <4>1, <4>2 DEF ToSet
    <3>9. CoveredReadings \subseteq CoveredReadings'
      BY <2>5, StoreExtends
    <3> QED
      BY <2>2, <3>1, <3>8, <3>9 DEF Ledger!Next, Ledger!Cover
  <2> QED BY <2>4, <2>5, LedgerSteps
<1> QED BY <1>1, <1>2, MultichainInvariance, PTL
        DEF MultichainSpec, ChainsFormLedger, Ledger!Spec
=============================================================================
