-------------------------- MODULE PalletProperties --------------------------
(***************************************************************************)
(* What the operational chain owes to those who read it: the               *)
(* reconciliation daemon, which sees only the runtime events, and the      *)
(* auditor, who sees only the storage.  The properties relate the two, or  *)
(* a state of the chain to an earlier one.                                 *)
(***************************************************************************)
EXTENDS TraceabilityPallet

\* The positions of the runtime events of one kind in a log of deposits, and
\* those of the evaluations of one batch.
Deposits(log, kind) == {i \in DOMAIN log : log[i].event.kind = kind}
Evaluations(log, batch_id) ==
    {i \in Deposits(log, "GovernanceEvaluated") :
        log[i].event.batch_id = batch_id}

-----------------------------------------------------------------------------
(* The registry and the event store.                                       *)

\* A stored reading can be checked again at any later time: its key is its
\* hash, its device is registered, and its signature verifies under the key
\* that the device has now.  (Reads of Events and Devices by an auditor; the
\* admission check looked at the key of an earlier state.)
StoredEventsVerify ==
    \A h \in DOMAIN events :
        LET event == events[h] IN
        /\ h = EventHash(event)
        /\ event.device_id \in DOMAIN devices
        /\ Ed25519Verify(event.signature, EncodeEventMessage(event),
                         devices[event.device_id].public_key)

\* One signature of a device stands for one reading: what it signed fixes
\* the time, the type and the payload, so no second reading enters under it.
\* (encode_event_message concatenates without delimiters.)
SignaturePinsReading ==
    \A h1, h2 \in DOMAIN events :
        /\ events[h1].device_id = events[h2].device_id
        /\ events[h1].signature = events[h2].signature
        => h1 = h2

\* "Device IDs are stable identifiers and cannot be reused": onboarding
\* writes a device once and nothing changes its record afterwards.
Registry == INSTANCE WriteOnceRegistry WITH registry <- devices
DeviceIdsAreStable == Registry!Spec

-----------------------------------------------------------------------------
(* The runtime events, as the reconciliation daemon reads them.            *)

\* The trail can be verified alone: every processed reading comes after the
\* registration of its device, and verifies under the key announced there.
TrailSelfContained ==
    \A j \in Deposits(deposited, "EventProcessed") :
        LET processed == deposited[j].event
            event == processed.event_hash.blake2_256
        IN \E i \in Deposits(deposited, "DeviceRegistered") :
              /\ i < j
              /\ deposited[i].event.device_id = processed.device_id
              /\ Ed25519Verify(event.signature, EncodeEventMessage(event),
                               deposited[i].event.public_key)

\* Replay of one signed reading is confined to one freshness window: two
\* admissions of the same event hash are never further apart than that.
\* (process_event has no duplicate check; the timestamp is all that stops it.)
ReplayConfined ==
    \A i, j \in Deposits(deposited, "EventProcessed") :
        /\ i < j
        /\ deposited[i].event.event_hash = deposited[j].event.event_hash
        => deposited[j].at - deposited[i].at <= FreshnessWindow

\* The metrics counters are the numbers of runtime events of each kind, and
\* the device counter also the size of the registry: an extrinsic that fails
\* half way leaves neither a count without its event nor an event uncounted.
CountersMatchTrail ==
    /\ deviceCount = Cardinality(Deposits(deposited, "DeviceRegistered"))
    /\ deviceCount = Cardinality(DOMAIN devices)
    /\ eventCount = Cardinality(Deposits(deposited, "EventProcessed"))
    /\ governanceCheckpoints
           = Cardinality(Deposits(deposited, "GovernanceEvaluated"))

\* Storage can be rebuilt from the trail: the devices are those announced,
\* with that key and that time, the stored hashes are those announced, and a
\* batch is in the state that its last evaluation announced.
TrailRebuildsStorage ==
    /\ {[device_id |-> id, public_key |-> devices[id].public_key,
         producer |-> devices[id].producer, at |-> devices[id].registered_at] :
           id \in DOMAIN devices}
       = {[device_id |-> deposited[i].event.device_id,
           public_key |-> deposited[i].event.public_key,
           producer |-> deposited[i].event.producer, at |-> deposited[i].at] :
             i \in Deposits(deposited, "DeviceRegistered")}
    /\ DOMAIN events = {deposited[i].event.event_hash :
                           i \in Deposits(deposited, "EventProcessed")}
    /\ \A b \in BatchIds :
          \/ b \notin DOMAIN batches /\ Evaluations(deposited, b) = {}
          \/ /\ b \in DOMAIN batches
             /\ \E last \in Evaluations(deposited, b) :
                   /\ \A i \in Evaluations(deposited, b) : i <= last
                   /\ deposited[last].event.new_state = batches[b]

-----------------------------------------------------------------------------
(* Custody.                                                                *)

Rank == [Harvested |-> 1, Packaged |-> 2, InTransit |-> 3, Delivered |-> 4,
         Inspected |-> 5]

\* The trail of a batch is the custody chain from its start: its n-th
\* evaluation announces stage n + 1, so none is skipped, repeated or lost,
\* whatever the evaluations of other batches in between and whatever calls
\* failed.
CustodyOrder ==
    \A b \in BatchIds : \A i \in Evaluations(deposited, b) :
        Rank[deposited[i].event.new_state]
            = 1 + Cardinality({j \in Evaluations(deposited, b) : j <= i})

\* Evaluation of policies moves one batch at a time, one stage forward.
Lifecycle ==
    INSTANCE CustodyLifecycle
        WITH Batch <- BatchIds,
             stage <- [b \in BatchIds |-> Rank[CurrentState(b)]]
BatchesFollowLifecycle == Lifecycle!Spec

-----------------------------------------------------------------------------
(* What the documentation says of the pallet and its code does not do.     *)

\* GovernanceCheckpoints is the "Policy evaluation counter": an evaluation
\* that rejects is counted, as the Rejected arm sets out to do.
RejectionsCounted ==
    [][result' = "PolicyConditionsNotMet" /\ result # result'
          => governanceCheckpoints' = governanceCheckpoints + 1]_vars
=============================================================================
