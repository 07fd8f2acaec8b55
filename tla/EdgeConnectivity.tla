-------------------------- MODULE EdgeConnectivity --------------------------
(***************************************************************************)
(* The edge in front of the operational chain, as connectivity.rs drives   *)
(* it: a device signs a reading at a fixed interval over a link that is on *)
(* and off in turn; a reading emitted in an outage waits for its end and   *)
(* is then submitted to the pallet's own process_event.                    *)
(*                                                                         *)
(* The trace's clock counts ticks, TicksPerSecond to the second, because   *)
(* the code rounds waits to whole seconds.  The chain's clock stands still *)
(* at StartTime (MockTime); a wait shows as an older timestamp.            *)
(*                                                                         *)
(* An operator commented "Fault:" is a faulty variant of the operator that *)
(* follows it; the specification does not use it.                          *)
(***************************************************************************)
EXTENDS TraceabilityPallet

CONSTANTS
    EdgeCredential,     \* the device's signed credential
    EMIT_INTERVAL,      \* between two readings, in ticks
    READINGS,           \* how many readings the device emits
    TicksPerSecond,
    Periods             \* the lengths that a period on or off can have, ticks

VARIABLES
    i,          \* the number of the next reading
    emit_t,     \* when it is emitted
    state_on,   \* whether the link is up
    switch_at,  \* when that changes next
    admitted    \* the readings that process_event accepted

trace == <<i, emit_t, state_on, switch_at, admitted>>
edgeVars == <<vars, trace>>

ASSUME EdgeAssumption ==
    /\ EdgeCredential \in CredentialInputs
    /\ EMIT_INTERVAL \in Nat \ {0}
    /\ READINGS \in Nat
    /\ TicksPerSecond \in Nat \ {0}
    /\ Periods \subseteq Nat

-----------------------------------------------------------------------------
(* A reading.                                                              *)

\* How long the reading due now waits for the link.
Delay == IF state_on THEN 0 ELSE switch_at - emit_t

\* Fault: the cast to an integer truncates.
RoundDown(ticks) == ticks \div TicksPerSecond

\* delay.round(): to the nearest second, halves up.
Round(ticks) == (2 * ticks + TicksPerSecond) \div (2 * TicksPerSecond)

SaturatingSub(a, b) == IF a >= b THEN a - b ELSE 0

\* Fault: the payload does not number the readings.
UnnumberedPayload(n) == <<0>>

\* The payload carries the reading's number, so that no two readings of a
\* trace are the same event.
Payload(n) == <<n>>

SignedReading(n, ts) ==
    LET event == [device_id |-> EdgeCredential.device_id, timestamp |-> ts,
                  event_type |-> "Temperature", payload |-> Payload(n)]
    IN [device_id |-> event.device_id, timestamp |-> ts,
        event_type |-> event.event_type, payload |-> event.payload,
        signature |-> [key |-> EdgeCredential.public_key,
                       message |-> EncodeEventMessage(event)]]

-----------------------------------------------------------------------------
(* The measurement.                                                        *)

EdgeInit ==
    /\ Init
    /\ i = 0
    /\ emit_t = 0
    /\ state_on = TRUE
    /\ switch_at \in Periods
    /\ admitted = 0

Onboard ==
    /\ devices = EmptyMap
    /\ OnboardDevice("Signed", EdgeCredential)
    /\ UNCHANGED trace

\* The inner loop: the link switches until the next switch is ahead of the
\* next reading.
Switch ==
    /\ devices # EmptyMap
    /\ i < READINGS
    /\ emit_t >= switch_at
    /\ state_on' = ~state_on
    /\ \E length \in Periods : switch_at' = switch_at + length
    /\ UNCHANGED <<vars, i, emit_t, admitted>>

\* One reading is signed, delivered when the link is up, and processed.
Emit ==
    LET ts == SaturatingSub(now, Round(Delay)) IN
    /\ devices # EmptyMap
    /\ i < READINGS
    /\ emit_t < switch_at
    /\ ProcessEvent("Signed", SignedReading(i, ts))
    /\ admitted' = IF result' = "Ok" THEN admitted + 1 ELSE admitted
    /\ emit_t' = emit_t + EMIT_INTERVAL
    /\ i' = i + 1
    /\ UNCHANGED <<state_on, switch_at>>

EdgeNext == Onboard \/ Switch \/ Emit

EdgeSpec == EdgeInit /\ [][EdgeNext]_edgeVars

-----------------------------------------------------------------------------

\* What is measured is the freshness window: a reading is accepted exactly
\* when its wait, to the nearest second, is within it.  (The wait reaches the
\* pallet only as an older timestamp, behind a schema check, a registry
\* lookup and a signature over that timestamp.)
AdmittedWithinWindow ==
    [][i' = i + 1 =>
          (admitted' = admitted + 1
              <=> 2 * Delay < (2 * FreshnessWindow + 1) * TicksPerSecond)]_edgeVars

\* The fraction reported counts stored events: every accepted reading is an
\* event of its own in the pallet's storage, though readings of a connected
\* period all carry the same timestamp.
AdmittedAreStored ==
    /\ admitted = eventCount
    /\ admitted = Cardinality(DOMAIN events)
=============================================================================
