--------------------------- MODULE WorkloadReplay ---------------------------
(***************************************************************************)
(* The generator's signed events in front of the pallet: what _sign_event  *)
(* puts under a signature, and the pallet that checks it.  The devices are *)
(* registered with credentials encoded as the pallet does (as the tests'   *)
(* onboard helper does), so that an event is judged by its own signature.  *)
(*                                                                         *)
(* Bytes are as in TraceabilityPallet: the eight bytes of a little-endian  *)
(* integer are one element, and so is the text of an event type's name.    *)
(***************************************************************************)
EXTENDS TraceabilityPallet

Digit0 == 48

\* The decimal text of a number.
DecimalText[n \in Nat] ==
    IF n < 10 THEN <<Digit0 + n>>
    ELSE DecimalText[n \div 10] \o <<Digit0 + (n % 10)>>

\* The text of the name of an event type: no encoded index is one of these.
NameText(event_type) == <<200 + EventTypeIndex[event_type]>>

\* The f-string of _sign_event; the payload is JSON text on both sides.
SignedText(event) ==
    event.device_id \o DecimalText[event.timestamp]
        \o NameText(event.event_type) \o event.payload

\* _sign_event
SignEvent(key, device_id, timestamp, event_type, payload) ==
    LET event == [device_id |-> device_id, timestamp |-> timestamp,
                  event_type |-> event_type, payload |-> payload]
    IN [device_id |-> device_id, timestamp |-> timestamp,
        event_type |-> event_type, payload |-> payload,
        signature |-> [key |-> key, message |-> SignedText(event)]]

\* "Sign an event exactly as the pallet will verify it": no event that the
\* generator signed is refused for its signature.
EventsSignedAsVerified == result # "InvalidEventSignature"
=============================================================================
