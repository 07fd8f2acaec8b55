------------------------------- MODULE MCEdge -------------------------------
(***************************************************************************)
(* The edge for TLC: four ticks to the second, so that waits fall on and   *)
(* between whole seconds, and outages shorter than, equal to and longer    *)
(* than the freshness window, some of which hold several readings.         *)
(***************************************************************************)
EXTENDS EdgeConnectivity

MCCredential ==
    LET cred == [device_id |-> <<1>>, public_key |-> 107, producer |-> <<7>>,
                 metadata |-> <<>>]
    IN [device_id |-> <<1>>, public_key |-> 107, producer |-> <<7>>,
        metadata |-> <<>>,
        signature |-> [key |-> 107,
                       message |-> EncodeCredentialMessage(cred)]]

MCCredentials == {MCCredential}

\* Every reading that the device can submit.
MCEvents == {SignedReading(n, ts) : n \in 0 .. READINGS, ts \in 0 .. StartTime}

MCPeriods == {1, 2, 4, 7, 12, 15}
NoBatch == {}
=============================================================================
