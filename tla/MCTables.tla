------------------------------ MODULE MCTables ------------------------------
(***************************************************************************)
(* Contents of the results files for TLC: none, complete and incomplete    *)
(* data, a number that does not parse, columns that the plot cannot use.   *)
(***************************************************************************)
EXTENDS PaperTables

Cost(operation, cost_usd) == [operation |-> operation, cost_usd |-> cost_usd]
MCCostFiles ==
    {<<>>,
     <<Cost("event_processing", 150), Cost("event_processing", 161)>>,
     <<Cost("device_registration", 300), Cost("event_processing", 130),
       Cost("governance_checkpoint", 200), Cost("merkle_anchoring", 5508920)>>,
     <<Cost("event_processing", NotANumber)>>}

Latency(stage, latency_ms) == [stage |-> stage, latency_ms |-> latency_ms]
MCLatencyFiles ==
    {<<>>,
     <<Latency("event_submission", 40), Latency("substrate_finality", 9000),
       Latency("event_submission", 45), Latency("end_to_end", 9100)>>,
     <<Latency("event_submission", 50), Latency("ethereum_anchoring", 7000)>>,
     <<Latency("event_submission", 40), Latency("end_to_end", NotANumber)>>}

Scaling(scale, lookup, eval) ==
    [scale |-> scale, device_lookup_s |-> lookup, policy_eval_s |-> eval]
MCComplexityFiles ==
    {<<>>,
     <<Scaling(10, 3, 4), Scaling(100, 6, 8)>>,
     <<Scaling(10, 3, NotANumber)>>,
     <<[n |-> 10, seconds |-> 3]>>}
=============================================================================
