--------------------------- MODULE AnalyticalModel ---------------------------
(***************************************************************************)
(* The cost model that generate_paper_tables.py compares measurements      *)
(* with.  Money is counted in exact units of 50 nanodollars: at the code's *)
(* prices that is the fee of a byte, of 10^4 weight, and of 1/20 gas.      *)
(***************************************************************************)
EXTENDS Naturals

WeightPerUnit == 10000
UnitsPerGas == 20

\* The fee of one call on the operational chain.
OperationFee(weight, bytes) == weight \div WeightPerUnit + bytes

GasFee(gas) == gas * UnitsPerGas

PredictDeviceCost(num_devices) == num_devices * OperationFee(200000, 256)

PredictEventCost(num_events) == num_events * OperationFee(150000, 128)

PredictGovernanceCost(num_checkpoints) ==
    num_checkpoints * OperationFee(180000, 192)

\* The base fee of a transaction and four words of storage.
PredictAnchoringCost == GasFee(21000 + 4 * 20000)
=============================================================================
