-------------------------- MODULE CustodyLifecycle --------------------------
(***************************************************************************)
(* What the governance workflow promises of a batch: it moves through the  *)
(* custody stages one at a time, in order, alone, and never back.          *)
(***************************************************************************)
EXTENDS Naturals, Sequences

CONSTANT Batch

VARIABLE stage

Stages == <<"Harvested", "Packaged", "InTransit", "Delivered", "Inspected">>

Init == stage = [b \in Batch |-> 1]

\* One batch enters its next stage.
Advance(b) ==
    /\ stage[b] < Len(Stages)
    /\ stage' = [stage EXCEPT ![b] = @ + 1]

Next == \E b \in Batch : Advance(b)

Spec == Init /\ [][Next]_stage
=============================================================================
