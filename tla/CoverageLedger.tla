--------------------------- MODULE CoverageLedger ---------------------------
(***************************************************************************)
(* What the two chains promise together: of the readings that the          *)
(* operational chain has finalized, in their order, the analytics chain    *)
(* covers a prefix.  Both only grow, and nothing final is ever reordered.  *)
(***************************************************************************)
EXTENDS Naturals, Sequences

VARIABLES
    final,      \* the readings that are final, in order
    covered     \* the set of those that are anchored

Init == final = <<>> /\ covered = {}

Finalize ==
    /\ Len(final') > Len(final)
    /\ SubSeq(final', 1, Len(final)) = final
    /\ UNCHANGED covered

Cover ==
    /\ \E n \in 1 .. Len(final) : covered' = {final[i] : i \in 1 .. n}
    /\ covered \subseteq covered'
    /\ covered # covered'
    /\ UNCHANGED final

Next == Finalize \/ Cover

Spec == Init /\ [][Next]_<<final, covered>>
=============================================================================
