-------------------------- MODULE RobustnessCurves --------------------------
(***************************************************************************)
(* The closed formulas of the robustness study: finality under churn of    *)
(* validators (E2) and retrieval from replicas (E4).  A probability a / D  *)
(* is the weight a, the product of n of them a weight out of D ^ n, so     *)
(* that the formulas are exact; with what they abbreviate, the sum over    *)
(* all the ways that validators or replicas can be up, beside each.        *)
(*                                                                         *)
(* An operator commented "Fault:" is a faulty variant of the operator that *)
(* follows it; the specification does not use it.                          *)
(***************************************************************************)
EXTENDS Integers, FiniteSetsExt, Combinatorics

\* Python's a**0 is 1 for every a.
Power(a, n) == IF n = 0 THEN 1 ELSE a ^ n

\* The weight of a set of independent parties in one state out of n of them
\* all: those in it have weight a each, the others b.
WeightOf(set, n, a, b) ==
    Power(a, Cardinality(set)) * Power(b, n - Cardinality(set))

-----------------------------------------------------------------------------
(* E2: validators.                                                         *)

\* Fault: exactly two thirds finalize.
NeedTwoThirds(n) == (2 * n + 2) \div 3

\* The least number of online validators that is more than 2n/3.
Need(n) == (2 * n) \div 3 + 1

\* A set of validators that is online finalizes.
Finalizes(online, validators) == Cardinality(online) >= Need(Cardinality(validators))

\* _finalize_prob, out of D ^ n.
finalize_prob(n, off, D) ==
    MapThenSumSet(LAMBDA k : choose(n, k) * Power(D - off, k) * Power(off, n - k),
                  Need(n) .. n)

\* What it abbreviates: the weight of every set of online validators of which
\* there are more than 2n/3.
FinalizeWeight(n, off, D) ==
    MapThenSumSet(
        LAMBDA online : WeightOf(online, n, D - off, off),
        {online \in SUBSET (1 .. n) : 3 * Cardinality(online) > 2 * n})

-----------------------------------------------------------------------------
(* E4: replicas.                                                           *)

\* At least one of R replicas is up, each down with weight q out of D.
avail(q, R, D) == D ^ R - q ^ R

\* avail**K, out of D ^ (R * K).
BatchAvail(q, R, K, D) == avail(q, R, D) ^ K

\* What it abbreviates: the weight of every state of the replicas in which
\* each of the K payloads has one that is up.
BatchWeight(q, R, K, D) ==
    LET replicas == (1 .. K) \X (1 .. R) IN
    MapThenSumSet(
        LAMBDA up : WeightOf(up, R * K, D - q, q),
        {up \in SUBSET replicas :
            \A payload \in 1 .. K : \E r \in 1 .. R : <<payload, r>> \in up})
=============================================================================
