----------------------------- MODULE Iteration -----------------------------
(***************************************************************************)
(* A loop of a bounded number of rounds, and induction along it.  The      *)
(* library states its theorems on recursion and induction for an operator  *)
(* parameter, which the provers cannot instantiate.  Here the round of the *)
(* loop is a constant of the module, which INSTANCE gives a value, and     *)
(* induction is about a set.                                               *)
(***************************************************************************)
EXTENDS Integers, WellFoundedInduction, TLAPS

CONSTANT Step(_, _, _)
    \* one round: what the loop reads, its number from 1, the value before it

\* The value that each round leaves; 0 stands for the value at the start.
Iterate(input, first, rounds) ==
    LET after[k \in 0 .. rounds] ==
            IF k = 0 THEN first ELSE Step(input, k, after[k - 1])
    IN after

-----------------------------------------------------------------------------

\* A set of naturals that holds 0 and, with each number, the next one, holds
\* them all: otherwise the least that is missing would have no predecessor.
LEMMA NatSetInduction ==
    ASSUME NEW S, 0 \in S, \A n \in Nat : n \in S => n + 1 \in S
    PROVE  Nat \subseteq S
<1> DEFINE Missing == Nat \ S
           Less == OpToRel(<, Nat)
<1> SUFFICES ASSUME Missing # {} PROVE FALSE
  OBVIOUS
<1>1. \A k, n \in Nat : k < n => <<k, n>> \in Less
  BY DEF OpToRel
<1>2. IsWellFoundedOn(Less, Nat)
  BY NatLessThanWellFounded
<1>3. Missing \subseteq Nat
  OBVIOUS
<1>4. 0 \notin Missing
  OBVIOUS
<1>5. \A n \in Nat : n + 1 \in Missing => n \in Missing
  OBVIOUS
<1> HIDE DEF Missing, Less
<1>6. PICK least \in Missing : \A k \in Missing : <<k, least>> \notin Less
  BY <1>2, <1>3, WFMin
<1>7. least \in Nat /\ least # 0
  BY <1>3, <1>4
<1>8. least - 1 \in Nat /\ least - 1 < least /\ (least - 1) + 1 = least
  BY <1>7
<1>9. least - 1 \in Missing
  BY <1>5, <1>8
<1> QED BY <1>1, <1>6, <1>7, <1>8, <1>9

\* The same for an interval.
LEMMA IntervalInduction ==
    ASSUME NEW N \in Nat, NEW S, 0 \in S,
           \A n \in 0 .. N : n < N /\ n \in S => n + 1 \in S
    PROVE  0 .. N \subseteq S
<1> DEFINE T == {n \in Nat : n <= N => n \in S}
<1>1. 0 \in T
  OBVIOUS
<1>2. \A n \in Nat : n \in T => n + 1 \in T
  OBVIOUS
<1> HIDE DEF T
<1>3. Nat \subseteq T
  BY <1>1, <1>2, NatSetInduction
<1> QED BY <1>3 DEF T

\* The recursion of a loop has a solution, whatever its rounds compute.
LEMMA IterateDef ==
    ASSUME NEW input, NEW first, NEW rounds \in Nat
    PROVE  LET after == Iterate(input, first, rounds) IN
           /\ after = [k \in 0 .. rounds |-> after[k]]
           /\ after[0] = first
           /\ \A k \in 1 .. rounds : after[k] = Step(input, k, after[k - 1])
<1> DEFINE Solves(f, m) == f = [k \in 0 .. m |->
                                   IF k = 0 THEN first
                                   ELSE Step(input, k, f[k - 1])]
           Reached == {m \in 0 .. rounds : \E f : Solves(f, m)}
           after == Iterate(input, first, rounds)
<1>1. 0 \in Reached
  <2> DEFINE f == [k \in 0 .. 0 |-> first]
  <2>1. Solves(f, 0)
    <3>1. \A k \in 0 .. 0 :
              first = IF k = 0 THEN first ELSE Step(input, k, f[k - 1])
      OBVIOUS
    <3> QED BY <3>1
  <2>2. 0 \in 0 .. rounds
    OBVIOUS
  <2> HIDE DEF f, Solves
  <2> QED BY <2>1, <2>2
<1>2. ASSUME NEW m \in 0 .. rounds, m < rounds, m \in Reached
      PROVE  m + 1 \in Reached
  <2>1. PICK f : Solves(f, m)
    BY <1>2
  <2> DEFINE g == [k \in 0 .. m + 1 |->
                      IF k <= m THEN f[k] ELSE Step(input, m + 1, f[m])]
  <2>2. Solves(g, m + 1)
    <3>1. ASSUME NEW k \in 0 .. m + 1
          PROVE  g[k] = IF k = 0 THEN first ELSE Step(input, k, g[k - 1])
      <4>1. CASE k = 0
        BY <2>1, <4>1
      <4>2. CASE k \in 1 .. m
        BY <2>1, <4>2
      <4>3. CASE k = m + 1
        BY <4>3
      <4> QED BY <4>1, <4>2, <4>3
    <3>2. g = [k \in 0 .. m + 1 |-> g[k]]
      OBVIOUS
    <3> HIDE DEF g
    <3> QED BY <3>1, <3>2
  <2>3. m + 1 \in 0 .. rounds
    BY <1>2
  <2> HIDE DEF Solves, g
  <2> QED BY <2>2, <2>3
<1>3. \E f : Solves(f, rounds)
  <2> HIDE DEF Reached
  <2>1. 0 .. rounds \subseteq Reached
    BY <1>1, <1>2, IntervalInduction
  <2> HIDE DEF Solves
  <2> QED BY <2>1 DEF Reached
<1>4. after = CHOOSE f : Solves(f, rounds)
  BY DEF Iterate
<1>5. Solves(after, rounds)
  <2> HIDE DEF Solves, after
  <2> QED BY <1>3, <1>4
<1>6. \A k \in 0 .. rounds : after[k] = IF k = 0 THEN first
                                        ELSE Step(input, k, after[k - 1])
  <2> HIDE DEF after
  <2> QED BY <1>5
<1>7. after = [k \in 0 .. rounds |-> after[k]]
  <2> HIDE DEF after
  <2> QED BY <1>5
<1>8. after[0] = first
  <2>1. 0 \in 0 .. rounds
    OBVIOUS
  <2> HIDE DEF after
  <2> QED BY <1>6, <2>1
<1>9. \A k \in 1 .. rounds : after[k] = Step(input, k, after[k - 1])
  <2> HIDE DEF after
  <2> QED BY <1>6
<1> QED BY <1>7, <1>8, <1>9
=============================================================================
