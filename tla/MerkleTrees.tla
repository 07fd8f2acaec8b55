---------------------------- MODULE MerkleTrees ----------------------------
(***************************************************************************)
(* The Merkle trees over one reconciliation window.  The repository builds *)
(* and checks them in three places, each in its own way:                   *)
(*   - the workload generator computes the root that is to be anchored;    *)
(*   - ipfs_measure.py builds a tree, takes a proof from it and checks the *)
(*     proof by the position of the leaf;                                  *)
(*   - the contract checks a proof with sorted pairs, against trees that   *)
(*     its test suite builds.                                              *)
(*                                                                         *)
(* A hash is injective, and tagged with the function that computed it.     *)
(* Sorting the two arguments of a hash forgets their order, so a sorted    *)
(* pair is a set.  Lists are indexed from 0 in the code, from 1 here.      *)
(*                                                                         *)
(* An operator commented "Fault:" is a faulty variant of the operator that *)
(* follows it; the specification does not use it.                          *)
(***************************************************************************)
EXTENDS Naturals, SequencesExt

CONSTANTS
    Payloads,   \* the payloads that an event of the window can have
    MaxWindow   \* bound: events in a window

VARIABLE window     \* the finalized events of the window, in order

ASSUME MerkleAssumption == MaxWindow \in Nat

-----------------------------------------------------------------------------
(* The nodes.                                                              *)

\* The generator's hash_event, and the text of a digest.
HashEvent(event) == [blake2b |-> event]
Hexdigest(digest) == [hex |-> digest]

EmptyRoot == [blake2b |-> "empty"]

\* Fault: a node without a right neighbour is dropped.
ParentsDroppingOdd(level) ==
    [k \in 1 .. Len(level) \div 2 |->
        [blake2b |-> <<Hexdigest(level[2 * k - 1]), Hexdigest(level[2 * k])>>]]

\* One round of the generator's loop: a node without a right neighbour is its
\* own.
Parents(level) ==
    [k \in 1 .. (Len(level) + 1) \div 2 |->
        LET left == level[2 * k - 1]
            right == IF 2 * k <= Len(level) THEN level[2 * k] ELSE left
        IN [blake2b |-> <<Hexdigest(left), Hexdigest(right)>>]]

\* ipfs_measure.py: digests are concatenated as bytes.
H(left, right) == [blake2b |-> <<left, right>>]
Leaf(payload) == [blake2b |-> payload]

Padded(row) == IF Len(row) % 2 = 0 THEN row ELSE Append(row, Last(row))

HashedPairs(row) ==
    LET cur == Padded(row) IN
    [k \in 1 .. Len(cur) \div 2 |-> H(cur[2 * k - 1], cur[2 * k])]

\* Fault: the pair is hashed as it comes.
HashPairUnsorted(a, b) == [keccak256 |-> <<a, b>>]

\* The contract's _hashPair, and each round of verifyMerkleProof.
HashPair(a, b) == [keccak256 |-> {a, b}]

TestLeaf(payload) == [keccak256 |-> payload]

\* _root and _proof of the test suite halve the row, so they stand for a
\* tree only when no row has an unpaired node.
TestParents(level) ==
    [k \in 1 .. Len(level) \div 2 |-> HashPair(level[2 * k - 1], level[2 * k])]

-----------------------------------------------------------------------------
(* The rows of a tree, from the leaves up: the same loop in all three.     *)

Trees == {"generator", "measurement", "test"}

Up(tree, row) ==
    CASE tree = "generator" -> Parents(row)
      [] tree = "measurement" -> HashedPairs(row)
      [] tree = "test" -> TestParents(row)

\* while len(row) > 1, as one round more for each leaf than it takes.
NextRow(tree, round, row) == IF Len(row) > 1 THEN Up(tree, row) ELSE row
Climb == INSTANCE Iteration WITH Step <- NextRow
Rows(tree, leaves) == Climb!Iterate(tree, leaves, Len(leaves))

\* The rounds that the loop makes, and the node that is left.
IsHeight(rows, h) ==
    Len(rows[h]) <= 1 /\ \A k \in 0 .. h - 1 : Len(rows[k]) > 1
Height(rows) == CHOOSE h \in DOMAIN rows : IsHeight(rows, h)

Top(rows) == rows[Height(rows)][1]

BuildMerkleTree(events) ==
    IF events = <<>> THEN EmptyRoot
    ELSE Top(Rows("generator", [k \in DOMAIN events |-> HashEvent(events[k])]))

-----------------------------------------------------------------------------
(* A proof lists the siblings on the way up from a leaf.                   *)

\* i ^ 1
Sibling(i) == IF i % 2 = 0 THEN i + 1 ELSE i - 1

\* The place of a leaf in each row of a tree.
Halved(start, round, i) == i \div 2
Descent == INSTANCE Iteration WITH Step <- Halved
Places(idx, rounds) == Descent!Iterate(idx, idx, rounds)

\* build and levels[-1][0], proof(levels, idx).
Build(leaves) ==
    LET rows == Rows("measurement", leaves) IN
    [d \in 1 .. Height(rows) + 1 |-> rows[d - 1]]

Root(levels) == Last(levels)[1]

Proof(levels, idx) ==
    LET place == Places(idx, Len(levels)) IN
    [d \in 1 .. Len(levels) - 1 |-> Padded(levels[d])[Sibling(place[d - 1]) + 1]]

\* The walk up the tree: the position says on which side the sibling is.
Combine(proof, d, at) ==
    [node |-> IF at.i % 2 = 0 THEN H(at.node, proof[d]) ELSE H(proof[d], at.node),
     i |-> at.i \div 2]
Walk == INSTANCE Iteration WITH Step <- Combine

\* Fault: the sibling is always taken for the right one.
VerifyRightOnly(leaf, idx, proof, root) ==
    FoldLeft(H, leaf, proof) = root

Verify(leaf, idx, proof, root) ==
    Walk!Iterate(proof, [node |-> leaf, i |-> idx], Len(proof))[Len(proof)].node
        = root

\* The test suite's tree, in the same way.
TestRoot(leaves) == Top(Rows("test", leaves))

TestProof(leaves, idx) ==
    LET rows == Rows("test", leaves)
        place == Places(idx, Len(leaves))
    IN [d \in 1 .. Height(rows) |-> rows[d - 1][Sibling(place[d - 1]) + 1]]

\* verifyMerkleProof, once the root is known to be anchored.
HashOn(proof, d, node) == HashPair(node, proof[d])
Check == INSTANCE Iteration WITH Step <- HashOn
VerifyMerkleProof(root, proof, leaf) ==
    Check!Iterate(proof, leaf, Len(proof))[Len(proof)] = root

-----------------------------------------------------------------------------
(* A window fills event by event.                                          *)

Init == window = <<>>

Record ==
    /\ Len(window) < MaxWindow
    /\ \E payload \in Payloads : window' = Append(window, payload)

Next == Record

Spec == Init /\ [][Next]_window

-----------------------------------------------------------------------------

Positions == 0 .. Len(window) - 1

\* Consumer verification: a payload fetched for a position of the window
\* verifies against the root exactly when it is the one recorded there, in
\* windows of every length, those with unpaired nodes included.
ProofPinsPayload ==
    window # <<>> =>
        LET levels == Build([k \in DOMAIN window |-> Leaf(window[k])]) IN
        \A idx \in Positions : \A payload \in Payloads :
            Verify(Leaf(payload), idx, Proof(levels, idx), Root(levels))
                <=> payload = window[idx + 1]

\* What is anchored, the generator's root with the event count, determines
\* the window: no other sequence of as many events has the same root.  (The
\* root alone does not: an unpaired node is paired with itself.)
RootAndCountPinWindow ==
    \A other \in [1 .. Len(window) -> Payloads] :
        BuildMerkleTree(other) = BuildMerkleTree(window) => other = window

\* No row on the way up has an unpaired node: a power of two of leaves.
AllPaired(rows) == \A d \in 0 .. Height(rows) - 1 : Len(rows[d]) % 2 = 0

\* On-chain verification in the shape the test suite uses, a power of two of
\* leaves: the proof for a position verifies that leaf and no other.
ContractProofPinsLeaf ==
    LET leaves == [k \in DOMAIN window |-> TestLeaf(window[k])] IN
    window # <<>> /\ AllPaired(Rows("test", leaves)) =>
        \A idx \in Positions : \A payload \in Payloads :
            VerifyMerkleProof(TestRoot(leaves), TestProof(leaves, idx),
                              TestLeaf(payload))
                <=> payload = window[idx + 1]

\* The nodes of the generator's tree.
NodesAbove(leaves) ==
    UNION {Range(Rows("generator", leaves)[d]) : d \in 0 .. Len(leaves)}

\* The generator prints its root as "Ready for Algorithm 4 anchoring", and
\* the contract's verifyMerkleProof "Enables independent verification": each
\* event of the window has a proof that the contract accepts for that root.
GeneratorRootVerifiesOnChain ==
    window # <<>> =>
        LET leaves == [k \in DOMAIN window |-> HashEvent(window[k])] IN
        \A k \in DOMAIN window :
            \E proof \in BoundedSeq(NodesAbove(leaves), 2) :
                VerifyMerkleProof(BuildMerkleTree(window), proof, leaves[k])
=============================================================================
