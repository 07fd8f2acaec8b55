---------------------------- MODULE MerkleProofs ----------------------------
(***************************************************************************)
(* The Merkle trees, for windows of every length over every set of         *)
(* payloads, and what the IPFS measurement concludes from them, for every  *)
(* number of payloads and every position.                                  *)
(***************************************************************************)
EXTENDS IpfsMeasurement, FiniteSetTheorems, TLAPS

-----------------------------------------------------------------------------
(* The rows of a tree.                                                     *)

\* A row is a sequence, of nodes that are drawn from no set.
IsRow(row) ==
    /\ Len(row) \in Nat
    /\ row = [k \in 1 .. Len(row) |-> row[k]]

LEMMA RowFacts ==
    ASSUME NEW row, IsRow(row), Len(row) > 0
    PROVE  /\ IsRow(Padded(row))
           /\ Len(Padded(row)) = 2 * ((Len(row) + 1) \div 2)
           /\ \A k \in 1 .. Len(row) : Padded(row)[k] = row[k]
           /\ Len(row) % 2 = 1 => Padded(row)[Len(row) + 1] = row[Len(row)]
<1> DEFINE Nodes == {row[k] : k \in 1 .. Len(row)}
<1>1. row \in Seq(Nodes)
  BY DEF IsRow
<1>2. Last(row) \in Nodes
  BY DEF IsRow, Last
<1> HIDE DEF Nodes
<1>3. CASE Len(row) % 2 = 0
  <2>1. Padded(row) = row
    BY <1>3 DEF Padded
  <2>2. Len(row) \in Nat
    BY DEF IsRow
  <2>3. Len(row) = 2 * ((Len(row) + 1) \div 2)
    BY <1>3, <2>2
  <2> QED BY <1>3, <2>1, <2>3
<1>4. CASE Len(row) % 2 # 0
  <2>1. Padded(row) = Append(row, Last(row))
    BY <1>4 DEF Padded
  <2>2. Padded(row) \in Seq(Nodes)
    BY <1>1, <1>2, <2>1
  <2>3. Len(Padded(row)) = Len(row) + 1
    BY <1>1, <1>2, <2>1
  <2>4. IsRow(Padded(row))
    BY <2>2 DEF IsRow
  <2>5. /\ \A k \in 1 .. Len(row) : Padded(row)[k] = row[k]
        /\ Padded(row)[Len(row) + 1] = row[Len(row)]
    BY <1>1, <1>2, <2>1 DEF Last
  <2>6. Len(row) \in Nat
    BY DEF IsRow
  <2> QED BY <1>4, <2>3, <2>4, <2>5, <2>6
<1> QED BY <1>3, <1>4

\* The number of nodes above so many.
Above(tree, nodes) ==
    IF tree = "test" THEN nodes \div 2 ELSE (nodes + 1) \div 2

LEMMA UpFacts ==
    ASSUME NEW tree \in Trees, NEW row, IsRow(row), Len(row) > 1
    PROVE  /\ IsRow(Up(tree, row))
           /\ Len(Up(tree, row)) = Above(tree, Len(row))
           /\ Len(Up(tree, row)) \in 1 .. Len(row) - 1
<1>1. Len(row) \in Nat
  BY DEF IsRow
<1>2. CASE tree = "generator"
  <2>1. Up(tree, row) = Parents(row)
    BY <1>2 DEF Up
  <2> QED BY <1>1, <1>2, <2>1 DEF Parents, Above, IsRow
<1>3. CASE tree = "measurement"
  <2>1. Up(tree, row) = HashedPairs(row)
    BY <1>3 DEF Up
  <2>2. Len(Padded(row)) \div 2 = (Len(row) + 1) \div 2
    BY <1>1, RowFacts
  <2> QED BY <1>1, <1>3, <2>1, <2>2 DEF HashedPairs, Above, IsRow
<1>4. CASE tree = "test"
  <2>1. Up(tree, row) = TestParents(row)
    BY <1>4 DEF Up
  <2> QED BY <1>1, <1>4, <2>1 DEF TestParents, Above, IsRow
<1> QED BY <1>2, <1>3, <1>4 DEF Trees

\* The rows shrink until one node is left.
LEMMA RowsFacts ==
    ASSUME NEW tree \in Trees, NEW leaves, IsRow(leaves), leaves # <<>>
    PROVE  LET rows == Rows(tree, leaves) IN
           /\ DOMAIN rows = 0 .. Len(leaves)
           /\ rows[0] = leaves
           /\ \A d \in 0 .. Len(leaves) : IsRow(rows[d]) /\ Len(rows[d]) >= 1
           /\ \A d \in 1 .. Len(leaves) :
                 rows[d] = NextRow(tree, d, rows[d - 1])
<1>1. PICK N : N = Len(leaves)
  OBVIOUS
<1>2. N \in Nat /\ N >= 1
  BY <1>1 DEF IsRow
<1> DEFINE rows == Rows(tree, leaves)
<1>3. /\ rows = [d \in 0 .. N |-> rows[d]]
      /\ rows[0] = leaves
      /\ \A d \in 1 .. N : rows[d] = NextRow(tree, d, rows[d - 1])
  BY <1>1, <1>2, Climb!IterateDef DEF Rows
<1>4. \A d \in 0 .. N : IsRow(rows[d]) /\ Len(rows[d]) >= 1
  <2> HIDE DEF rows
  <2> DEFINE S == {d \in 0 .. N : IsRow(rows[d]) /\ Len(rows[d]) >= 1}
  <2>1. 0 \in S
    BY <1>1, <1>2, <1>3
  <2>2. ASSUME NEW d \in 0 .. N, d < N, d \in S
        PROVE  d + 1 \in S
    <3>1. /\ d + 1 \in 1 .. N
          /\ d + 1 \in 0 .. N
          /\ (d + 1) - 1 = d
      BY <1>2, <2>2
    <3>2. rows[d + 1] = NextRow(tree, d + 1, rows[d])
      BY <1>3, <3>1
    <3>3. IsRow(rows[d]) /\ Len(rows[d]) >= 1
      BY <2>2
    <3>4. CASE Len(rows[d]) > 1
      <4>1. rows[d + 1] = Up(tree, rows[d])
        BY <3>2, <3>4 DEF NextRow
      <4>2. IsRow(Up(tree, rows[d])) /\ Len(Up(tree, rows[d])) \in 1 .. Len(rows[d]) - 1
        BY <3>3, <3>4, UpFacts
      <4> QED BY <3>1, <4>1, <4>2
    <3>5. CASE ~ Len(rows[d]) > 1
      BY <3>1, <3>2, <3>3, <3>5 DEF NextRow
    <3> QED BY <3>4, <3>5
  <2> HIDE DEF S
  <2>3. 0 .. N \subseteq S
    BY <1>2, <2>1, <2>2, Climb!IntervalInduction
  <2> QED BY <2>3 DEF S
<1>5. DOMAIN rows = 0 .. N
  <2> HIDE DEF rows
  <2> QED BY <1>3
<1> QED BY <1>1, <1>3, <1>4, <1>5

\* Where the loop stops: one node is left, and until then there are more.
LEMMA HeightFacts ==
    ASSUME NEW tree \in Trees, NEW leaves, IsRow(leaves), leaves # <<>>
    PROVE  LET rows == Rows(tree, leaves)
               h == Height(rows)
           IN  /\ h \in 0 .. Len(leaves)
               /\ Len(rows[h]) = 1
               /\ \A d \in 0 .. h - 1 : Len(rows[d]) > 1
               /\ \A d \in 1 .. h : /\ rows[d] = Up(tree, rows[d - 1])
                                    /\ Len(rows[d]) = Above(tree, Len(rows[d - 1]))
<1>1. PICK N : N = Len(leaves)
  OBVIOUS
<1>2. N \in Nat /\ N >= 1
  BY <1>1 DEF IsRow
<1> DEFINE rows == Rows(tree, leaves)
           h == Height(rows)
<1>3. /\ DOMAIN rows = 0 .. N
      /\ rows[0] = leaves
      /\ \A d \in 0 .. N : IsRow(rows[d]) /\ Len(rows[d]) >= 1
      /\ \A d \in 1 .. N : rows[d] = NextRow(tree, d, rows[d - 1])
  BY <1>1, RowsFacts
<1>4. \A d \in 0 .. N : Len(rows[d]) \in Nat /\ Len(rows[d]) >= 1
  <2> HIDE DEF rows
  <2> QED BY <1>3 DEF IsRow
<1>5. Len(rows[N]) = 1
  <2> HIDE DEF rows
  <2> DEFINE S == {d \in 0 .. N : Len(rows[d]) = 1 \/ Len(rows[d]) <= N - d}
  <2>1. 0 \in S
    BY <1>1, <1>2, <1>3
  <2>2. ASSUME NEW d \in 0 .. N, d < N, d \in S
        PROVE  d + 1 \in S
    <3>1. /\ d + 1 \in 1 .. N
          /\ d + 1 \in 0 .. N
          /\ (d + 1) - 1 = d
      BY <1>2, <2>2
    <3>2. rows[d + 1] = NextRow(tree, d + 1, rows[d])
      BY <1>3, <3>1
    <3>3. CASE Len(rows[d]) > 1
      <4>1. rows[d + 1] = Up(tree, rows[d])
        BY <3>2, <3>3 DEF NextRow
      <4>2. Len(Up(tree, rows[d])) \in 1 .. Len(rows[d]) - 1
        BY <1>3, <3>3, UpFacts
      <4>3. Len(rows[d]) <= N - d
        <5>1. PICK nodes : nodes = Len(rows[d])
          OBVIOUS
        <5>2. nodes > 1 /\ (nodes = 1 \/ nodes <= N - d)
          BY <2>2, <3>3, <5>1
        <5>3. nodes <= N - d
          BY <5>2
        <5> QED BY <5>1, <5>3
      <4> QED BY <1>2, <1>4, <2>2, <3>1, <4>1, <4>2, <4>3
    <3>4. CASE ~ Len(rows[d]) > 1
      <4>1. rows[d + 1] = rows[d]
        BY <3>2, <3>4 DEF NextRow
      <4>2. Len(rows[d]) = 1
        <5>1. PICK nodes : nodes = Len(rows[d])
          OBVIOUS
        <5>2. nodes \in Nat /\ nodes >= 1 /\ ~ nodes > 1
          BY <1>4, <3>4, <5>1
        <5>3. nodes = 1
          BY <5>2
        <5> QED BY <5>1, <5>3
      <4> QED BY <3>1, <4>1, <4>2
    <3> QED BY <3>3, <3>4
  <2> HIDE DEF S
  <2>3. 0 .. N \subseteq S
    BY <1>2, <2>1, <2>2, Climb!IntervalInduction
  <2>4. N \in 0 .. N
    BY <1>2
  <2>5. Len(rows[N]) = 1 \/ Len(rows[N]) <= N - N
    BY <2>3, <2>4 DEF S
  <2> QED BY <1>2, <1>4, <2>4, <2>5
<1>6. \E d \in 0 .. N : IsHeight(rows, d)
  <2> HIDE DEF rows
  <2> SUFFICES ASSUME \A d \in 0 .. N : ~ IsHeight(rows, d)
               PROVE  FALSE
    OBVIOUS
  <2> DEFINE S == {d \in 0 .. N : \A k \in 0 .. d : Len(rows[k]) > 1}
  <2>1. 0 \in S
    BY <1>2, <1>4 DEF IsHeight
  <2>2. ASSUME NEW d \in 0 .. N, d < N, d \in S
        PROVE  d + 1 \in S
    <3>1. d + 1 \in 0 .. N /\ (d + 1) - 1 = d
      BY <1>2, <2>2
    <3>2. \A k \in 0 .. d : Len(rows[k]) > 1
      BY <2>2
    <3>3. Len(rows[d + 1]) > 1
      BY <1>4, <3>1, <3>2 DEF IsHeight
    <3> QED BY <3>1, <3>2, <3>3
  <2> HIDE DEF S
  <2>3. 0 .. N \subseteq S
    BY <1>2, <2>1, <2>2, Climb!IntervalInduction
  <2>4. N \in 0 .. N
    BY <1>2
  <2>5. Len(rows[N]) > 1
    BY <2>3, <2>4 DEF S
  <2> QED BY <1>5, <2>5
<1>7. h \in 0 .. N /\ IsHeight(rows, h)
  <2> HIDE DEF rows
  <2> QED BY <1>3, <1>6 DEF Height
<1>8. ASSUME NEW d \in 1 .. h
      PROVE  rows[d] = Up(tree, rows[d - 1])
             /\ Len(rows[d]) = Above(tree, Len(rows[d - 1]))
  <2> HIDE DEF rows, h
  <2>1. d \in 1 .. N /\ d - 1 \in 0 .. h - 1 /\ d - 1 \in 0 .. N
    BY <1>2, <1>7, <1>8
  <2>2. Len(rows[d - 1]) > 1
    BY <1>7, <2>1 DEF IsHeight
  <2>3. rows[d] = Up(tree, rows[d - 1])
    BY <1>3, <2>1, <2>2 DEF NextRow
  <2>4. IsRow(rows[d - 1])
    BY <1>3, <2>1
  <2> QED BY <2>2, <2>3, <2>4, UpFacts
<1>9. Len(rows[h]) = 1 /\ \A d \in 0 .. h - 1 : Len(rows[d]) > 1
  <2> HIDE DEF rows, h
  <2>1. PICK nodes : nodes = Len(rows[h])
    OBVIOUS
  <2>2. nodes \in Nat /\ nodes >= 1 /\ nodes <= 1
    BY <1>4, <1>7, <2>1 DEF IsHeight
  <2>3. nodes = 1
    BY <2>2
  <2> QED BY <1>7, <2>1, <2>3 DEF IsHeight
<1> QED BY <1>1, <1>7, <1>8, <1>9

-----------------------------------------------------------------------------
(* The way up from a leaf.                                                 *)

\* The places of a leaf stay in their rows, and end at the top.
LEMMA PlaceFacts ==
    ASSUME NEW tree \in Trees, NEW leaves, IsRow(leaves), leaves # <<>>,
           tree = "test" => AllPaired(Rows(tree, leaves)),
           NEW i \in 0 .. Len(leaves) - 1,
           NEW rounds \in Nat, Height(Rows(tree, leaves)) <= rounds
    PROVE  LET rows == Rows(tree, leaves)
               place == Places(i, rounds)
               h == Height(rows)
           IN  /\ place[0] = i
               /\ place[h] = 0
               /\ \A d \in 1 .. h : place[d] = place[d - 1] \div 2
               /\ \A d \in 0 .. h : place[d] \in 0 .. Len(rows[d]) - 1
<1> DEFINE rows == Rows(tree, leaves)
           place == Places(i, rounds)
<1>1. PICK h : h = Height(rows)
  OBVIOUS
<1>2. h \in 0 .. Len(leaves) /\ Len(leaves) \in Nat
  BY <1>1, HeightFacts DEF IsRow
<1>3. /\ h \in Nat /\ h <= rounds
      /\ \A d \in 0 .. h : Len(rows[d]) \in Nat
      /\ rows[0] = leaves
  <2>1. \A d \in 0 .. h : Len(rows[d]) \in Nat
    BY <1>2, RowsFacts DEF IsRow
  <2> QED BY <1>1, <1>2, <2>1, RowsFacts
<1>4. Len(rows[h]) = 1
  BY <1>1, HeightFacts
<1>5. \A d \in 1 .. h : Len(rows[d]) = Above(tree, Len(rows[d - 1]))
  BY <1>1, HeightFacts
<1>6. tree = "test" => \A d \in 0 .. h - 1 : Len(rows[d]) % 2 = 0
  BY <1>1 DEF AllPaired
<1>7. /\ place[0] = i
      /\ \A d \in 1 .. h : place[d] = place[d - 1] \div 2
  <2>1. /\ place[0] = i
        /\ \A d \in 1 .. rounds : place[d] = Halved(i, d, place[d - 1])
    BY Descent!IterateDef DEF Places
  <2> HIDE DEF place
  <2> QED BY <1>3, <2>1 DEF Halved
<1> HIDE DEF rows, place
<1> DEFINE S == {d \in 0 .. h : place[d] \in 0 .. Len(rows[d]) - 1}
<1>8. 0 \in S
  BY <1>3, <1>7
<1>9. ASSUME NEW d \in 0 .. h, d < h, d \in S
      PROVE  d + 1 \in S
  <2>1. d + 1 \in 1 .. h /\ d + 1 \in 0 .. h /\ d \in 0 .. h - 1 /\ (d + 1) - 1 = d
    BY <1>3, <1>9
  <2>2. PICK nodes \in Nat : nodes = Len(rows[d])
    BY <1>3
  <2>3. PICK at : at = place[d]
    OBVIOUS
  <2>4. at \in 0 .. nodes - 1
    BY <1>9, <2>2, <2>3
  <2>5. at \div 2 \in 0 .. Above(tree, nodes) - 1
    <3>1. tree = "test" => nodes % 2 = 0
      BY <1>6, <2>1, <2>2
    <3> QED BY <2>4, <3>1 DEF Above
  <2>6. Len(rows[d + 1]) = Above(tree, nodes) /\ place[d + 1] = at \div 2
    BY <1>5, <1>7, <2>1, <2>2, <2>3
  <2> QED BY <2>1, <2>5, <2>6
<1>10. \A d \in 0 .. h : place[d] \in 0 .. Len(rows[d]) - 1
  <2> HIDE DEF S
  <2>1. 0 .. h \subseteq S
    BY <1>3, <1>8, <1>9, Climb!IntervalInduction
  <2> QED BY <2>1 DEF S
<1>11. place[h] = 0
  <2>1. h \in 0 .. h
    BY <1>3
  <2>2. place[h] \in 0 .. 1 - 1
    BY <1>4, <1>10, <2>1
  <2> QED BY <2>2
<1> QED BY <1>1, <1>7, <1>10, <1>11 DEF rows, place

\* A node and its sibling make the node above, in the order of their places.
LEMMA MeasuredPair ==
    ASSUME NEW row, IsRow(row), Len(row) > 1, NEW i \in 0 .. Len(row) - 1
    PROVE  LET sibling == Padded(row)[Sibling(i) + 1] IN
           Up("measurement", row)[i \div 2 + 1] =
               IF i % 2 = 0 THEN H(row[i + 1], sibling)
                            ELSE H(sibling, row[i + 1])
<1> DEFINE cur == Padded(row)
<1>1. PICK nodes \in Nat : nodes = Len(row)
  BY DEF IsRow
<1>2. /\ Len(cur) = 2 * ((nodes + 1) \div 2)
      /\ \A k \in 1 .. nodes : cur[k] = row[k]
  BY <1>1, RowFacts
<1>3. Up("measurement", row) =
          [k \in 1 .. Len(cur) \div 2 |-> H(cur[2 * k - 1], cur[2 * k])]
  BY DEF Up, HashedPairs
<1> HIDE DEF cur
<1>4. i \in 0 .. nodes - 1
  BY <1>1
<1>5. i \div 2 + 1 \in 1 .. Len(cur) \div 2
  BY <1>2, <1>4
<1>6. Up("measurement", row)[i \div 2 + 1] =
          H(cur[2 * (i \div 2 + 1) - 1], cur[2 * (i \div 2 + 1)])
  BY <1>3, <1>5
<1>7. cur[i + 1] = row[i + 1]
  BY <1>2, <1>4
<1>8. CASE i % 2 = 0
  <2>1. 2 * (i \div 2 + 1) - 1 = i + 1 /\ 2 * (i \div 2 + 1) = Sibling(i) + 1
    BY <1>4, <1>8 DEF Sibling
  <2> QED BY <1>6, <1>7, <1>8, <2>1 DEF cur
<1>9. CASE i % 2 # 0
  <2>1. 2 * (i \div 2 + 1) - 1 = Sibling(i) + 1 /\ 2 * (i \div 2 + 1) = i + 1
    BY <1>4, <1>9 DEF Sibling
  <2> QED BY <1>6, <1>7, <1>9, <2>1 DEF cur
<1> QED BY <1>8, <1>9

\* The same in the test suite's tree, where the order does not matter.
LEMMA TestPair ==
    ASSUME NEW row, IsRow(row), Len(row) % 2 = 0, NEW i \in 0 .. Len(row) - 1
    PROVE  Up("test", row)[i \div 2 + 1] = HashPair(row[i + 1], row[Sibling(i) + 1])
<1>1. PICK nodes \in Nat : nodes = Len(row)
  BY DEF IsRow
<1>2. Up("test", row) =
          [k \in 1 .. nodes \div 2 |-> HashPair(row[2 * k - 1], row[2 * k])]
  BY <1>1 DEF Up, TestParents
<1>3. i \in 0 .. nodes - 1 /\ nodes % 2 = 0
  BY <1>1
<1>4. i \div 2 + 1 \in 1 .. nodes \div 2
  BY <1>3
<1>5. Up("test", row)[i \div 2 + 1] =
          HashPair(row[2 * (i \div 2 + 1) - 1], row[2 * (i \div 2 + 1)])
  BY <1>2, <1>4
<1>6. \/ /\ 2 * (i \div 2 + 1) - 1 = i + 1
         /\ 2 * (i \div 2 + 1) = Sibling(i) + 1
      \/ /\ 2 * (i \div 2 + 1) - 1 = Sibling(i) + 1
         /\ 2 * (i \div 2 + 1) = i + 1
  BY <1>3 DEF Sibling
<1>7. \A a, b : HashPair(a, b) = HashPair(b, a)
  BY DEF HashPair
<1> QED BY <1>5, <1>6, <1>7

\* The walk from a leaf with the siblings of a place arrives at the root when
\* the leaf is the one of that place, and with no other.
LEMMA VerifyFacts ==
    ASSUME NEW leaves, IsRow(leaves), leaves # <<>>,
           NEW i \in 0 .. Len(leaves) - 1, NEW leaf
    PROVE  LET built == Build(leaves) IN
           Verify(leaf, i, Proof(built, i), Root(built)) <=> leaf = leaves[i + 1]
<1> DEFINE rows == Rows("measurement", leaves)
           built == Build(leaves)
           proof == Proof(built, i)
           first == [node |-> leaf, i |-> i]
<1>1. PICK h : h = Height(rows)
  OBVIOUS
<1>2. PICK place : place = Places(i, h + 1)
  OBVIOUS
<1>3. "measurement" \in Trees
  BY DEF Trees
<1>4. h \in Nat /\ h <= Len(leaves) /\ Len(leaves) \in Nat
  BY <1>1, <1>3, HeightFacts DEF IsRow
<1>5. /\ \A d \in 0 .. h : IsRow(rows[d])
      /\ rows[0] = leaves
  <2>1. \A d \in 0 .. Len(leaves) : IsRow(rows[d])
    BY <1>3, RowsFacts
  <2>2. rows[0] = leaves
    BY <1>3, RowsFacts
  <2> HIDE DEF rows
  <2> QED BY <1>4, <2>1, <2>2
<1>6. /\ \A d \in 0 .. h - 1 : Len(rows[d]) > 1
      /\ \A d \in 1 .. h : rows[d] = Up("measurement", rows[d - 1])
  BY <1>1, <1>3, HeightFacts
<1>7. /\ place[0] = i
      /\ place[h] = 0
      /\ \A d \in 1 .. h : place[d] = place[d - 1] \div 2
      /\ \A d \in 0 .. h : place[d] \in 0 .. Len(rows[d]) - 1
  BY <1>1, <1>2, <1>3, <1>4, PlaceFacts
<1>8. built = [d \in 1 .. h + 1 |-> rows[d - 1]]
  BY <1>1 DEF Build
<1>9. /\ Len(built) = h + 1
      /\ \A d \in 1 .. h + 1 : built[d] = rows[d - 1]
  <2> HIDE DEF built, rows
  <2> QED BY <1>4, <1>8
<1>10. proof = [d \in 1 .. h |-> Padded(rows[d - 1])[Sibling(place[d - 1]) + 1]]
  <2> HIDE DEF built, rows
  <2>1. \A d \in 1 .. h : built[d] = rows[d - 1]
    BY <1>4, <1>9
  <2>2. Len(built) - 1 = h
    BY <1>4, <1>9
  <2> QED BY <1>2, <1>9, <2>1, <2>2 DEF Proof
<1>11. Len(proof) = h
  <2> HIDE DEF proof
  <2> QED BY <1>4, <1>10
<1>12. Root(built) = rows[h][1]
  <2> HIDE DEF built, rows
  <2> QED BY <1>4, <1>9 DEF Root, Last
<1> DEFINE walk == Walk!Iterate(proof, first, h)
<1>13. /\ walk[0] = first
       /\ \A d \in 1 .. h : walk[d] = Combine(proof, d, walk[d - 1])
  <2> HIDE DEF proof, first
  <2> QED BY <1>4, Walk!IterateDef
<1>14. Verify(leaf, i, proof, Root(built)) <=> walk[h].node = rows[h][1]
  <2> HIDE DEF proof, built, rows
  <2> QED BY <1>11, <1>12 DEF Verify
<1> HIDE DEF rows, built, proof, walk
<1> DEFINE S == {d \in 0 .. h :
                    /\ walk[d].i = place[d]
                    /\ walk[d].node = rows[d][place[d] + 1]
                           <=> leaf = leaves[i + 1]}
<1>15. 0 \in S
  BY <1>4, <1>5, <1>7, <1>13
<1>16. ASSUME NEW d \in 0 .. h, d < h, d \in S
       PROVE  d + 1 \in S
  <2>1. d + 1 \in 1 .. h /\ d + 1 \in 0 .. h /\ d \in 0 .. h - 1 /\ (d + 1) - 1 = d
    BY <1>4, <1>16
  <2>2. PICK row, at, node, sibling :
            /\ row = rows[d]
            /\ at = place[d]
            /\ node = walk[d].node
            /\ sibling = Padded(row)[Sibling(at) + 1]
    OBVIOUS
  <2>3. /\ walk[d].i = at
        /\ node = row[at + 1] <=> leaf = leaves[i + 1]
    BY <1>16, <2>2
  <2>4. IsRow(row) /\ Len(row) > 1 /\ at \in 0 .. Len(row) - 1
    BY <1>5, <1>6, <1>7, <2>1, <2>2
  <2>5. /\ place[d + 1] = at \div 2
        /\ rows[d + 1] = Up("measurement", row)
        /\ proof[d + 1] = sibling
        /\ walk[d + 1] = Combine(proof, d + 1, walk[d])
    BY <1>6, <1>7, <1>10, <1>13, <2>1, <2>2
  <2>6. walk[d + 1] = [node |-> IF at % 2 = 0 THEN H(node, sibling)
                                              ELSE H(sibling, node),
                       i |-> at \div 2]
    BY <2>2, <2>3, <2>5 DEF Combine
  <2>7. rows[d + 1][place[d + 1] + 1] =
            IF at % 2 = 0 THEN H(row[at + 1], sibling)
                          ELSE H(sibling, row[at + 1])
    <3>1. Up("measurement", row)[at \div 2 + 1] =
              IF at % 2 = 0 THEN H(row[at + 1], Padded(row)[Sibling(at) + 1])
                            ELSE H(Padded(row)[Sibling(at) + 1], row[at + 1])
      BY <2>4, MeasuredPair
    <3>2. rows[d + 1][place[d + 1] + 1] = Up("measurement", row)[at \div 2 + 1]
      BY <2>5
    <3> QED BY <2>2, <3>1, <3>2
  <2>8. walk[d + 1].node = rows[d + 1][place[d + 1] + 1] <=> node = row[at + 1]
    BY <2>6, <2>7 DEF H
  <2> QED BY <2>1, <2>3, <2>5, <2>6, <2>8
<1>17. walk[h].node = rows[h][1] <=> leaf = leaves[i + 1]
  <2> HIDE DEF S
  <2>1. 0 .. h \subseteq S
    BY <1>4, <1>15, <1>16, Climb!IntervalInduction
  <2>2. h \in S
    BY <1>4, <2>1
  <2> QED BY <1>7, <2>2 DEF S
<1> QED BY <1>14, <1>17 DEF proof, built

\* The same for the contract, with the siblings that the test suite lists,
\* where no row has an unpaired node.
LEMMA ContractFacts ==
    ASSUME NEW leaves, IsRow(leaves), leaves # <<>>,
           AllPaired(Rows("test", leaves)),
           NEW i \in 0 .. Len(leaves) - 1, NEW leaf
    PROVE  VerifyMerkleProof(TestRoot(leaves), TestProof(leaves, i), leaf)
               <=> leaf = leaves[i + 1]
<1> DEFINE rows == Rows("test", leaves)
           proof == TestProof(leaves, i)
<1>1. PICK h : h = Height(rows)
  OBVIOUS
<1>2. PICK place : place = Places(i, Len(leaves))
  OBVIOUS
<1>3. "test" \in Trees
  BY DEF Trees
<1>4. h \in Nat /\ h <= Len(leaves) /\ Len(leaves) \in Nat
  BY <1>1, <1>3, HeightFacts DEF IsRow
<1>5. /\ \A d \in 0 .. h : IsRow(rows[d])
      /\ rows[0] = leaves
  <2>1. \A d \in 0 .. Len(leaves) : IsRow(rows[d])
    BY <1>3, RowsFacts
  <2>2. rows[0] = leaves
    BY <1>3, RowsFacts
  <2> HIDE DEF rows
  <2> QED BY <1>4, <2>1, <2>2
<1>6. \A d \in 0 .. h - 1 : Len(rows[d]) % 2 = 0
  BY <1>1 DEF AllPaired
<1>7. \A d \in 1 .. h : rows[d] = Up("test", rows[d - 1])
  BY <1>1, <1>3, HeightFacts
<1>8. /\ place[0] = i
      /\ place[h] = 0
      /\ \A d \in 1 .. h : place[d] = place[d - 1] \div 2
      /\ \A d \in 0 .. h : place[d] \in 0 .. Len(rows[d]) - 1
  BY <1>1, <1>2, <1>3, <1>4, PlaceFacts
<1>9. proof = [d \in 1 .. h |-> rows[d - 1][Sibling(place[d - 1]) + 1]]
  BY <1>1, <1>2 DEF TestProof
<1>10. Len(proof) = h
  <2> HIDE DEF proof
  <2> QED BY <1>4, <1>9
<1> DEFINE walk == Check!Iterate(proof, leaf, h)
<1>11. /\ walk[0] = leaf
       /\ \A d \in 1 .. h : walk[d] = HashOn(proof, d, walk[d - 1])
  <2> HIDE DEF proof
  <2> QED BY <1>4, Check!IterateDef
<1>12. VerifyMerkleProof(TestRoot(leaves), proof, leaf) <=> walk[h] = rows[h][1]
  <2>1. TestRoot(leaves) = rows[h][1]
    BY <1>1 DEF TestRoot, Top
  <2> HIDE DEF proof, rows
  <2> QED BY <1>10, <2>1 DEF VerifyMerkleProof
<1> HIDE DEF rows, proof, walk
<1> DEFINE S == {d \in 0 .. h : walk[d] = rows[d][place[d] + 1]
                                    <=> leaf = leaves[i + 1]}
<1>13. 0 \in S
  BY <1>4, <1>5, <1>8, <1>11
<1>14. ASSUME NEW d \in 0 .. h, d < h, d \in S
       PROVE  d + 1 \in S
  <2>1. d + 1 \in 1 .. h /\ d + 1 \in 0 .. h /\ d \in 0 .. h - 1 /\ (d + 1) - 1 = d
    BY <1>4, <1>14
  <2>2. PICK row, at, sibling :
            /\ row = rows[d]
            /\ at = place[d]
            /\ sibling = row[Sibling(at) + 1]
    OBVIOUS
  <2>3. walk[d] = row[at + 1] <=> leaf = leaves[i + 1]
    BY <1>14, <2>2
  <2>4. IsRow(row) /\ Len(row) % 2 = 0 /\ at \in 0 .. Len(row) - 1
    BY <1>5, <1>6, <1>8, <2>1, <2>2
  <2>5. /\ place[d + 1] = at \div 2
        /\ rows[d + 1] = Up("test", row)
        /\ proof[d + 1] = sibling
        /\ walk[d + 1] = HashOn(proof, d + 1, walk[d])
    BY <1>7, <1>8, <1>9, <1>11, <2>1, <2>2
  <2>6. walk[d + 1] = HashPair(walk[d], sibling)
    BY <2>5 DEF HashOn
  <2>7. rows[d + 1][place[d + 1] + 1] = HashPair(row[at + 1], sibling)
    <3>1. Up("test", row)[at \div 2 + 1] =
              HashPair(row[at + 1], row[Sibling(at) + 1])
      BY <2>4, TestPair
    <3> QED BY <2>2, <2>5, <3>1
  <2>8. \A a, b, c : HashPair(a, c) = HashPair(b, c) <=> a = b
    BY DEF HashPair
  <2> QED BY <2>1, <2>3, <2>6, <2>7, <2>8
<1>15. walk[h] = rows[h][1] <=> leaf = leaves[i + 1]
  <2> HIDE DEF S
  <2>1. 0 .. h \subseteq S
    BY <1>4, <1>13, <1>14, Climb!IntervalInduction
  <2>2. h \in S
    BY <1>4, <2>1
  <2> QED BY <1>8, <2>2 DEF S
<1> QED BY <1>12, <1>15 DEF proof

-----------------------------------------------------------------------------
(* The root of the generator.                                              *)

\* Rows of the same length that differ have different rows above them.
LEMMA ParentsDiffer ==
    ASSUME NEW row, IsRow(row), NEW other, IsRow(other),
           Len(row) = Len(other),
           Up("generator", row) = Up("generator", other)
    PROVE  row = other
<1>1. PICK nodes \in Nat : nodes = Len(row)
  BY DEF IsRow
<1>2. Parents(row) = Parents(other)
  BY DEF Up
<1>3. ASSUME NEW k \in 1 .. nodes
      PROVE  row[k] = other[k]
  <2>1. PICK j \in 1 .. (nodes + 1) \div 2 : k = 2 * j - 1 \/ k = 2 * j
    <3>1. (k + 1) \div 2 \in 1 .. (nodes + 1) \div 2
      BY <1>3
    <3>2. k = 2 * ((k + 1) \div 2) - 1 \/ k = 2 * ((k + 1) \div 2)
      BY <1>3
    <3> QED BY <3>1, <3>2
  <2> DEFINE Right(level) == IF 2 * j <= nodes THEN level[2 * j]
                                               ELSE level[2 * j - 1]
  <2>2. /\ Parents(row)[j] =
               [blake2b |-> <<Hexdigest(row[2 * j - 1]), Hexdigest(Right(row))>>]
        /\ Parents(other)[j] =
               [blake2b |-> <<Hexdigest(other[2 * j - 1]), Hexdigest(Right(other))>>]
    BY <1>1, <2>1 DEF Parents
  <2>3. /\ Hexdigest(row[2 * j - 1]) = Hexdigest(other[2 * j - 1])
        /\ Hexdigest(Right(row)) = Hexdigest(Right(other))
    <3> HIDE DEF Right
    <3> QED BY <1>2, <2>2
  <2>4. /\ row[2 * j - 1] = other[2 * j - 1]
        /\ Right(row) = Right(other)
    <3> HIDE DEF Right
    <3> QED BY <2>3 DEF Hexdigest
  <2> QED BY <1>3, <2>1, <2>4
<1>4. row = [k \in 1 .. nodes |-> row[k]] /\ other = [k \in 1 .. nodes |-> other[k]]
  BY <1>1 DEF IsRow
<1> QED BY <1>3, <1>4

\* Trees over equally many leaves have rows of the same lengths.
LEMMA SameShape ==
    ASSUME NEW leaves, IsRow(leaves), leaves # <<>>,
           NEW others, IsRow(others), others # <<>>, Len(others) = Len(leaves)
    PROVE  LET rows == Rows("generator", leaves)
               rivals == Rows("generator", others)
           IN  /\ Height(rows) = Height(rivals)
               /\ \A d \in 0 .. Height(rows) : Len(rows[d]) = Len(rivals[d])
<1> DEFINE rows == Rows("generator", leaves)
           rivals == Rows("generator", others)
<1>1. PICK N \in Nat : N = Len(leaves)
  BY DEF IsRow
<1>2. PICK h : h = Height(rows)
  OBVIOUS
<1>3. PICK g : g = Height(rivals)
  OBVIOUS
<1>4. "generator" \in Trees
  BY DEF Trees
<1>5. h \in 0 .. N /\ g \in 0 .. N
  BY <1>1, <1>2, <1>3, <1>4, HeightFacts
<1>6. /\ \A d \in 0 .. h - 1 : Len(rows[d]) > 1
      /\ \A d \in 0 .. g - 1 : Len(rivals[d]) > 1
  BY <1>2, <1>3, <1>4, HeightFacts
<1>7. Len(rows[h]) = 1
  BY <1>2, <1>4, HeightFacts
<1>8. Len(rivals[g]) = 1
  BY <1>3, <1>4, HeightFacts
<1>9. \A d \in 1 .. h : Len(rows[d]) = Above("generator", Len(rows[d - 1]))
  BY <1>2, <1>4, HeightFacts
<1>10. \A d \in 1 .. g : Len(rivals[d]) = Above("generator", Len(rivals[d - 1]))
  BY <1>3, <1>4, HeightFacts
<1>11. Len(rows[0]) = Len(rivals[0])
  BY <1>4, RowsFacts
<1> HIDE DEF rows, rivals
<1> DEFINE S == {d \in 0 .. N : d <= h /\ d <= g => Len(rows[d]) = Len(rivals[d])}
<1>12. 0 \in S
  BY <1>1, <1>11
<1>13. ASSUME NEW d \in 0 .. N, d < N, d \in S
       PROVE  d + 1 \in S
  <2>1. d + 1 \in 0 .. N
    BY <1>1, <1>13
  <2>2. ASSUME d + 1 <= h, d + 1 <= g
        PROVE  Len(rows[d + 1]) = Len(rivals[d + 1])
    <3>1. d + 1 \in 1 .. h /\ d + 1 \in 1 .. g /\ (d + 1) - 1 = d
      BY <1>5, <2>2
    <3>2. Len(rows[d]) = Len(rivals[d])
      BY <1>5, <1>13, <2>2
    <3>3. Len(rows[d + 1]) = Above("generator", Len(rows[d]))
      BY <1>9, <3>1
    <3>4. Len(rivals[d + 1]) = Above("generator", Len(rivals[d]))
      BY <1>10, <3>1
    <3> QED BY <3>2, <3>3, <3>4
  <2> QED BY <2>1, <2>2
<1>14. \A d \in 0 .. N : d <= h /\ d <= g => Len(rows[d]) = Len(rivals[d])
  <2> HIDE DEF S
  <2>1. 0 .. N \subseteq S
    BY <1>1, <1>12, <1>13, Climb!IntervalInduction
  <2> QED BY <2>1 DEF S
<1>15. h = g
  <2>1. ~ h < g
    <3> SUFFICES ASSUME h < g PROVE FALSE
      OBVIOUS
    <3>1. h \in 0 .. g - 1
      BY <1>5
    <3>2. PICK nodes : nodes = Len(rivals[h])
      OBVIOUS
    <3>3. nodes > 1
      BY <1>6, <3>1, <3>2
    <3>4. nodes = 1
      BY <1>5, <1>7, <1>14, <3>2
    <3> QED BY <3>3, <3>4
  <2>2. ~ g < h
    <3> SUFFICES ASSUME g < h PROVE FALSE
      OBVIOUS
    <3>1. g \in 0 .. h - 1
      BY <1>5
    <3>2. PICK nodes : nodes = Len(rows[g])
      OBVIOUS
    <3>3. nodes > 1
      BY <1>6, <3>1, <3>2
    <3>4. nodes = 1
      BY <1>5, <1>8, <1>14, <3>2
    <3> QED BY <3>3, <3>4
  <2> QED BY <1>5, <2>1, <2>2
<1>16. \A d \in 0 .. h : Len(rows[d]) = Len(rivals[d])
  BY <1>5, <1>14, <1>15
<1> QED BY <1>2, <1>3, <1>15, <1>16 DEF rows, rivals

\* Equal roots over equally many leaves are roots of the same leaves: the
\* rows are equal from the top down.
LEMMA SameRootSameLeaves ==
    ASSUME NEW leaves, IsRow(leaves), leaves # <<>>,
           NEW others, IsRow(others), others # <<>>, Len(others) = Len(leaves),
           Top(Rows("generator", leaves)) = Top(Rows("generator", others))
    PROVE  leaves = others
<1> DEFINE rows == Rows("generator", leaves)
           rivals == Rows("generator", others)
<1>1. PICK h : h = Height(rows)
  OBVIOUS
<1>2. "generator" \in Trees
  BY DEF Trees
<1>3. h \in Nat /\ h <= Len(leaves) /\ Len(leaves) \in Nat
  BY <1>1, <1>2, HeightFacts DEF IsRow
<1>4. h = Height(rivals) /\ \A d \in 0 .. h : Len(rows[d]) = Len(rivals[d])
  BY <1>1, SameShape
<1>5. \A d \in 0 .. h : IsRow(rows[d]) /\ IsRow(rivals[d])
  <2>1. \A d \in 0 .. Len(leaves) : IsRow(rows[d])
    BY <1>2, RowsFacts
  <2>2. \A d \in 0 .. Len(leaves) : IsRow(rivals[d])
    BY <1>2, RowsFacts
  <2> HIDE DEF rows, rivals
  <2> QED BY <1>3, <2>1, <2>2
<1>6. \A d \in 1 .. h : rows[d] = Up("generator", rows[d - 1])
  BY <1>1, <1>2, HeightFacts
<1>7. \A d \in 1 .. h : rivals[d] = Up("generator", rivals[d - 1])
  BY <1>2, <1>4, HeightFacts
<1>8. rows[h] = rivals[h]
  <2>1. Len(rows[h]) = 1
    BY <1>1, <1>2, HeightFacts
  <2>2. rows[h][1] = rivals[h][1]
    BY <1>1, <1>4 DEF Top
  <2> HIDE DEF rows, rivals
  <2>3. h \in 0 .. h
    BY <1>3
  <2>4. IsRow(rows[h]) /\ IsRow(rivals[h]) /\ Len(rivals[h]) = 1
    BY <1>4, <1>5, <2>1, <2>3
  <2>5. /\ rows[h] = [k \in 1 .. 1 |-> rows[h][k]]
        /\ rivals[h] = [k \in 1 .. 1 |-> rivals[h][k]]
    BY <2>1, <2>4 DEF IsRow
  <2>6. \A k \in 1 .. 1 : rows[h][k] = rivals[h][k]
    BY <2>2
  <2> QED BY <2>5, <2>6
<1> HIDE DEF rows, rivals
<1> DEFINE S == {m \in 0 .. h : rows[h - m] = rivals[h - m]}
<1>9. 0 \in S
  BY <1>3, <1>8
<1>10. ASSUME NEW m \in 0 .. h, m < h, m \in S
       PROVE  m + 1 \in S
  <2>1. PICK d : d = h - m
    OBVIOUS
  <2>2. /\ m + 1 \in 0 .. h
        /\ d \in 1 .. h
        /\ d - 1 \in 0 .. h
        /\ h - (m + 1) = d - 1
    BY <1>3, <1>10, <2>1
  <2>3. rows[d] = rivals[d]
    BY <1>10, <2>1
  <2>4. Up("generator", rows[d - 1]) = Up("generator", rivals[d - 1])
    BY <1>6, <1>7, <2>2, <2>3
  <2>5. /\ IsRow(rows[d - 1]) /\ IsRow(rivals[d - 1])
        /\ Len(rows[d - 1]) = Len(rivals[d - 1])
    BY <1>4, <1>5, <2>2
  <2>6. rows[d - 1] = rivals[d - 1]
    BY <2>4, <2>5, ParentsDiffer
  <2> QED BY <2>2, <2>6
<1>11. h \in S
  <2> HIDE DEF S
  <2>1. 0 .. h \subseteq S
    BY <1>3, <1>9, <1>10, Climb!IntervalInduction
  <2> QED BY <1>3, <2>1
<1>12. rows[0] = rivals[0]
  BY <1>3, <1>11
<1> QED BY <1>2, <1>12, RowsFacts DEF rows, rivals

-----------------------------------------------------------------------------
(* The window and the measurement.                                         *)

Events == {Event(k) : k \in 0 .. n - 1}

\* What the commands have returned so far.
WindowInv ==
    /\ window \in Seq(Payloads \cup Events)
    /\ pc = "payloads" => cids = <<>>
    /\ pc # "payloads" => window = [k \in 1 .. n |-> Event(k - 1)]
    /\ pc \in {"payloads", "add"} => roundtrip = <<>>
    /\ pc \in {"payloads", "add", "cat", "fetch", "printed"}

\* An identifier was returned by the add of its own payload, which stored it.
AddInv ==
    /\ cids \in Seq({NoOutput} \cup {Cid(event) : event \in Events})
    /\ Len(cids) <= n
    /\ pc \in {"cat", "fetch", "printed"} => Len(cids) = n
    /\ \A k \in 1 .. Len(cids) :
          \/ cids[k] = NoOutput
          \/ cids[k] = Cid(Event(k - 1)) /\ Event(k - 1) \in repo
    /\ readded \in {NoOutput, Cid(Event(0))}

\* A fetch that returned the payload was given its identifier.
FetchInv ==
    /\ roundtrip \in Seq(BOOLEAN)
    /\ Len(roundtrip) <= n
    /\ pc \in {"fetch", "printed"} => Len(roundtrip) = n
    /\ \A k \in 1 .. Len(roundtrip) :
          roundtrip[k] => cids[k] = Cid(Event(k - 1))
    /\ pc = "printed" =>
          \/ fetched = NoOutput
          \/ fetched \in repo /\ cids[idx + 1] = Cid(fetched)

MeasureInv == WindowInv /\ AddInv /\ FetchInv

\* No two outputs or contents of different origin are equal.
LEMMA DifferentOutputs ==
    /\ \A k : NoOutput # Event(k)
    /\ \A content : NoOutput # Cid(content)
    /\ \A content, other : Cid(content) = Cid(other) => content = other
    /\ \A k, m : Event(k) = Event(m) => k = m
    /\ \A k, content : Tampered(content) # Event(k)
<1>1. \A k : NoOutput # Event(k)
  BY DEF NoOutput, Event
<1>2. \A content : NoOutput # Cid(content)
  BY DEF NoOutput, Cid
<1>3. \A content, other : Cid(content) = Cid(other) => content = other
  BY DEF Cid
<1>4. \A k, m : Event(k) = Event(m) => k = m
  BY DEF Event
<1>5. \A k, content : Tampered(content) # Event(k)
  BY DEF Tampered, Event
<1> QED BY <1>1, <1>2, <1>3, <1>4, <1>5

LEMMA MeasureInvInit ==
    MeasureInit => MeasureInv
<1> SUFFICES ASSUME MeasureInit PROVE MeasureInv
  OBVIOUS
<1> USE MeasurementAssumption DEF MeasureInit, Init
<1>1. WindowInv
  BY DEF WindowInv
<1>2. AddInv
  BY DEF AddInv
<1>3. FetchInv
  BY DEF FetchInv
<1> QED BY <1>1, <1>2, <1>3 DEF MeasureInv

LEMMA MeasureInvNext ==
    MeasureInv /\ [MeasureNext]_measureVars => MeasureInv'
<1> SUFFICES ASSUME MeasureInv, [MeasureNext]_measureVars PROVE MeasureInv'
  OBVIOUS
<1> USE MeasurementAssumption DEF MeasureInv
<1>1. CASE UNCHANGED measureVars
  BY <1>1 DEF WindowInv, AddInv, FetchInv, measureVars, ipfs
<1>2. CASE RecordOnly
  <2>1. /\ UNCHANGED <<pc, ready, repo, cids, readded, roundtrip, tamper_cid, fetched>>
        /\ pc = "payloads"
        /\ window' \in Seq(Payloads \cup Events)
    BY <1>2 DEF RecordOnly, Record, ipfs, WindowInv
  <2> QED BY <2>1 DEF WindowInv, AddInv, FetchInv
<1>3. CASE Prepare
  <2>1. /\ UNCHANGED <<repo, cids, readded, roundtrip, tamper_cid, fetched>>
        /\ pc = "payloads" /\ pc' = "add"
        /\ window' = [k \in 1 .. n |-> Event(k - 1)]
    BY <1>3 DEF Prepare
  <2>2. window' \in Seq(Payloads \cup Events)
    <3>1. \A k \in 1 .. n : Event(k - 1) \in Events
      BY DEF Events
    <3> QED BY <2>1, <3>1
  <2>3. WindowInv'
    BY <2>1, <2>2 DEF WindowInv
  <2> QED BY <2>1, <2>3 DEF WindowInv, AddInv, FetchInv
<1>4. CASE Add
  <2>1. /\ UNCHANGED <<window, pc, ready, readded, roundtrip, tamper_cid, fetched>>
        /\ pc = "add" /\ Len(cids) < n
    BY <1>4 DEF Add
  <2>2. WindowInv'
    BY <2>1 DEF WindowInv
  <2>3. PICK size \in Nat : size = Len(cids)
    BY DEF AddInv
  <2>4. size + 1 \in 1 .. n /\ window[size + 1] = Event(size)
    BY <2>1, <2>3 DEF WindowInv
  <2>5. PICK output \in AddOutputs(Event(size)) :
            /\ cids' = Append(cids, output)
            /\ AddEffect(Event(size), output)
    BY <1>4, <2>3, <2>4 DEF Add
  <2>6. /\ repo \subseteq repo'
        /\ \/ output = NoOutput
           \/ output = Cid(Event(size)) /\ Event(size) \in repo'
    BY <2>5 DEF AddOutputs, AddEffect
  <2>7. AddInv'
    <3>1. output \in {NoOutput} \cup {Cid(event) : event \in Events}
      BY <2>4, <2>6 DEF Events
    <3>2. /\ cids' \in Seq({NoOutput} \cup {Cid(event) : event \in Events})
          /\ Len(cids') = size + 1
          /\ \A k \in 1 .. size : cids'[k] = cids[k]
          /\ cids'[size + 1] = output
      BY <2>3, <2>5, <3>1 DEF AddInv
    <3>3. ASSUME NEW k \in 1 .. size + 1
          PROVE  \/ cids'[k] = NoOutput
                 \/ cids'[k] = Cid(Event(k - 1)) /\ Event(k - 1) \in repo'
      <4>1. CASE k \in 1 .. size
        BY <2>3, <2>6, <3>2, <4>1 DEF AddInv
      <4>2. CASE k = size + 1
        BY <2>3, <2>6, <3>2, <4>2
      <4> QED BY <2>3, <4>1, <4>2
    <3> QED BY <2>1, <2>4, <3>2, <3>3 DEF AddInv
  <2>8. FetchInv'
    BY <2>1 DEF WindowInv, FetchInv
  <2> QED BY <2>2, <2>7, <2>8
<1>5. CASE AddAgain
  <2>1. /\ UNCHANGED <<window, ready, cids, roundtrip, tamper_cid, fetched>>
        /\ pc = "add" /\ Len(cids) = n /\ pc' = "cat"
        /\ readded' \in AddOutputs(window[1])
        /\ repo \subseteq repo'
    BY <1>5 DEF AddAgain, AddEffect
  <2>2. window[1] = Event(0)
    BY <2>1 DEF WindowInv
  <2>3. readded' \in {NoOutput, Cid(Event(0))}
    BY <2>1, <2>2 DEF AddOutputs
  <2>4. WindowInv'
    BY <2>1 DEF WindowInv
  <2>5. AddInv'
    BY <2>1, <2>3 DEF AddInv
  <2>6. FetchInv'
    BY <2>1 DEF WindowInv, FetchInv
  <2> QED BY <2>4, <2>5, <2>6
<1>6. CASE Cat
  <2>1. /\ UNCHANGED <<window, pc, ready, repo, cids, readded, tamper_cid, fetched>>
        /\ pc = "cat" /\ Len(roundtrip) < n
    BY <1>6 DEF Cat
  <2>2. PICK size \in Nat : size = Len(roundtrip)
    BY DEF FetchInv
  <2>3. size + 1 \in 1 .. n /\ window[size + 1] = Event(size)
    BY <2>1, <2>2 DEF WindowInv
  <2>4. PICK output \in CatOutputs(cids[size + 1], Event(size)) :
            roundtrip' = Append(roundtrip, output = Event(size))
    BY <1>6, <2>2, <2>3 DEF Cat
  <2>5. output = Event(size) => cids[size + 1] = Cid(Event(size))
    BY <2>4, DifferentOutputs DEF CatOutputs
  <2>6. /\ roundtrip' \in Seq(BOOLEAN)
        /\ Len(roundtrip') = size + 1
        /\ \A k \in 1 .. size : roundtrip'[k] = roundtrip[k]
        /\ roundtrip'[size + 1] = (output = Event(size))
    <3>1. PICK same \in BOOLEAN : same = (output = Event(size))
      OBVIOUS
    <3> QED BY <2>2, <2>4, <3>1 DEF FetchInv
  <2>7. FetchInv'
    <3>1. ASSUME NEW k \in 1 .. size + 1, roundtrip'[k]
          PROVE  cids'[k] = Cid(Event(k - 1))
      <4>1. CASE k \in 1 .. size
        BY <2>1, <2>2, <2>6, <3>1, <4>1 DEF FetchInv
      <4>2. CASE k = size + 1
        BY <2>1, <2>2, <2>5, <2>6, <3>1, <4>2
      <4> QED BY <2>2, <4>1, <4>2
    <3> QED BY <2>1, <2>3, <2>6, <3>1 DEF FetchInv
  <2>8. WindowInv'
    BY <2>1 DEF WindowInv
  <2>9. AddInv'
    BY <2>1 DEF AddInv
  <2> QED BY <2>7, <2>8, <2>9
<1>7. CASE AddTampered
  <2>1. /\ UNCHANGED <<window, ready, cids, readded, roundtrip, fetched>>
        /\ pc = "cat" /\ Len(roundtrip) = n /\ pc' = "fetch"
        /\ repo \subseteq repo'
    BY <1>7 DEF AddTampered, AddEffect
  <2>2. WindowInv'
    BY <2>1 DEF WindowInv
  <2>3. AddInv'
    BY <2>1 DEF AddInv
  <2>4. FetchInv'
    BY <2>1 DEF FetchInv
  <2> QED BY <2>2, <2>3, <2>4
<1>8. CASE Fetch
  <2>1. /\ UNCHANGED <<window, ready, repo, cids, readded, roundtrip, tamper_cid>>
        /\ pc = "fetch" /\ pc' = "printed"
        /\ fetched' \in CatOutputs(cids[idx + 1], window[idx + 1])
    BY <1>8 DEF Fetch
  <2>2. \/ fetched' = NoOutput
        \/ fetched' \in repo' /\ cids'[idx + 1] = Cid(fetched')
    BY <2>1 DEF CatOutputs
  <2>3. WindowInv'
    BY <2>1 DEF WindowInv
  <2>4. AddInv'
    BY <2>1 DEF AddInv
  <2>5. FetchInv'
    BY <2>1, <2>2 DEF FetchInv
  <2> QED BY <2>3, <2>4, <2>5
<1> QED BY <1>1, <1>2, <1>3, <1>4, <1>5, <1>6, <1>7, <1>8 DEF MeasureNext

\* The measurement keeps its invariant, whichever of its commands fail.
THEOREM MeasureInvariance == MeasureSpec => []MeasureInv
<1>1. MeasureInit => MeasureInv
  BY MeasureInvInit
<1>2. MeasureInv /\ [MeasureNext]_measureVars => MeasureInv'
  BY MeasureInvNext
<1> QED BY <1>1, <1>2, PTL DEF MeasureSpec

-----------------------------------------------------------------------------
(* What the trees promise.                                                 *)

\* A window's leaves are a row, whatever a leaf is.
LEMMA WindowIsRow ==
    ASSUME MeasureInv
    PROVE  /\ IsRow(window)
           /\ DOMAIN window = 1 .. Len(window)
           /\ Positions = 0 .. Len(window) - 1
<1>1. window \in Seq(Payloads \cup Events)
  BY DEF MeasureInv, WindowInv
<1> QED BY <1>1 DEF IsRow, Positions

\* A proof pins the payload at its position of the window, in a tree over any
\* number of events, those that leave nodes unpaired included.
THEOREM ProofsPinPayloads == MeasureSpec => []ProofPinsPayload
<1>1. MeasureInv => ProofPinsPayload
  <2> SUFFICES ASSUME MeasureInv, window # <<>>,
                      NEW i \in Positions, NEW payload \in Payloads
               PROVE  LET built == Build([k \in DOMAIN window |-> Leaf(window[k])])
                      IN  Verify(Leaf(payload), i, Proof(built, i), Root(built))
                              <=> payload = window[i + 1]
    BY DEF ProofPinsPayload
  <2>1. PICK size \in Nat : size = Len(window)
    BY WindowIsRow DEF IsRow
  <2>2. size > 0 /\ i \in 0 .. size - 1
    BY <2>1, WindowIsRow DEF IsRow
  <2> DEFINE leaves == [k \in DOMAIN window |-> Leaf(window[k])]
  <2>3. leaves = [k \in 1 .. size |-> Leaf(window[k])]
    BY <2>1, WindowIsRow
  <2> HIDE DEF leaves
  <2>4. /\ IsRow(leaves) /\ leaves # <<>>
        /\ i \in 0 .. Len(leaves) - 1
        /\ leaves[i + 1] = Leaf(window[i + 1])
    BY <2>2, <2>3 DEF IsRow
  <2>5. LET built == Build(leaves) IN
        Verify(Leaf(payload), i, Proof(built, i), Root(built))
            <=> Leaf(payload) = leaves[i + 1]
    BY <2>4, VerifyFacts
  <2>6. Leaf(payload) = leaves[i + 1] <=> payload = window[i + 1]
    BY <2>4 DEF Leaf
  <2> QED BY <2>5, <2>6 DEF leaves
<1> QED BY <1>1, MeasureInvariance, PTL

\* What is anchored of a window determines it: the generator's root and the
\* number of events, over any number of them.
THEOREM RootsPinWindows == MeasureSpec => []RootAndCountPinWindow
<1>1. MeasureInv => RootAndCountPinWindow
  <2> SUFFICES ASSUME MeasureInv,
                      NEW other \in [1 .. Len(window) -> Payloads],
                      BuildMerkleTree(other) = BuildMerkleTree(window)
               PROVE  other = window
    BY DEF RootAndCountPinWindow
  <2>1. PICK size \in Nat : size = Len(window)
    BY WindowIsRow DEF IsRow
  <2>2. /\ window = [k \in 1 .. size |-> window[k]]
        /\ other = [k \in 1 .. size |-> other[k]]
    BY <2>1, WindowIsRow DEF IsRow
  <2>3. CASE size = 0
    BY <2>2, <2>3
  <2>4. CASE size # 0
    <3>1. window # <<>> /\ other # <<>>
      BY <2>1, <2>2, <2>4
    <3> DEFINE Leaves(events) == [k \in DOMAIN events |-> HashEvent(events[k])]
    <3>2. /\ Leaves(window) = [k \in 1 .. size |-> HashEvent(window[k])]
          /\ Leaves(other) = [k \in 1 .. size |-> HashEvent(other[k])]
      <4>1. DOMAIN window = 1 .. size /\ DOMAIN other = 1 .. size
        BY <2>2
      <4> QED BY <4>1
    <3>3. Top(Rows("generator", Leaves(window)))
              = Top(Rows("generator", Leaves(other)))
      BY <3>1 DEF BuildMerkleTree
    <3> HIDE DEF Leaves
    <3>4. /\ IsRow(Leaves(window)) /\ Leaves(window) # <<>>
          /\ IsRow(Leaves(other)) /\ Leaves(other) # <<>>
          /\ Len(Leaves(other)) = Len(Leaves(window))
      BY <2>4, <3>2 DEF IsRow
    <3>5. Leaves(window) = Leaves(other)
      BY <3>3, <3>4, SameRootSameLeaves
    <3>6. ASSUME NEW k \in 1 .. size PROVE window[k] = other[k]
      <4>1. HashEvent(window[k]) = HashEvent(other[k])
        BY <3>2, <3>5
      <4> QED BY <4>1 DEF HashEvent
    <3> QED BY <2>2, <3>6
  <2> QED BY <2>3, <2>4
<1> QED BY <1>1, MeasureInvariance, PTL

\* The contract accepts the test suite's proof for a position with the leaf of
\* that position and with no other, in trees of any size without unpaired nodes.
THEOREM ContractProofsPinLeaves == MeasureSpec => []ContractProofPinsLeaf
<1>1. MeasureInv => ContractProofPinsLeaf
  <2> DEFINE leaves == [k \in DOMAIN window |-> TestLeaf(window[k])]
  <2> SUFFICES ASSUME MeasureInv, window # <<>>, AllPaired(Rows("test", leaves)),
                      NEW i \in Positions, NEW payload \in Payloads
               PROVE  VerifyMerkleProof(TestRoot(leaves), TestProof(leaves, i),
                                        TestLeaf(payload))
                          <=> payload = window[i + 1]
    BY DEF ContractProofPinsLeaf
  <2>1. PICK size \in Nat : size = Len(window)
    BY WindowIsRow DEF IsRow
  <2>2. size > 0 /\ i \in 0 .. size - 1
    BY <2>1, WindowIsRow DEF IsRow
  <2>3. leaves = [k \in 1 .. size |-> TestLeaf(window[k])]
    BY <2>1, WindowIsRow
  <2> HIDE DEF leaves
  <2>4. /\ IsRow(leaves) /\ leaves # <<>>
        /\ i \in 0 .. Len(leaves) - 1
        /\ leaves[i + 1] = TestLeaf(window[i + 1])
    BY <2>2, <2>3 DEF IsRow
  <2>5. VerifyMerkleProof(TestRoot(leaves), TestProof(leaves, i), TestLeaf(payload))
            <=> TestLeaf(payload) = leaves[i + 1]
    BY <2>4, ContractFacts
  <2>6. TestLeaf(payload) = leaves[i + 1] <=> payload = window[i + 1]
    BY <2>4 DEF TestLeaf
  <2> QED BY <2>5, <2>6
<1> QED BY <1>1, MeasureInvariance, PTL

-----------------------------------------------------------------------------
(* What the measurement concludes.                                         *)

\* A full round trip vouches for the adds: their outputs are identifiers of
\* stored payloads, and the two verdicts on them were measured.
THEOREM FullRoundtripVouches == MeasureSpec => []RoundtripVouches
<1>1. MeasureInv => RoundtripVouches
  <2> SUFFICES ASSUME MeasureInv, pc = "printed", roundtrips = n
               PROVE  /\ \A k \in 1 .. n : window[k] \in repo /\ cids[k] = Cid(window[k])
                      /\ distinct
                      /\ deterministic <=> readded # NoOutput
    BY DEF RoundtripVouches
  <2>1. /\ n \in Nat /\ n >= 1
        /\ DOMAIN cids = 1 .. n
        /\ DOMAIN roundtrip = 1 .. n
        /\ Len(cids) = n /\ Len(roundtrip) = n
    BY MeasurementAssumption DEF MeasureInv, AddInv, FetchInv
  <2>2. \A k \in 1 .. n : window[k] = Event(k - 1)
    BY DEF MeasureInv, WindowInv
  <2>3. IsFiniteSet(1 .. n) /\ Cardinality(1 .. n) = n
    BY <2>1, FS_Interval
  <2>4. \A k \in 1 .. n : roundtrip[k]
    <3> DEFINE back == {k \in DOMAIN roundtrip : roundtrip[k]}
    <3>1. back \in SUBSET (1 .. n)
      BY <2>1
    <3>2. Cardinality(back) = n
      BY DEF roundtrips
    <3> HIDE DEF back
    <3>3. back = 1 .. n
      BY <2>3, <3>1, <3>2, FS_Subset
    <3> QED BY <3>3 DEF back
  <2>5. \A k \in 1 .. n : cids[k] = Cid(Event(k - 1)) /\ Event(k - 1) \in repo
    <3>1. \A k \in 1 .. n : cids[k] = Cid(Event(k - 1))
      BY <2>1, <2>4 DEF MeasureInv, FetchInv
    <3>2. \A k \in 1 .. n : cids[k] = NoOutput \/ Event(k - 1) \in repo
      BY <2>1 DEF MeasureInv, AddInv
    <3> QED BY <3>1, <3>2, DifferentOutputs
  <2>6. distinct
    <3> DEFINE ids == {cids[k] : k \in DOMAIN cids}
               f == [k \in 1 .. n |-> cids[k]]
    <3>1. f \in Bijection(1 .. n, ids)
      <4>1. f \in [1 .. n -> ids] /\ \A id \in ids : \E k \in 1 .. n : f[k] = id
        BY <2>1
      <4>2. \A k, m \in 1 .. n : f[k] = f[m] => k = m
        <5>1. \A k, m \in 1 .. n : f[k] = f[m] => Event(k - 1) = Event(m - 1)
          BY <2>5, DifferentOutputs
        <5>2. \A k, m \in 1 .. n : Event(k - 1) = Event(m - 1) => k - 1 = m - 1
          BY DifferentOutputs
        <5> HIDE DEF f
        <5> QED BY <2>1, <5>1, <5>2
      <4> HIDE DEF f, ids
      <4> QED BY <4>1, <4>2 DEF Bijection, Injection, Surjection, IsInjective
    <3> HIDE DEF f, ids
    <3>2. Cardinality(ids) = n
      BY <2>3, <3>1, FS_Bijection DEF ExistsBijection
    <3> QED BY <3>2 DEF distinct, ids
  <2>7. deterministic <=> readded # NoOutput
    <3>1. 1 \in 1 .. n /\ 1 - 1 = 0
      BY <2>1
    <3>2. cids[1] = Cid(Event(0))
      BY <2>5, <3>1
    <3>3. readded \in {NoOutput, Cid(Event(0))}
      BY DEF MeasureInv, AddInv
    <3> QED BY <3>2, <3>3, DifferentOutputs DEF deterministic
  <2> QED BY <2>2, <2>5, <2>6, <2>7
<1> QED BY <1>1, MeasureInvariance, PTL

\* What was fetched for the inclusion check is accepted exactly when it is the
\* payload of that position, which its own add then stored; the tampered
\* payload never is.
THEOREM InclusionIsPinned == MeasureSpec => []InclusionPinsFetched
<1>1. MeasureInv => InclusionPinsFetched
  <2> SUFFICES ASSUME MeasureInv, pc = "printed"
               PROVE  /\ inclusion_ok <=> fetched = window[idx + 1]
                      /\ inclusion_ok => window[idx + 1] \in repo
                                         /\ cids[idx + 1] = Cid(window[idx + 1])
                      /\ tampered_rejected
    BY DEF InclusionPinsFetched
  <2>1. n \in Nat /\ n >= 1 /\ idx \in 0 .. n - 1
    BY MeasurementAssumption
  <2>2. window = [k \in 1 .. n |-> Event(k - 1)]
    BY DEF MeasureInv, WindowInv
  <2>3. window[1] = Event(0) /\ window[idx + 1] = Event(idx)
    BY <2>1, <2>2
  <2> DEFINE leaves == [k \in DOMAIN window |-> Leaf(window[k])]
  <2>4. leaves = [k \in 1 .. n |-> Leaf(Event(k - 1))]
    BY <2>2
  <2>5. levels = Build(leaves)
    BY DEF levels
  <2> HIDE DEF leaves
  <2>6. /\ IsRow(leaves) /\ leaves # <<>>
        /\ idx \in 0 .. Len(leaves) - 1
        /\ leaves[idx + 1] = Leaf(Event(idx))
    BY <2>1, <2>4 DEF IsRow
  <2>7. \A payload : Verify(Leaf(payload), idx, Proof(levels, idx), Root(levels))
                         <=> payload = Event(idx)
    <3> TAKE payload
    <3>1. Verify(Leaf(payload), idx, Proof(levels, idx), Root(levels))
              <=> Leaf(payload) = leaves[idx + 1]
      BY <2>5, <2>6, VerifyFacts
    <3>2. Leaf(payload) = Leaf(Event(idx)) <=> payload = Event(idx)
      BY DEF Leaf
    <3> QED BY <2>6, <3>1, <3>2
  <2>8. inclusion_ok <=> fetched = Event(idx)
    BY <2>7 DEF inclusion_ok
  <2>9. fetched = Event(idx) => /\ Event(idx) \in repo
                                /\ cids[idx + 1] = Cid(Event(idx))
    BY DifferentOutputs DEF MeasureInv, FetchInv
  <2>10. tampered_rejected
    BY <2>7, DifferentOutputs DEF tampered_rejected
  <2> QED BY <2>3, <2>8, <2>9, <2>10
<1> QED BY <1>1, MeasureInvariance, PTL
=============================================================================
