---------------------------- MODULE LayoutProofs ----------------------------
(***************************************************************************)
(* Proofs about Layout, for every size of entry, block and number.         *)
(***************************************************************************)
EXTENDS Layout, TLAPS

\* Half of a block holds a node that the block holds more than once.
LEMMA HalfFits ==
    ASSUME NEW block \in Nat, NEW size \in Nat \ {0}, block \div size > 1
    PROVE  size <= block \div 2
<1>1. block = size * (block \div size) + (block % size) /\ block % size \in 0 .. size - 1
  OBVIOUS
<1>2. size * (block \div size) >= size * 2
  OBVIOUS
<1> QED
  BY <1>1, <1>2

\* As many blocks as calculatePaddedNodeSize takes for a node hold it.
LEMMA BlocksHold ==
    ASSUME NEW size \in Nat, NEW block \in Nat \ {0}
    PROVE  size <= (size \div block + (IF size % block > 0 THEN 1 ELSE 0)) * block
<1>1. size = block * (size \div block) + (size % block) /\ size % block \in 0 .. block - 1
  OBVIOUS
<1>2. (size \div block + 1) * block = block * (size \div block) + block
  OBVIOUS
<1>3. (size \div block + 0) * block = block * (size \div block)
  OBVIOUS
<1> QED
  BY <1>1, <1>2, <1>3

\* Multiples of a size are at least that size apart.
LEMMA Apart ==
    ASSUME NEW i \in Nat, NEW j \in Nat, NEW size \in Nat, i < j
    PROVE  i * size + size <= j * size
<1>1. (j - i - 1) * size >= 0
  OBVIOUS
<1>2. j * size = i * size + size + (j - i - 1) * size
  OBVIOUS
<1> QED
  BY <1>1, <1>2

\* Within the block of an id, a division by the size of a block gives the id.
LEMMA IdInBlock ==
    ASSUME NEW i \in Nat, NEW size \in Nat \ {0}, NEW part \in 0 .. size - 1
    PROVE  (i * size + part) \div size = i
  OBVIOUS

-----------------------------------------------------------------------------
(* The invariant: from the moment the block is known it holds the node, in *)
(* every round of the loop, and it is what file_format.md says.            *)

IInv ==
    /\ TypeOK
    /\ pc = "start" => halved = 1
    /\ pc \in {"pad", "prepared", "tree"} =>
          b >= 2 /\ nodeSize <= paddedNodeSize
    /\ pc = "pad" => blockSize > 1 /\ nodeSize < blockSize /\ paddedNodeSize * halved = blockSize
    /\ SmallestPadding

LEMMA NodeSizes ==
    ASSUME b \in Nat, b >= 2, entrySize \in Nat
    PROVE  /\ nodeSize \in Nat \ {0}
           /\ valuesSize \in Nat /\ childrenSize \in Nat
           /\ flagSize + valuesSize + childrenSize <= nodeSize
           /\ flagSize + WordSize <= nodeSize
<1>1. (b - 1) * entrySize \in Nat /\ b * WordSize \in Nat
  BY LayoutAssumption
<1> HIDE DEF valuesSize, childrenSize
<1>2. valuesSize \in Nat /\ childrenSize \in Nat
  BY <1>1 DEF valuesSize, childrenSize, lengthSize
<1> QED
  BY <1>2, LayoutAssumption DEF nodeSize, Larger, flagSize

\* The loop keeps the shape of the padded size.
LEMMA HalfOf ==
    ASSUME NEW block \in Nat, NEW by \in Nat \ {0}, block % 2 = 0
    PROVE  (block \div 2) * (by * 2) = block * by /\ block \div 2 \in Nat
<1>1. block = 2 * (block \div 2)
  OBVIOUS
<1>2. block \div 2 \in Nat
  OBVIOUS
<1> DEFINE half == block \div 2
<1> HIDE DEF half
<1>3. half * (by * 2) = (2 * half) * by
  BY <1>2 DEF half
<1> QED
  BY <1>1, <1>2, <1>3 DEF half

\* The next smaller multiple is too small for a node.
LEMMA FewestBlocks ==
    ASSUME NEW size \in Nat \ {0}, NEW block \in Nat \ {0},
           NEW blocks, blocks = size \div block + (IF size % block > 0 THEN 1 ELSE 0)
    PROVE  /\ blocks * block \in Nat /\ (blocks * block) % block = 0
           /\ (blocks * block) - block < size
<1>1. size = block * (size \div block) + (size % block) /\ size % block \in 0 .. block - 1
      /\ size \div block \in Nat
  OBVIOUS
<1>2. (size \div block + 1) * block = block * (size \div block) + block
  OBVIOUS
<1>3. (size \div block + 0) * block = block * (size \div block)
  OBVIOUS
<1>4. blocks \in Nat
  BY <1>1
<1>5. (blocks * block) % block = 0 /\ blocks * block \in Nat
  BY <1>4
<1> QED
  BY <1>1, <1>2, <1>3, <1>5

\* Where the loop ends no further half holds the node.
LEMMA NoHalf ==
    ASSUME NEW block \in Nat, NEW size \in Nat \ {0}, ~(block \div size > 1)
    PROVE  block < 2 * size
<1>1. block = size * (block \div size) + (block % size) /\ block % size \in 0 .. size - 1
      /\ block \div size \in Nat
  OBVIOUS
<1>2. size * (block \div size) <= size * 1
  BY <1>1
<1> QED
  BY <1>1, <1>2

\* IInv holds in every reachable state, for all sizes of entries, blocks and
\* numbers, and all parameters that are asked for.
THEOREM LayoutKeepsInvariant == Spec => []IInv
<1>1. Init => IInv
  <2> SUFFICES ASSUME Init PROVE IInv
    OBVIOUS
  <2>1. blockSize \in Nat \ {0}
    BY LayoutAssumption DEF Init, Aligned, Larger
  <2> QED
    BY <2>1, LayoutAssumption DEF Init, IInv, TypeOK, SmallestPadding, Prepared
<1>2. IInv /\ [Next]_vars => IInv'
  <2> SUFFICES ASSUME IInv, [Next]_vars PROVE IInv'
    OBVIOUS
  <2>0. TypeOK /\ LayoutAssumption
    BY LayoutAssumption DEF IInv
  <2>1. CASE Refuse
    <3>1. TypeOK'
      BY <2>0, <2>1 DEF Refuse, TypeOK, given
    <3> QED
      BY <3>1, <2>1 DEF Refuse, IInv, SmallestPadding, Prepared
  <2>2. CASE Pad
    <3>1. b \in Nat /\ b >= 2 /\ entrySize \in Nat /\ blockSize \in Nat \ {0} /\ halved = halved'
      BY <2>0, <2>2 DEF Pad, TypeOK
    <3>2. nodeSize \in Nat \ {0} /\ nodeSize' = nodeSize
      BY <3>1, <2>2, NodeSizes DEF Pad, given, nodeSize, valuesSize, childrenSize
    <3>3. CASE blockSize <= 1 /\ paddedNodeSize' = nodeSize /\ pc' = "prepared"
      BY <3>1, <3>2, <3>3, <2>0, <2>2 DEF Pad, given, IInv, TypeOK, SmallestPadding, Prepared
    <3>4. CASE blockSize > 1 /\ nodeSize >= blockSize
               /\ paddedNodeSize' = blocksPerNode * blockSize /\ pc' = "prepared"
      <4>1. /\ paddedNodeSize' \in Nat /\ paddedNodeSize' % blockSize = 0
            /\ paddedNodeSize' - blockSize < nodeSize
        BY <3>1, <3>2, <3>4, FewestBlocks DEF blocksPerNode
      <4>2. nodeSize <= paddedNodeSize'
        BY <3>1, <3>2, <3>4, BlocksHold DEF blocksPerNode
      <4> HIDE DEF nodeSize, blocksPerNode
      <4> QED
        BY <4>1, <4>2, <3>1, <3>2, <3>4, <2>0, <2>2
        DEF Pad, given, IInv, TypeOK, SmallestPadding, Prepared
    <3>5. CASE blockSize > 1 /\ nodeSize < blockSize /\ paddedNodeSize' = blockSize /\ pc' = "pad"
      <4>1. halved = 1
        BY <2>2, <2>0 DEF Pad, IInv
      <4> QED
        BY <4>1, <3>1, <3>2, <3>5, <2>0, <2>2 DEF Pad, given, IInv, TypeOK, SmallestPadding, Prepared
    <3> QED
      BY <3>3, <3>4, <3>5, <2>2 DEF Pad
  <2>3. CASE Halve
    <3>1. /\ b \in Nat /\ b >= 2 /\ entrySize \in Nat /\ blockSize \in Nat
          /\ paddedNodeSize \in Nat /\ halved \in Nat \ {0}
          /\ nodeSize < blockSize /\ blockSize > 1 /\ paddedNodeSize * halved = blockSize
          /\ pc' = "pad" /\ b' = b /\ blockSize' = blockSize
      BY <2>0, <2>3 DEF Halve, TypeOK, IInv, given
    <3>2. nodeSize \in Nat \ {0} /\ nodeSize' = nodeSize
      BY <3>1, <2>3, NodeSizes DEF Halve, given, nodeSize, valuesSize, childrenSize
    <3> HIDE DEF nodeSize
    <3>3. nodeSize <= paddedNodeSize'
      BY <3>1, <3>2, <2>3, HalfFits DEF Halve, MayHalve
    <3>4. paddedNodeSize' * halved' = blockSize /\ paddedNodeSize' \in Nat
          /\ halved' \in Nat \ {0}
      BY <3>1, <2>3, HalfOf DEF Halve, MayHalve
    <3> QED
      BY <3>1, <3>2, <3>3, <3>4, <2>0, <2>3
      DEF Halve, given, IInv, TypeOK, SmallestPadding, Prepared
  <2>4. CASE Padded
    <3>1. /\ b \in Nat /\ b >= 2 /\ entrySize \in Nat /\ paddedNodeSize \in Nat
          /\ nodeSize <= paddedNodeSize /\ paddedNodeSize * halved = blockSize
      BY <2>0, <2>4 DEF Padded, TypeOK, IInv
    <3>2. nodeSize \in Nat \ {0} /\ nodeSize' = nodeSize
      BY <3>1, <2>4, NodeSizes DEF Padded, given, nodeSize, valuesSize, childrenSize
    <3> HIDE DEF nodeSize
    <3>3. paddedNodeSize % 2 = 0 => paddedNodeSize < 2 * nodeSize
      BY <3>1, <3>2, <2>4, NoHalf DEF Padded, MayHalve
    <3> QED
      BY <3>1, <3>2, <3>3, <2>0, <2>4 DEF Padded, given, IInv, TypeOK, SmallestPadding, Prepared
  <2>5. CASE NewTree
    <3>1. nodeSize' = nodeSize
      BY <2>5 DEF NewTree, given, nodeSize, valuesSize, childrenSize
    <3>2. TypeOK'
      BY <2>0, <2>5 DEF NewTree, TypeOK, given
    <3> HIDE DEF nodeSize
    <3> QED
      BY <3>1, <3>2, <2>5 DEF NewTree, given, IInv, SmallestPadding, Prepared
  <2>6. CASE UNCHANGED vars
    BY <2>6 DEF vars, IInv, TypeOK, SmallestPadding, Prepared, nodeSize, valuesSize, childrenSize
  <2> QED
    BY <2>1, <2>2, <2>3, <2>4, <2>5, <2>6 DEF Next
<1> QED
  BY <1>1, <1>2, PTL DEF Spec

\* Every variable keeps its type, whatever is asked for.
THEOREM LayoutTypes == Spec => []TypeOK
<1>1. IInv => TypeOK
  BY DEF IInv
<1> QED
  BY <1>1, LayoutKeepsInvariant, PTL

\* The padded size is the smallest of the form file_format.md promises, for all sizes.
THEOREM PaddingIsSmallest == Spec => []SmallestPadding
<1>1. IInv => SmallestPadding
  BY DEF IInv
<1> QED
  BY <1>1, LayoutKeepsInvariant, PTL

\* Whatever the sizes, what Persist and Remove write at a block stays inside it.
THEOREM NodesFitTheirBlocks == Spec => []NodeFits
<1>1. IInv => NodeFits
  <2> SUFFICES ASSUME IInv, Prepared PROVE /\ flagSize + valuesSize + childrenSize <= paddedNodeSize
                                           /\ flagSize + WordSize <= paddedNodeSize
    BY DEF NodeFits
  <2>1. /\ b \in Nat /\ b >= 2 /\ entrySize \in Nat /\ paddedNodeSize \in Nat
        /\ nodeSize <= paddedNodeSize
    BY DEF IInv, TypeOK, Prepared
  <2> HIDE DEF nodeSize, valuesSize, childrenSize, flagSize
  <2>2. flagSize + valuesSize + childrenSize <= nodeSize /\ flagSize + WordSize <= nodeSize
        /\ nodeSize \in Nat /\ valuesSize \in Nat /\ childrenSize \in Nat
    BY <2>1, NodeSizes
  <2> QED
    BY <2>1, <2>2, LayoutAssumption DEF flagSize
<1> QED
  BY <1>1, LayoutKeepsInvariant, PTL

\* Whatever the sizes, the nodes of different ids share no byte, and an end of the
\* file within a block is computed to be in that block: blocks can be told apart by
\* their ids alone, as PersistentStorage and Defragmentation do.
THEOREM AllBlocksApart == Spec => []BlocksApart
<1>1. IInv => BlocksApart
  <2> SUFFICES ASSUME IInv, Prepared, NEW i \in Ids, NEW j \in Ids
               PROVE  /\ i < j => idToOffset(i) + nodeSize <= idToOffset(j)
                      /\ \A part \in 0 .. paddedNodeSize - 1 : idAtEnd(idToOffset(i) + part) = i
    BY DEF BlocksApart
  <2>1. /\ b \in Nat /\ b >= 2 /\ entrySize \in Nat /\ paddedNodeSize \in Nat
        /\ nodeSize <= paddedNodeSize
    BY DEF IInv, TypeOK, Prepared
  <2>0. i \in Nat /\ j \in Nat
    BY LayoutAssumption
  <2>2. nodeSize \in Nat \ {0}
    BY <2>1, NodeSizes
  <2> HIDE DEF nodeSize
  <2>3. i < j => i * paddedNodeSize + nodeSize <= j * paddedNodeSize
    <3> SUFFICES ASSUME i < j PROVE i * paddedNodeSize + nodeSize <= j * paddedNodeSize
      OBVIOUS
    <3>1. i * paddedNodeSize + paddedNodeSize <= j * paddedNodeSize
      BY <2>0, <2>1, Apart
    <3>2. i * paddedNodeSize \in Nat /\ j * paddedNodeSize \in Nat
      BY <2>0, <2>1
    <3> QED
      BY <3>1, <3>2, <2>1, <2>2
  <2>4. \A part \in 0 .. paddedNodeSize - 1 : (i * paddedNodeSize + part) \div paddedNodeSize = i
    BY <2>0, <2>1, <2>2, IdInBlock
  <2> QED
    BY <2>3, <2>4 DEF idToOffset, idAtEnd
<1> QED
  BY <1>1, LayoutKeepsInvariant, PTL

=============================================================================
