------------------------------- MODULE Layout -------------------------------
(***************************************************************************)
(* The numbers behind a file of nodes: what NewPersistentStorage computes  *)
(* of b, the size of an entry and the size of a block, where that puts the *)
(* nodes (persistent.go), and the check of the parameters by NewTree.      *)
(*                                                                         *)
(* The loop of calculatePaddedNodeSize is a step per round.  Offsets count *)
(* from the first node's first byte.                                       *)
(***************************************************************************)
EXTENDS Integers

CONSTANTS Bs, As,      \* parameters that are asked for
          EntrySizes,  \* sizes of a serialized key and value
          BlockSizes,  \* block sizes that are asked for, also none: 0 and less
          WordSize,    \* the size of a serialized uint
          MaxUint32,   \* the largest uint32 here
          UintSpan,    \* how many values a uint has here
          Ids          \* the ids whose blocks are compared

ASSUME LayoutAssumption ==
    /\ Bs \subseteq Nat /\ As \subseteq Nat
    /\ EntrySizes \subseteq Nat /\ BlockSizes \subseteq Int
    /\ Ids \subseteq Nat
    /\ WordSize \in Nat \ {0} /\ MaxUint32 \in Nat /\ UintSpan \in Nat \ {0}

VARIABLES pc, a, b, entrySize, blockSize, paddedNodeSize,
          halved  \* history: what blockSize was divided by

vars == <<pc, a, b, entrySize, blockSize, paddedNodeSize, halved>>
given == <<a, b, entrySize, blockSize>>

Larger(x, y) == IF x > y THEN x ELSE y

lengthSize == 4
flagSize == 1
valuesSize == (b - 1) * entrySize + lengthSize
childrenSize == b * WordSize + lengthSize
nodeSize == Larger(valuesSize + childrenSize, WordSize) + flagSize

\* For a file without alignment.  Mutant: it is not told apart.
Aligned_Asked(asked) == asked
Aligned(asked) == Larger(1, asked)

Init ==
    /\ pc = "start"
    /\ a \in As /\ b \in Bs /\ entrySize \in EntrySizes
    /\ \E asked \in BlockSizes : blockSize = Aligned(asked)
    /\ paddedNodeSize = 0 /\ halved = 1

\* A slice of length 0 has no serializer: b must be at least 2, and less than MaxUint32.
Refuse ==
    /\ pc = "start"
    /\ b < 2 \/ b >= MaxUint32
    /\ pc' = "refused"
    /\ UNCHANGED <<given, paddedNodeSize, halved>>

\* Mutant: a node that fills its blocks gets one more.
blocksPerNode_More == nodeSize \div blockSize + 1
blocksPerNode == nodeSize \div blockSize + (IF nodeSize % blockSize > 0 THEN 1 ELSE 0)

Pad ==
    /\ pc = "start"
    /\ b >= 2 /\ b < MaxUint32
    /\ \/ blockSize <= 1 /\ paddedNodeSize' = nodeSize /\ pc' = "prepared"
       \/ blockSize > 1 /\ nodeSize >= blockSize
          /\ paddedNodeSize' = blocksPerNode * blockSize /\ pc' = "prepared"
       \/ blockSize > 1 /\ nodeSize < blockSize
          /\ paddedNodeSize' = blockSize /\ pc' = "pad"
    /\ UNCHANGED <<given, halved>>

\* Mutant: a size is halved that the node just fits.
MayHalve_Below == paddedNodeSize \div nodeSize >= 1 /\ paddedNodeSize % 2 = 0
MayHalve == paddedNodeSize \div nodeSize > 1 /\ paddedNodeSize % 2 = 0

Halve ==
    /\ pc = "pad" /\ MayHalve
    /\ paddedNodeSize' = paddedNodeSize \div 2 /\ halved' = halved * 2
    /\ UNCHANGED <<pc, given>>

Padded ==
    /\ pc = "pad" /\ ~MayHalve
    /\ pc' = "prepared"
    /\ UNCHANGED <<given, paddedNodeSize, halved>>

\* a*2-1 is computed in a uint.
NewTree ==
    /\ pc = "prepared"
    /\ pc' = IF a < 2 \/ (a * 2 - 1) % UintSpan > b THEN "refused" ELSE "tree"
    /\ UNCHANGED <<given, paddedNodeSize, halved>>

Next == Refuse \/ Pad \/ Halve \/ Padded \/ NewTree

Spec == Init /\ [][Next]_vars

\* Where a node is, and the id that NewId answers when the file ends at an offset.
\* Mutant: nodes are packed without padding.
idToOffset_Packed(id) == id * nodeSize
idToOffset(id) == id * paddedNodeSize
idAtEnd(end) == end \div paddedNodeSize

-----------------------------------------------------------------------------
(* Properties.                                                             *)

Prepared == pc \in {"prepared", "tree"}

TypeOK ==
    /\ pc \in {"start", "refused", "pad", "prepared", "tree"}
    /\ a \in Nat /\ b \in Nat /\ entrySize \in Nat
    /\ blockSize \in Nat \ {0} /\ paddedNodeSize \in Nat /\ halved \in Nat \ {0}

\* What is written at a block stays inside it: the flag, then values and children
\* (Persist), or the flag and the link of the free chain (Remove).
NodeFits ==
    Prepared => /\ flagSize + valuesSize + childrenSize <= paddedNodeSize
                /\ flagSize + WordSize <= paddedNodeSize

\* "either to smallest multiple they can fit to, or to smallest blockSize/2^n they
\* can fit to" (file_format.md:54): the padded size is of that form, and the next
\* smaller one of that form is too small.
SmallestPadding ==
    Prepared /\ blockSize > 1 =>
        \/ /\ paddedNodeSize % blockSize = 0
           /\ paddedNodeSize - blockSize < nodeSize /\ nodeSize >= blockSize
        \/ /\ paddedNodeSize * halved = blockSize
           /\ paddedNodeSize % 2 = 0 => paddedNodeSize < 2 * nodeSize

\* Different ids name blocks that do not overlap, and the id that NewId computes of
\* the end of the file is the next one: also when the last block is there in part.
BlocksApart ==
    Prepared => \A i, j \in Ids :
        /\ i < j => idToOffset(i) + nodeSize <= idToOffset(j)
        /\ \A part \in 0 .. paddedNodeSize - 1 : idAtEnd(idToOffset(i) + part) = i

=============================================================================
