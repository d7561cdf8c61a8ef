-------------------------- MODULE Defragmentation --------------------------
(***************************************************************************)
(* PersistentStorage.Defragment (persistent_defragmentation.go): between   *)
(* two operations of the tree, the nodes are moved to the front of the     *)
(* file in the order in which they are met from the root, and the file is  *)
(* cut behind them.                                                        *)
(*                                                                         *)
(* The caller is the tree: the operations that take and free blocks, each  *)
(* as the writes of the storage's methods it calls one after another; what *)
(* happens when one of those fails is modelled in Tree and                 *)
(* PersistentStorage, here the writes and reads of Defragment fail.        *)
(* A node's values are its name, how many values it has is left out, so    *)
(* that every shape of tree occurs in few blocks, and issued is unused.    *)
(***************************************************************************)
EXTENDS PersistentStorage, FiniteSets

LOCAL SX == INSTANCE SequencesExt

CONSTANT Names  \* what tells the nodes apart, besides <<>>

VARIABLES frag,  \* the running Defragment and its locals
          called \* history: the tree it was called with, and whether a write of
                 \* changed links failed

defragVars == <<vars, frag, called>>

\* A block in use whose values were not written yet has none.
NameOf(d, id) ==
    IF Block(d, id).body.kind = "values" THEN Block(d, id).body.values ELSE <<"no values">>
Children(d, id) == Block(d, id).children

\* The tree below a block as a reader finds it, down to h levels.
Missing == [name |-> <<"missing">>, children |-> <<>>]
RECURSIVE Subtree(_, _, _)
Subtree(d, id, h) ==
    IF h = 0 \/ id \notin Stored(d) THEN Missing
    ELSE [name |-> NameOf(d, id),
          children |-> [i \in DOMAIN Children(d, id) |-> Subtree(d, Children(d, id)[i], h - 1)]]
TreeOf(d) == Subtree(d, rootId, MaxId + 1)

RECURSIVE NamesIn(_)
NamesIn(t) == {t.name} \cup UNION {NamesIn(t.children[i]) : i \in DOMAIN t.children}

RECURSIVE Below(_, _, _)
Below(d, id, h) ==
    IF h = 0 \/ id \notin Stored(d) THEN {}
    ELSE {id} \cup UNION {Below(d, Children(d, id)[i], h - 1) : i \in DOMAIN Children(d, id)}
InTree(d) == Below(d, rootId, MaxId + 1)

-----------------------------------------------------------------------------
(* The caller.                                                             *)

Idle == [pc |-> "idle"]

\* An operation of the tree is one step: no other runs meanwhile.
AtOnce(w) ==
    /\ disk' = SX!FoldLeft(Apply, disk, w)
    /\ freeId' = disk'.free
    /\ UNCHANGED <<pc, config, depth, op, writes, faults, stops, issued, frag, called>>

\* What NewId may answer, the writes it makes and the field freeId after them.
TakeId(d, free) ==
    IF free = noFreeId
      THEN {[id |-> id, writes |-> <<ExtendFlag, ExtendRest>>, free |-> free] :
            id \in {Len(d.blocks)} \cap Ids}
      ELSE IF free \in Stored(d) THEN {}
      ELSE {[id |-> free, writes |-> NewIdWrites(next), free |-> next] :
            next \in NextIn(Block(d, free))}

Named(id, name, children) == [id |-> id, values |-> name, children |-> children]
FirstHalf(s) == SubSeq(s, 1, Len(s) \div 2)
SecondHalf(s) == SubSeq(s, Len(s) \div 2 + 1, Len(s))
\* Names that no node has.
Fresh == Names \ {NameOf(disk, id) : id \in Stored(disk)}
freshName == CHOOSE n \in Fresh : TRUE
freshRootName == CHOOSE n \in Fresh \ {freshName} : TRUE
Splits(id) == Len(Children(disk, id)) # 1

\* Insert splits child i of p: the new node takes the first half and its place
\* before the child.
SplitChild(p, i) ==
    LET old == Children(disk, p)[i] IN
    /\ old \in Stored(disk) /\ Splits(old) /\ Fresh # {}
    /\ \E new \in TakeId(disk, freeId) :
          AtOnce(new.writes
                 \o PersistWrites(Named(old, NameOf(disk, old), SecondHalf(Children(disk, old))))
                 \o PersistWrites(Named(new.id, freshName, FirstHalf(Children(disk, old))))
                 \o PersistWrites(Named(p, NameOf(disk, p),
                                        SX!InsertAt(Children(disk, p), i, new.id))))

\* Insert splits the root: two ids are taken before either is stored.
SplitRoot ==
    /\ Splits(rootId) /\ Cardinality(Fresh) > 1
    /\ \E new \in TakeId(disk, freeId) :
       \E old \in TakeId(SX!FoldLeft(Apply, disk, new.writes), new.free) :
          AtOnce(new.writes \o old.writes
                 \o PersistWrites(Named(rootId, freshRootName, <<new.id, old.id>>))
                 \o PersistWrites(Named(old.id, NameOf(disk, rootId),
                                        SecondHalf(Children(disk, rootId))))
                 \o PersistWrites(Named(new.id, freshName, FirstHalf(Children(disk, rootId)))))

\* Delete merges child i + 1 of p into child i; the last two children of the
\* root become the root.
Merge(p, i) ==
    LET left == Children(disk, p)[i]
        right == Children(disk, p)[i + 1]
        merged == Children(disk, left) \o Children(disk, right)
        free(id, next) == <<WriteFlag(id, FALSE), WriteBody(id, NextFree(next)), WriteFree(id)>>
    IN /\ {left, right} \subseteq Stored(disk)
       /\ AtOnce(
            IF p = rootId /\ Len(Children(disk, p)) = 2
              THEN free(left, freeId) \o <<WriteDepth(depth)>> \o free(right, left)
                   \o PersistWrites(Named(rootId, NameOf(disk, left), merged))
              ELSE PersistWrites(Named(p, NameOf(disk, p), SX!RemoveAt(Children(disk, p), i + 1)))
                   \o free(right, freeId)
                   \o PersistWrites(Named(left, NameOf(disk, left), merged)))

\* After a Defragment that met a failure nothing is called: the properties are
\* about what it leaves.
TreeOperation ==
    /\ Ready /\ frag = Idle
    /\ faults = 0
    /\ \/ \E p \in InTree(disk) : \E i \in DOMAIN Children(disk, p) : SplitChild(p, i)
       \/ SplitRoot
       \/ \E p \in InTree(disk) : \E i \in 1 .. Len(Children(disk, p)) - 1 : Merge(p, i)

-----------------------------------------------------------------------------
(* Defragment.                                                             *)

\* The flag of the block at the end of the file may be there without the rest.
HasFlag(d) == 0 .. Len(d.blocks) - (IF d.tail > 0 THEN 0 ELSE 1)
checkIfInUse(d, id) == id \in Stored(d)

\* The first run of free blocks that begins at or after startAt; <<0, 0>> when
\* the end of the file comes first.
NoBlock == [First |-> 0, Second |-> 0]
findEmptyBlock(d, startAt) ==
    LET free == {id \in HasFlag(d) : id >= startAt /\ ~checkIfInUse(d, id)}
        first == CHOOSE id \in free : \A other \in free : id <= other
        end == CHOOSE id \in free : first .. id \subseteq free /\ id + 1 \notin free
    IN IF free = {} THEN NoBlock ELSE [First |-> first, Second |-> end]

\* Mutant: the old block is freed before the node is copied.
moveNode_FreeFirst(oldId, newId) ==
    <<WriteFlag(oldId, FALSE), WriteBlock(newId, Block(disk, oldId))>>
moveNode(oldId, newId) ==
    <<WriteBlock(newId, Block(disk, oldId)), WriteFlag(oldId, FALSE)>>

\* Mutant: the children stay as they were.
persistWithoutValues_NoLinks(node) == <<WriteFlag(node.id, TRUE)>>
persistWithoutValues(node) == <<WriteFlag(node.id, TRUE), WriteChildren(node.id, node.children)>>

Begin(stage, w) ==
    /\ Start([op |-> "Defragment"], w)
    /\ frag' = [frag EXCEPT !.pc = stage]
Returned(result) == [pc |-> "done", result |-> result]
Return(result) ==
    /\ frag' = Returned(result)
    /\ UNCHANGED vars

Defragment ==
    /\ Ready /\ frag = Idle
    /\ faults = 0
    /\ called' = [tree |-> TreeOf(disk), unsaved |-> FALSE]
    /\ LET lastId == Len(disk.blocks) - 1
           freeBlock == findEmptyBlock(disk, 1)
       IN frag' = IF freeId = noFreeId \/ lastId = 0 THEN Returned("ok")
                  ELSE IF freeBlock.Second = 0 THEN Returned("error")
                  ELSE [pc |-> "load", reorderedNodeId |-> rootId, lastId |-> lastId,
                        freeBlock |-> freeBlock, persist |-> FALSE,
                        node |-> [id |-> rootId, children |-> <<>>]]
    /\ UNCHANGED vars

At(stage) == Ready /\ frag.pc = stage /\ UNCHANGED <<issued, called>>

\* Mutant: the file is cut one block too late.
Finish_CutLate(firstEmptyNodeId) ==
    Begin("finish", <<WriteFree(noFreeId), Truncate(firstEmptyNodeId + 1)>>)
\* Mutant: the chain of free blocks is kept.
Finish_KeepChain(firstEmptyNodeId) == Begin("finish", <<Truncate(firstEmptyNodeId)>>)
Finish(firstEmptyNodeId) ==
    Begin("finish", <<WriteFree(noFreeId), Truncate(firstEmptyNodeId)>>)

\* loadWithoutValues: a block that is not in use ends the loop.
Load ==
    /\ At("load")
    /\ LET id == frag.reorderedNodeId IN
       \/ /\ id \in Stored(disk) /\ id <= frag.lastId
          /\ frag' = [frag EXCEPT !.pc = "scan", !.persist = FALSE,
                                  !.node = [id |-> id, children |-> Children(disk, id)]]
          /\ UNCHANGED vars
       \/ /\ id \notin Stored(disk) \/ id > frag.lastId
          /\ Finish(IF id > frag.lastId THEN 0 ELSE id)

\* The children that are moved: those behind the free block.
\* Mutant: every child but one that is there already is moved.
MustMove_Any(child, freeBlock) == freeBlock.First # child
MustMove(child, freeBlock) == freeBlock.First < child
ToMove == {i \in DOMAIN frag.node.children : MustMove(frag.node.children[i], frag.freeBlock)}
NextChild == CHOOSE i \in ToMove : \A j \in ToMove : i <= j

MoveChild ==
    /\ At("scan")
    /\ ToMove # {} /\ frag.node.children[NextChild] \in Allocated(disk)
    /\ Begin("moving", moveNode(frag.node.children[NextChild], frag.freeBlock.First))

\* The next place for a node, after First was filled.
NextFreeBlock(freeBlock) ==
    IF freeBlock.First + 1 <= freeBlock.Second
      THEN [freeBlock EXCEPT !.First = @ + 1] ELSE findEmptyBlock(disk, freeBlock.Second + 1)

\* The child was moved: the link changes in memory, and the next place is found.
Linked == [frag EXCEPT !.node.children[NextChild] = frag.freeBlock.First, !.persist = TRUE]
Moved ==
    /\ At("moving")
    /\ LET next == NextFreeBlock(frag.freeBlock) IN
       IF next.Second = 0 THEN Return("error")
       ELSE /\ frag' = [Linked EXCEPT !.pc = "scan", !.freeBlock = next]
            /\ UNCHANGED vars

NodeDone ==
    /\ At("scan")
    /\ ToMove = {}
    /\ IF frag.persist THEN Begin("persist", persistWithoutValues(frag.node))
       ELSE /\ frag' = [frag EXCEPT !.pc = "load", !.reorderedNodeId = @ + 1]
            /\ UNCHANGED vars

Persisted ==
    /\ At("persist")
    /\ frag' = [frag EXCEPT !.pc = "load", !.reorderedNodeId = @ + 1]
    /\ UNCHANGED vars

Complete == At("finish") /\ Return("ok")
GaveUp == At("giveUp") /\ Return("error")

\* Defragment returned.
Resume ==
    /\ frag.pc = "done"
    /\ frag' = Idle
    /\ UNCHANGED <<vars, called>>

-----------------------------------------------------------------------------
(* Failures.                                                               *)

MayFail == faults < MaxFaults /\ faults' = faults + 1

\* Of a node being moved, what is known is saved before the error is returned.
Save(node) == writes' = persistWithoutValues(node) /\ op' = [op |-> "Defragment"]
DropWrites == writes' = <<>> /\ op' = NoOp

\* The node being saved has links that the file does not.
LinksToSave ==
    frag.pc \in {"persist", "giveUp"} /\ frag.node.children # Children(disk, frag.node.id)

\* A write of Defragment fails; that of a node which was scanned goes unnoticed.
WriteFails ==
    /\ op.op = "Defragment" /\ writes # <<>>
    /\ MayFail
    /\ SetFields(Head(writes))
    /\ \/ frag.pc = "moving" /\ Save(frag.node) /\ frag' = [frag EXCEPT !.pc = "giveUp"]
       \/ frag.pc = "persist" /\ DropWrites /\ UNCHANGED frag
       \/ frag.pc \in {"finish", "giveUp"} /\ DropWrites /\ frag' = Returned("error")
    /\ called' = [called EXCEPT !.unsaved = @ \/ LinksToSave]
    /\ UNCHANGED <<disk, pc, config, issued, stops>>

\* A read fails: in loadWithoutValues, in moveNode (where it also does when the
\* child is behind the end of the file), or in findEmptyBlock.
ReadFails ==
    /\ \/ /\ At("load") /\ MayFail
          /\ frag' = Returned("error")
          /\ UNCHANGED <<writes, op>>
       \/ /\ At("scan") /\ ToMove # {}
          /\ IF frag.node.children[NextChild] \in Allocated(disk) THEN MayFail
             ELSE UNCHANGED faults
          /\ Save(frag.node) /\ frag' = [frag EXCEPT !.pc = "giveUp"]
       \/ /\ At("moving") /\ MayFail
          /\ frag.freeBlock.First = frag.freeBlock.Second
          /\ Save(Linked.node) /\ frag' = [Linked EXCEPT !.pc = "giveUp"]
    /\ UNCHANGED <<disk, pc, config, depth, freeId, stops>>

DefragInit == Init /\ frag = Idle /\ called = [tree |-> Missing, unsaved |-> FALSE]

DefragNext ==
    \/ \E c \in Configs : OpenEmpty(c) /\ UNCHANGED <<frag, called>>
    \/ TreeOperation
    \/ Defragment
    \/ Load \/ MoveChild \/ Moved \/ NodeDone \/ Persisted \/ Complete \/ GaveUp
    \/ Resume
    \/ Write /\ UNCHANGED <<frag, called>>
    \/ WriteFails \/ ReadFails

DefragSpec == DefragInit /\ [][DefragNext]_defragVars

-----------------------------------------------------------------------------
(* Properties.                                                             *)

\* However many of its reads and writes fail, when Defragment returns, the tree is the
\* one it was called with, every node below the parent it was below and in the same
\* place, unless a write of links that had changed is among the failures.  A failed
\* move, a failed search for free blocks and a failed cut lose nothing: what was moved
\* so far is linked before the error is returned (persistent_defragmentation.go:58).
DefragmentKeepsTree ==
    frag.pc = "done" /\ ~called.unsaved => TreeOf(disk) = called.tree

\* At every moment of Defragment, and so wherever it stops, every node of the
\* tree is held by a block in use: a node is copied before its block is freed
\* (persistent_defragmentation.go:107), and no block that is still needed is
\* overwritten or cut off.
NoNodeLost ==
    frag # Idle => NamesIn(called.tree) \subseteq {NameOf(disk, id) : id \in Stored(disk)}

\* Between the calls of Defragment the chain of free blocks is sound when no call
\* failed: the next inserts take what deletes freed before and after it.
FreeChainKept == frag = Idle /\ faults = 0 => FreeChainSound

\* After a Defragment that met no error the file holds the tree and nothing else:
\* no free block is left, and none in the chain.
FileIsCompact ==
    frag.pc = "done" /\ faults = 0 =>
        Allocated(disk) = InTree(disk) /\ freeId = noFreeId /\ disk.free = noFreeId

\* "In PersistentStorage.Defragment: removes fragmentation in file by rearranging
\* nodes": when it reports success, the nodes are rearranged and the tree is as
\* it was.
SuccessKeepsTree == frag.pc = "done" /\ frag.result = "ok" => TreeOf(disk) = called.tree
=============================================================================
