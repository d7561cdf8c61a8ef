-------------------------------- MODULE Tree --------------------------------
(***************************************************************************)
(* The (a,b)-tree of tree.go, tree_insert.go and tree_delete.go.           *)
(*                                                                         *)
(* An operation of the tree is a sequence of steps: every step loads nodes *)
(* from the storage and computes on its local copies, and hands the writes *)
(* it wants, in the order of the code, to todo.  The calls of todo are     *)
(* executed one per step, so that every intermediate state of the storage  *)
(* is a state of the model and every call may fail.  The tree has one      *)
(* caller at a time: the code takes no locks.                              *)
(***************************************************************************)
EXTENDS Slices, NodeStorage

CONSTANTS Keys,        \* integers: the ordered keys
          Values,
          a, b,        \* the parameters of the tree
          Backend,     \* "memory" (InMemoryStorage) or "file" (PersistentStorage)
          NextIds(_),  \* the ids NewId may answer when those of the set are issued
          MaxFaults    \* bound on the number of failing storage calls

ASSUME KeysAssumption == Keys \subseteq Int
\* The condition NewTree checks (tree.go:45), over unbounded naturals.
ASSUME ParametersAssumption == a \in Nat /\ b \in Nat /\ a >= 2 /\ b >= 2 * a - 1
\* InMemoryStorage has no failing call.
ASSUME BackendAssumption ==
    /\ Backend \in {"memory", "file"}
    /\ MaxFaults \in Nat
    /\ Backend = "memory" => MaxFaults = 0
ASSUME NextIdsAssumption == \A used \in SUBSET Ids : NextIds(used) \subseteq Ids \ used

VARIABLES treeDepth,  \* Tree.depth
          pc,         \* what the running operation does next
          req,        \* the running operation and its arguments
          cur,        \* currentNode (node in balanceTreeAfterDelete)
          path,       \* the stack of visited nodes
          at,         \* positionInParent of cur
          target,     \* Delete: the inner node whose value is replaced
          hole,       \* Delete: the position of that value
          fresh,      \* Insert: ids obtained from NewId for the next split
          todo,       \* storage calls the operation makes before it goes on
          ret,        \* its result
          faults,     \* failing storage calls so far
          stale,      \* the children a removed node left in its block of the file
          before      \* history: the stored tuples when the operation began

locals == <<cur, path, at, target, hole, fresh>>
vars == <<nodes, issued, depth, treeDepth, pc, req, cur, path, at, target, hole,
          fresh, todo, ret, faults, stale, before>>

-----------------------------------------------------------------------------
(* Nodes and their values.                                                 *)

Tuple == [First : Keys, Second : Values]
Node == [id : Ids, values : Seq(Tuple), children : Seq(Ids \ {rootId}), leaf : BOOLEAN]
deleteStep == [visitedNode : Ids, positionInParent : Nat]

\* The positions slices.BinarySearchFunc may return: one, when values is sorted.
find(values, key) ==
    {p \in 0 .. Len(values) : /\ \A i \in 1 .. p : values[i].First < key
                              /\ \A i \in p + 1 .. Len(values) : key <= values[i].First}

Found(values, key, p) == p < Len(values) /\ values[p + 1].First = key

\* Append and sort; p, from find, is where the sort puts the new tuple.
add(values, value, p) == SubSeq(values, 1, p) \o <<value>> \o SubSeq(values, p + 1, Len(values))

\* children[p]: no element when the index is out of range and the code panics.
Child(node, p) == {node.children[i] : i \in {p + 1} \cap DOMAIN node.children}

Final(s) == s[Len(s)]
Prefix(s, n) == SubSeq(s, 1, IF Len(s) < n THEN Len(s) ELSE n)

\* What a later Get returns for a persisted node.  The file keeps at most b - 1
\* values and b children, and takes a node without children for a leaf.
Stored(node) ==
    IF Backend = "memory" THEN node
    ELSE [node EXCEPT !.values = Prefix(node.values, b - 1),
                      !.children = Prefix(node.children, b),
                      !.leaf = (node.children = <<>>)]

\* The stored tuples, and the map they stand for when no key occurs twice.
Pairs == UNION {{nodes[i].values[j] : j \in DOMAIN nodes[i].values} : i \in DOMAIN nodes}

\* Storage calls, as todo holds them.
persist(node) == [call |-> "Persist", node |-> node]
remove(id) == [call |-> "Remove", id |-> id]
updateDepth(d) == [call |-> "SetDepth", depth |-> d]

NoRequest == [op |-> "None"]
Request == [op : {"Get", "Delete"}, key : Keys]
             \cup [op : {"Insert"}, key : Keys, value : Values]
NoNode == createNewNode(rootId, TRUE)

Idle ==
    /\ pc = "idle"
    /\ req = NoRequest
    /\ cur = NoNode /\ target = NoNode
    /\ path = <<>> /\ fresh = <<>> /\ todo = <<>>
    /\ at = 0 /\ hole = 0
    /\ ret = "none"

Init ==
    /\ StorageInit
    /\ treeDepth = depth
    /\ Idle
    /\ faults = 0
    /\ stale = [i \in Ids |-> <<>>]
    /\ before = {}

-----------------------------------------------------------------------------
(* The shape of a step.                                                    *)

\* A step of the operation's own code at point l: no storage call is pending.
At(l) == pc = l /\ todo = <<>>

Compute == UNCHANGED <<nodes, issued, depth, treeDepth, req, faults, stale, before>>

Goto(l) == pc' = l /\ UNCHANGED ret
Finish(r) == pc' = "done" /\ ret' = r

\* Every operation starts at the root.  After a call failed the caller only
\* reads: a mutation that failed half-way leaves a tree it must not go on with.
Call(r, l) ==
    /\ pc = "idle"
    /\ r.op = "Get" \/ faults = 0
    /\ req' = r
    /\ cur' = nodes[rootId]
    /\ Goto(l)
    /\ UNCHANGED <<nodes, issued, depth, treeDepth, path, at, target, hole, fresh, todo,
                   faults, stale, before>>

GetCall == \E r \in Request : r.op = "Get" /\ Call(r, "get")
InsertCall == \E r \in Request : r.op = "Insert" /\ Call(r, "insert")
DeleteCall == \E r \in Request : r.op = "Delete" /\ Call(r, "delete")

\* The operation returns and its locals are gone.
Return ==
    /\ pc \in {"done", "error"}
    /\ todo = <<>>
    /\ pc' = "idle" /\ req' = NoRequest /\ ret' = "none"
    /\ cur' = NoNode /\ target' = NoNode
    /\ path' = <<>> /\ fresh' = <<>> /\ at' = 0 /\ hole' = 0
    /\ before' = Pairs
    /\ UNCHANGED <<nodes, issued, depth, treeDepth, todo, faults, stale>>

-----------------------------------------------------------------------------
(* Tree.Get.                                                               *)

GetFound ==
    /\ At("get")
    /\ \E p \in find(cur.values, req.key) :
          /\ Found(cur.values, req.key, p)
          /\ Finish(cur.values[p + 1].Second)
    /\ Compute /\ UNCHANGED <<locals, todo>>

GetNotFound ==
    /\ At("get")
    /\ \E p \in find(cur.values, req.key) : ~Found(cur.values, req.key, p)
    /\ cur.leaf
    /\ Finish("ErrNotFound")
    /\ Compute /\ UNCHANGED <<locals, todo>>

\* Mutant: the loaded node is assigned to a variable that shadows currentNode.
Loaded_Shadowed(c) == cur
Loaded(c) == nodes[c]

GetDescend ==
    /\ At("get")
    /\ ~cur.leaf
    /\ \E p \in find(cur.values, req.key) :
          /\ ~Found(cur.values, req.key, p)
          /\ \E c \in Child(cur, p) : Stores(c) /\ cur' = Loaded(c)
    /\ Goto("get")
    /\ Compute /\ UNCHANGED <<path, at, target, hole, fresh, todo>>

-----------------------------------------------------------------------------
(* Tree.Insert.                                                            *)

NewTuple == [First |-> req.key, Second |-> req.value]

\* Mutant: the tuple found is written back.
Replace_Old(node, p) == node
Replace(node, p) == [node EXCEPT !.values = swap(node.values, p, NewTuple)]

\* The key is present: its value is replaced in place.
InsertReplace ==
    /\ At("insert")
    /\ \E p \in find(cur.values, req.key) :
          /\ Found(cur.values, req.key, p)
          /\ todo' = <<persist(Replace(cur, p))>>
    /\ Finish("ok")
    /\ Compute /\ UNCHANGED locals

InsertLeaf ==
    /\ At("insert")
    /\ cur.leaf
    /\ \E p \in find(cur.values, req.key) :
          /\ ~Found(cur.values, req.key, p)
          /\ cur' = [cur EXCEPT !.values = add(cur.values, NewTuple, p)]
    /\ Goto("grow")
    /\ Compute /\ UNCHANGED <<path, at, target, hole, fresh, todo>>

InsertDescend ==
    /\ At("insert")
    /\ ~cur.leaf
    /\ \E p \in find(cur.values, req.key) :
          /\ ~Found(cur.values, req.key, p)
          /\ \E c \in Child(cur, p) : Stores(c) /\ cur' = nodes[c]
    /\ path' = Append(path, [visitedNode |-> cur.id, positionInParent |-> 0])
    /\ Goto("insert")
    /\ Compute /\ UNCHANGED <<at, target, hole, fresh, todo>>

\* Mutant: a node is split one value too late.
Full_Late(node) == Len(node.values) > b
Full(node) == Len(node.values) >= b

InsertPersist ==
    /\ At("grow")
    /\ ~Full(cur)
    /\ todo' = <<persist(cur)>>
    /\ Finish("ok")
    /\ Compute /\ UNCHANGED locals

\* splitFullNode: the left half moves to a new node, the rest stays.
middleIndex == b \div 2
SplitInRange(node) ==
    /\ Len(node.values) > 2 * middleIndex
    /\ ~node.leaf => Len(node.children) > b
SplitNew(node, id) ==
    [createNewNode(id, node.leaf) EXCEPT
        !.values = SubSeq(node.values, 1, middleIndex),
        !.children = IF node.leaf THEN <<>> ELSE SubSeq(node.children, 1, middleIndex + 1)]
SplitMiddle(node) == node.values[middleIndex + 1]
\* Mutant: the children are not moved with the values.
SplitOld_Children(node) ==
    [node EXCEPT
        !.values = SubSeq(node.values, middleIndex + 2, 2 * middleIndex + 1),
        !.children = IF node.leaf THEN node.children
                     ELSE SubSeq(node.children, 1, middleIndex + 1)]
\* Mutant: the moved children stay with the old node as well.
SplitOld_AllChildren(node) ==
    [node EXCEPT !.values = SubSeq(node.values, middleIndex + 2, 2 * middleIndex + 1)]
SplitOld(node) ==
    [node EXCEPT
        !.values = SubSeq(node.values, middleIndex + 2, 2 * middleIndex + 1),
        !.children = IF node.leaf THEN node.children
                     ELSE Append(SubSeq(node.children, middleIndex + 2, 2 * middleIndex + 1),
                                 node.children[b + 1])]

\* NewId, once for a split below the root (after the parent is loaded), twice
\* for a split of the root.
IdsNeeded == IF path = <<>> THEN 2 ELSE 1

InsertNewId ==
    /\ At("grow")
    /\ Full(cur)
    /\ path # <<>> => Stores(Final(path).visitedNode)
    /\ Len(fresh) < IdsNeeded
    /\ fresh # <<>> => SplitInRange(cur)
    /\ \E id \in NextIds(issued) :
          /\ issued' = issued \cup {id}
          /\ fresh' = Append(fresh, id)
    /\ Goto("grow")
    /\ UNCHANGED <<nodes, depth, treeDepth, req, faults, stale, before, cur, path, at, target, hole, todo>>

InsertSplit ==
    /\ At("grow")
    /\ path # <<>> /\ Len(fresh) = 1
    /\ Stores(Final(path).visitedNode)
    /\ SplitInRange(cur)
    /\ LET parent == nodes[Final(path).visitedNode]
           newNode == SplitNew(cur, fresh[1])
           middle == SplitMiddle(cur)
       IN /\ \E i \in lastOf(parent.children, cur.id) :
             \E p \in find(parent.values, middle.First) :
                cur' = [parent EXCEPT !.children = prependBefore(parent.children, newNode.id, i),
                                      !.values = add(parent.values, middle, p)]
          /\ todo' = <<persist(SplitOld(cur)), persist(newNode)>>
    /\ path' = popLast(path)
    /\ fresh' = <<>>
    /\ Goto("grow")
    /\ Compute /\ UNCHANGED <<at, target, hole>>

\* Mutant: the new root is written last.
SplitRootCalls_RootLast(newRoot, oldRoot, newNode) ==
    <<persist(oldRoot), persist(newNode), persist(newRoot), updateDepth(treeDepth + 1)>>
SplitRootCalls(newRoot, oldRoot, newNode) ==
    <<persist(newRoot), persist(oldRoot), persist(newNode), updateDepth(treeDepth + 1)>>

\* The new root keeps the root's id, the old root gets a new one.
InsertSplitRoot ==
    /\ At("grow")
    /\ path = <<>> /\ Len(fresh) = 2
    /\ SplitInRange(cur)
    /\ LET newNode == SplitNew(cur, fresh[1])
           oldRoot == [SplitOld(cur) EXCEPT !.id = fresh[2]]
           newRoot == [createNewNode(cur.id, FALSE) EXCEPT
                          !.values = <<SplitMiddle(cur)>>,
                          !.children = <<newNode.id, oldRoot.id>>]
       IN todo' = SplitRootCalls(newRoot, oldRoot, newNode)
    /\ fresh' = <<>>
    /\ Finish("ok")
    /\ Compute /\ UNCHANGED <<cur, path, at, target, hole>>

-----------------------------------------------------------------------------
(* Tree.Delete and popLargest.                                             *)

PushCur == Append(path, [visitedNode |-> cur.id, positionInParent |-> at])

DeleteLeaf ==
    /\ At("delete")
    /\ cur.leaf
    /\ \E p \in find(cur.values, req.key) :
          /\ Found(cur.values, req.key, p)
          /\ todo' = <<persist([cur EXCEPT !.values = pop(cur.values, p)])>>
    /\ path' = PushCur
    /\ Goto("balance")
    /\ Compute /\ UNCHANGED <<cur, at, target, hole, fresh>>

\* The key is in an inner node: its predecessor, in a leaf, will replace it.
DeleteInner ==
    /\ At("delete")
    /\ ~cur.leaf
    /\ \E p \in find(cur.values, req.key) :
          /\ Found(cur.values, req.key, p)
          /\ \E c \in Child(cur, p) : Stores(c) /\ cur' = nodes[c]
          /\ hole' = p
          /\ at' = p
    /\ target' = cur
    /\ path' = PushCur
    /\ Goto("pop")
    /\ Compute /\ UNCHANGED <<fresh, todo>>

DeleteAbsent ==
    /\ At("delete")
    /\ cur.leaf
    /\ \E p \in find(cur.values, req.key) : ~Found(cur.values, req.key, p)
    /\ Finish("ok")
    /\ Compute /\ UNCHANGED <<locals, todo>>

DeleteDescend ==
    /\ At("delete")
    /\ ~cur.leaf
    /\ \E p \in find(cur.values, req.key) :
          /\ ~Found(cur.values, req.key, p)
          /\ \E c \in Child(cur, p) : Stores(c) /\ cur' = nodes[c]
          /\ at' = p
    /\ path' = PushCur
    /\ Goto("delete")
    /\ Compute /\ UNCHANGED <<target, hole, fresh, todo>>

PopDescend ==
    /\ At("pop")
    /\ ~cur.leaf
    /\ \E c \in Child(cur, Len(cur.children) - 1) : Stores(c) /\ cur' = nodes[c]
    /\ path' = PushCur
    /\ at' = Len(cur.children) - 1
    /\ Goto("pop")
    /\ Compute /\ UNCHANGED <<target, hole, fresh, todo>>

\* Mutant: the smallest value of the leaf is taken for the largest.
Predecessor_First(leaf) == leaf.values[1]
Predecessor(leaf) == Final(leaf.values)

\* The leaf is persisted, and then the predecessor is assigned to an element of
\* target.values, without a Persist.  InMemoryStorage handed out the slice it
\* keeps, so there the assignment reaches the stored node; PersistentStorage
\* handed out a copy that is now dropped.
PopLeaf ==
    /\ At("pop")
    /\ cur.leaf
    /\ cur.values # <<>>
    /\ LET leaf == persist([cur EXCEPT !.values = popLast(cur.values)])
           replaced == [target EXCEPT !.values = swap(target.values, hole, Predecessor(cur))]
       IN /\ target' = replaced
          /\ todo' = IF Backend = "memory" THEN <<leaf, persist(replaced)>> ELSE <<leaf>>
    /\ path' = PushCur
    /\ Goto("balance")
    /\ Compute /\ UNCHANGED <<cur, at, hole, fresh>>

-----------------------------------------------------------------------------
(* balanceTreeAfterDelete and merge.                                       *)

BalanceRoot ==
    /\ At("balance")
    /\ Len(path) <= 1
    /\ Finish("ok")
    /\ Compute /\ UNCHANGED <<locals, todo>>

BalanceLoad ==
    /\ At("balance")
    /\ Len(path) > 1
    /\ Stores(Final(path).visitedNode)
    /\ cur' = nodes[Final(path).visitedNode]
    /\ at' = Final(path).positionInParent
    /\ path' = popLast(path)
    /\ Goto("fix")
    /\ Compute /\ UNCHANGED <<target, hole, fresh, todo>>

\* Mutant: a node is repaired one value too late.
Underfull_Late(node) == Len(node.values) + 2 < a
Underfull(node) == Len(node.values) + 1 < a
CanLend(node) == Len(node.values) >= a

FixDone ==
    /\ At("fix")
    /\ ~Underfull(cur)
    /\ Finish("ok")
    /\ Compute /\ UNCHANGED <<locals, todo>>

\* The loaded parent, and the sibling at position s of its children.
Parent == nodes[Final(path).visitedNode]
ParentStored == path # <<>> /\ Stores(Final(path).visitedNode)

Fixing(s) ==
    /\ At("fix")
    /\ Underfull(cur)
    /\ ParentStored
    /\ \E c \in Child(Parent, s) : Stores(c)
Sibling(s) == nodes[Parent.children[s + 1]]

\* The end of an iteration: the loop goes on at the parent, or stops at the root.
AfterLevel == IF Len(path) = 1 THEN Finish("ok") ELSE Goto("fix")
NextLevel(parent) ==
    /\ cur' = parent
    /\ at' = Final(path).positionInParent
    /\ path' = popLast(path)
    /\ AfterLevel
    /\ Compute /\ UNCHANGED <<target, hole, fresh>>

\* A sibling without its first (last) value and child, and a node with one more
\* value and child at its end (front).  Leaves have no children to move.
\* Mutant: the child stays with the sibling.
LendFirst_Child(sibling) == [sibling EXCEPT !.values = popFirst(sibling.values)]
LendFirst(sibling) ==
    [sibling EXCEPT !.values = popFirst(sibling.values),
                    !.children = IF cur.leaf THEN sibling.children ELSE popFirst(sibling.children)]
LendLast(sibling) ==
    [sibling EXCEPT !.values = popLast(sibling.values),
                    !.children = IF cur.leaf THEN sibling.children ELSE popLast(sibling.children)]
TakeLast(value, sibling) ==
    [cur EXCEPT !.values = Append(cur.values, value),
                !.children = IF cur.leaf THEN cur.children
                             ELSE Append(cur.children, sibling.children[1])]
\* Mutant: the child goes to the wrong end.
TakeFirst_Child(value, sibling) ==
    [cur EXCEPT !.values = prepend(cur.values, value),
                !.children = IF cur.leaf THEN cur.children
                             ELSE Append(cur.children, Final(sibling.children))]
TakeFirst(value, sibling) ==
    [cur EXCEPT !.values = prepend(cur.values, value),
                !.children = IF cur.leaf THEN cur.children
                             ELSE prepend(cur.children, Final(sibling.children))]

BorrowRight ==
    /\ at = 0
    /\ Fixing(1)
    /\ CanLend(Sibling(1))
    /\ Parent.values # <<>>
    /\ ~cur.leaf => Sibling(1).children # <<>>
    /\ LET sibling == Sibling(1)
           parent == [Parent EXCEPT !.values = swap(Parent.values, 0, sibling.values[1])]
       IN /\ todo' = <<persist(LendFirst(sibling)), persist(parent),
                       persist(TakeLast(Parent.values[1], sibling))>>
          /\ NextLevel(parent)

BorrowLeft ==
    /\ at > 0
    /\ Fixing(at - 1)
    /\ CanLend(Sibling(at - 1))
    /\ Len(Parent.values) >= at
    /\ ~cur.leaf => Sibling(at - 1).children # <<>>
    /\ LET sibling == Sibling(at - 1)
           parent == [Parent EXCEPT !.values = swap(Parent.values, at - 1, Final(sibling.values))]
       IN /\ todo' = <<persist(LendLast(sibling)), persist(parent),
                       persist(TakeFirst(Parent.values[at], sibling))>>
          /\ NextLevel(parent)

\* Mutants: the parent is removed instead of the left node; the right one is not
\* removed; the parent, whose link to right is gone, is not persisted; left is
\* removed instead of right.
CollapseCalls_Parent(parent, left, right, merged) ==
    <<remove(parent.id), updateDepth(treeDepth - 1), remove(right.id),
      persist([merged EXCEPT !.id = parent.id])>>
CollapseCalls_NoRight(parent, left, right, merged) ==
    <<remove(left.id), updateDepth(treeDepth - 1), persist([merged EXCEPT !.id = parent.id])>>
MergeCalls_NoParent(parent, left, right, merged) == <<remove(right.id), persist(merged)>>
MergeCalls_Left(parent, left, right, merged) ==
    <<persist(parent), remove(left.id), persist(merged)>>

CollapseCalls(parent, left, right, merged) ==
    <<remove(left.id), updateDepth(treeDepth - 1), remove(right.id),
      persist([merged EXCEPT !.id = parent.id])>>
MergeCalls(parent, left, right, merged) ==
    <<persist(parent), remove(right.id), persist(merged)>>

\* merge: right and the value between it and left move into left.  A root that
\* lost its last value is replaced by left and the tree loses a level.
merge(m, left, right) ==
    /\ Len(Parent.values) > m
    /\ Len(Parent.children) > m + 1
    /\ LET parent == [Parent EXCEPT !.values = pop(Parent.values, m),
                                    !.children = pop(Parent.children, m + 1)]
           merged == [left EXCEPT
                        !.values = left.values \o <<Parent.values[m + 1]>> \o right.values,
                        !.children = left.children \o right.children]
       IN /\ todo' = IF Len(path) = 1 /\ parent.values = <<>>
                       THEN CollapseCalls(parent, left, right, merged)
                       ELSE MergeCalls(parent, left, right, merged)
          /\ NextLevel(parent)

MergeRight ==
    /\ at = 0
    /\ Fixing(1)
    /\ ~CanLend(Sibling(1))
    /\ merge(0, cur, Sibling(1))

MergeLeft ==
    /\ at > 0
    /\ Fixing(at - 1)
    /\ ~CanLend(Sibling(at - 1))
    /\ merge(at - 1, Sibling(at - 1), cur)

-----------------------------------------------------------------------------
(* The storage calls.                                                      *)

Pending(call) == todo # <<>> /\ Head(todo).call = call

\* The blocks without a node: Remove clears the flag and writes the free chain's
\* link over the first bytes, but leaves the children at the end
\* (persistent.go:278-298); the next Persist overwrites them.
Leave(id) ==
    IF Backend = "file" /\ Stores(id) THEN [stale EXCEPT ![id] = nodes[id].children] ELSE stale
Overwrite(id) == [stale EXCEPT ![id] = <<>>]

CallPersist ==
    /\ Pending("Persist")
    /\ nodes' = Put(Head(todo).node.id, Stored(Head(todo).node))
    /\ stale' = Overwrite(Head(todo).node.id)
    /\ todo' = Tail(todo)
    /\ UNCHANGED <<issued, depth, treeDepth, pc, req, locals, ret, faults, before>>

CallRemove ==
    /\ Pending("Remove")
    /\ nodes' = Drop(Head(todo).id)
    /\ issued' = issued \ {Head(todo).id}
    /\ stale' = Leave(Head(todo).id)
    /\ todo' = Tail(todo)
    /\ UNCHANGED <<depth, treeDepth, pc, req, locals, ret, faults, before>>

CallSetDepth ==
    /\ Pending("SetDepth")
    /\ treeDepth' = Head(todo).depth
    /\ depth' = Head(todo).depth
    /\ todo' = Tail(todo)
    /\ UNCHANGED <<nodes, issued, pc, req, locals, ret, faults, stale, before>>

-----------------------------------------------------------------------------
(* Errors and panics.                                                      *)

\* The next step of the operation loads the node c.
Loads(c) ==
    \/ /\ At("get") \/ At("insert") \/ At("delete")
       /\ ~cur.leaf
       /\ \E p \in find(cur.values, req.key) :
             /\ pc = "delete" \/ ~Found(cur.values, req.key, p)
             /\ c \in Child(cur, p)
    \/ /\ At("pop") /\ ~cur.leaf
       /\ c \in Child(cur, Len(cur.children) - 1)
    \/ /\ At("balance") /\ Len(path) > 1
       /\ c = Final(path).visitedNode
    \/ /\ At("fix") /\ Underfull(cur) /\ path # <<>>
       /\ \/ c = Final(path).visitedNode
          \/ ParentStored /\ c \in Child(Parent, IF at = 0 THEN 1 ELSE at - 1)
    \/ /\ At("grow") /\ Full(cur) /\ path # <<>> /\ fresh = <<>>
       /\ c = Final(path).visitedNode

Abort(l) ==
    /\ pc' = l
    /\ ret' = l
    /\ todo' = <<>>
    /\ UNCHANGED <<req, locals, before>>

\* Get answers "node not found" and the operation returns that error.
LoadMissing ==
    /\ \E c \in Ids : Loads(c) /\ ~Stores(c)
    /\ Abort("error")
    /\ UNCHANGED <<storageVars, treeDepth, faults, stale>>

\* The next step of the operation indexes outside a slice, pops an empty stack
\* or finds no target in prependBefore.
IndexError ==
    \/ /\ At("get") \/ At("insert") \/ At("delete")
       /\ ~cur.leaf
       /\ \E p \in find(cur.values, req.key) :
             /\ pc = "delete" \/ ~Found(cur.values, req.key, p)
             /\ Child(cur, p) = {}
    \/ /\ At("pop")
       /\ IF cur.leaf THEN cur.values = <<>> ELSE cur.children = <<>>
    \/ /\ At("grow") /\ fresh # <<>>
       /\ \/ ~SplitInRange(cur)
          \/ /\ path # <<>> /\ ParentStored
             /\ lastOf(Parent.children, cur.id) = {}
    \/ /\ At("fix") /\ Underfull(cur)
       /\ \/ path = <<>>
          \/ /\ ParentStored
             /\ LET s == IF at = 0 THEN 1 ELSE at - 1
                    middle == IF at = 0 THEN 0 ELSE at - 1
                IN \/ Child(Parent, s) = {}
                   \/ middle >= Len(Parent.values)
                   \/ middle + 1 >= Len(Parent.children)
                   \/ \E c \in Child(Parent, s) :
                         /\ Stores(c) /\ CanLend(nodes[c])
                         /\ ~cur.leaf /\ nodes[c].children = <<>>

Panic ==
    /\ IndexError
    /\ Abort("panic")
    /\ UNCHANGED <<storageVars, treeDepth, faults, stale>>

\* What a Persist that returns an error may leave: its three writes are the flag,
\* the values and the children.  Where no node is stored, the flag brings back
\* what the block holds: a link, whose first four bytes are zero and stand for no
\* values, and the children of the block's last node.  That is so where a uint has
\* eight bytes and ids are below 2^32: in a build of 32 bits the link covers the
\* length alone, is read as it, and the last node's values come back with it.
TornPersist(node) ==
    LET old == IF Stores(node.id) THEN nodes[node.id]
               ELSE [node EXCEPT !.values = <<>>, !.children = stale[node.id]]
    IN nodes' \in {nodes, Put(node.id, Stored(old)),
                   Put(node.id, Stored([node EXCEPT !.children = old.children]))}

\* A call of the storage returns an error, and so does the operation.
Fail ==
    /\ faults < MaxFaults
    /\ faults' = faults + 1
    /\ Abort("error")
    /\ \/ \* a read: GetRoot or Get
          /\ \/ pc \in {"get", "insert", "delete"} /\ cur.id = rootId
             \/ \E c \in Ids : Loads(c)
          /\ UNCHANGED <<storageVars, treeDepth, stale>>
       \/ \* NewId: the id may be lost
          /\ At("grow") /\ Full(cur) /\ Len(fresh) < IdsNeeded
          /\ issued' \in {issued} \cup {issued \cup {id} : id \in NextIds(issued)}
          /\ UNCHANGED <<nodes, depth, treeDepth, stale>>
       \/ /\ Pending("Persist")
          /\ TornPersist(Head(todo).node)
          /\ UNCHANGED <<issued, depth, treeDepth, stale>>
       \/ \* Remove: the node may be gone, and its block free or lost
          /\ Pending("Remove")
          /\ \/ UNCHANGED <<nodes, issued, stale>>
             \/ /\ nodes' = Drop(Head(todo).id)
                /\ stale' = Leave(Head(todo).id)
                /\ issued' \in {issued, issued \ {Head(todo).id}}
          /\ UNCHANGED <<depth, treeDepth>>
       \/ \* SetDepth: both copies in memory have changed already
          /\ Pending("SetDepth")
          /\ depth' = Head(todo).depth
          /\ treeDepth' = Head(todo).depth
          /\ UNCHANGED <<nodes, issued, stale>>

-----------------------------------------------------------------------------
Get == GetFound \/ GetNotFound \/ GetDescend
Insert ==
    \/ InsertReplace \/ InsertLeaf \/ InsertDescend
    \/ InsertPersist \/ InsertNewId \/ InsertSplit \/ InsertSplitRoot
Delete ==
    \/ DeleteLeaf \/ DeleteInner \/ DeleteAbsent \/ DeleteDescend
    \/ PopDescend \/ PopLeaf
Balance ==
    \/ BalanceRoot \/ BalanceLoad \/ FixDone
    \/ BorrowRight \/ BorrowLeft \/ MergeRight \/ MergeLeft
StorageCall == CallPersist \/ CallRemove \/ CallSetDepth

\* What the running operation does on its own.
Step == Get \/ Insert \/ Delete \/ Balance \/ StorageCall \/ LoadMissing \/ Panic \/ Return

Next == GetCall \/ InsertCall \/ DeleteCall \/ Step \/ Fail

Spec == Init /\ [][Next]_vars

\* A running operation is a loop of a running goroutine: it keeps taking steps.
FairSpec == Spec /\ WF_vars(Step)
=============================================================================
