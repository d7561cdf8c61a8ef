--------------------------- MODULE TreeProperties ---------------------------
(***************************************************************************)
(* What Tree is checked and proved to do.                                  *)
(***************************************************************************)
EXTENDS Tree

Labels == {"idle", "get", "insert", "grow", "delete", "pop", "balance", "fix",
           "done", "error", "panic"}

StorageCalls ==
    [call : {"Persist"}, node : Node] \cup [call : {"Remove"}, id : Ids]
       \cup [call : {"SetDepth"}, depth : Int]

\* Every variable has its type, no node has the root as its child, and the root
\* is always stored.
TypeOK ==
    /\ issued \subseteq Ids /\ rootId \in issued
    /\ DOMAIN nodes \subseteq Ids /\ rootId \in DOMAIN nodes
    /\ \A i \in DOMAIN nodes : nodes[i] \in Node
    /\ depth \in Int /\ treeDepth \in Int
    /\ pc \in Labels
    /\ req \in Request \cup {NoRequest}
    /\ cur \in Node /\ target \in Node
    /\ path \in Seq(deleteStep)
    /\ at \in Nat /\ hole \in Nat
    /\ fresh \in Seq(Ids \ {rootId})
    /\ todo \in Seq(StorageCalls)
    /\ faults \in 0 .. MaxFaults
    /\ stale \in [Ids -> Seq(Ids \ {rootId})]
    /\ before \subseteq Tuple

-----------------------------------------------------------------------------
(* Safety.                                                                 *)

\* As long as no storage call fails, no operation indexes outside a slice, pops
\* an empty stack or misses the target of prependBefore (the comments "presence
\* of position is guarantied by nature of (a,b)-tree" of tree.go, tree_insert.go
\* and tree_delete.go).
PanicFree == faults = 0 => pc # "panic"

\* As long as no storage call fails, no operation returns an error: every node
\* Insert and Delete load is still stored.
ErrorFree == faults = 0 => pc # "error"

\* The checker of tree_test.go never meets a node twice and meets every stored one
\* (the test compares len(checkedNodes) with len(storage.nodes)).
EachNodeOnce ==
    /\ \A i \in DOMAIN nodes : i # rootId => \E p \in DOMAIN nodes : \E n \in DOMAIN nodes[p].children :
          nodes[p].children[n] = i
    /\ \A p, q \in DOMAIN nodes : \A m \in DOMAIN nodes[p].children : \A n \in DOMAIN nodes[q].children :
          nodes[p].children[m] = nodes[q].children[n] => p = q /\ m = n

\* Between operations tree and storage agree on the depth, every id that was handed
\* out and not removed is a node's, and every node but the root hangs in the tree
\* once: neither ids nor nodes leak, however long the tree is used.
NothingLost ==
    pc = "idle" /\ faults = 0 =>
        treeDepth = depth /\ issued = DOMAIN nodes /\ EachNodeOnce

\* At every moment, also between two writes of an operation and after one that
\* failed half-way, a key is stored at most once: a value leaves its old node
\* in an earlier write than the one that brings it to the new node.
KeyStoredOnce ==
    \A i, j \in DOMAIN nodes : \A m \in DOMAIN nodes[i].values : \A n \in DOMAIN nodes[j].values :
        nodes[i].values[m].First = nodes[j].values[n].First => i = j /\ m = n

\* No node that is stored, or about to be, has more values than the file's block
\* holds (b-1): Insert splits in time and no merge is too large, so that Stored
\* never cuts a value off.
ValuesFit ==
    /\ \A i \in DOMAIN nodes : Len(nodes[i].values) < b
    /\ \A k \in DOMAIN todo : todo[k].call = "Persist" => Len(todo[k].node.values) < b

\* The same for the children (b).
ChildrenFit ==
    /\ \A i \in DOMAIN nodes : Len(nodes[i].children) <= b
    /\ \A k \in DOMAIN todo : todo[k].call = "Persist" => Len(todo[k].node.children) <= b

\* What ValuesFit and TypeOK rest on: nodes are stored under their own id; only
\* the first visited node is the root, so that Delete never removes it; and only
\* a node that Insert has still to split holds as many as b values; and the value that
\* Delete replaces by its predecessor is there.
RootStays ==
    /\ \A i \in DOMAIN nodes : nodes[i].id = i
    /\ \A k \in 2 .. Len(path) : path[k].visitedNode # rootId
    /\ pc \in {"insert", "delete", "pop", "fix"} /\ path # <<>> => cur.id # rootId
    /\ pc = "idle" => path = <<>>
    /\ \A k \in DOMAIN todo : todo[k].call = "Remove" => todo[k].id # rootId
CurFits ==
    /\ Len(cur.values) <= b
    /\ pc \notin {"grow", "done", "error", "panic"} => Len(cur.values) < b
    /\ Len(target.values) < b
    /\ pc = "insert" => req.op = "Insert"
    /\ pc = "pop" => hole < Len(target.values)
IInv == TypeOK /\ RootStays /\ ValuesFit /\ CurFits

\* Tree keeps the rules of the interface NodeStorage: it persists only under ids
\* that are the root's or came from NewId and were not removed since, and
\* removes only stored nodes and never the root.
RespectsStorage == StorageSpec

\* A Delete that returned without error left no tuple with its key ("deletes
\* value with key 12 if exists", readme.md).
DeleteDeletes ==
    pc = "done" /\ todo = <<>> /\ req.op = "Delete" => \A t \in Pairs : t.First # req.key

\* The key that Delete takes out of the tree.  On a file, when the key of the request
\* is in an inner node, it is the key before it: PopLeaf takes it from its leaf, and
\* the node that should get it is never persisted.
Gone == IF Backend = "file" /\ ~target.leaf THEN target.values[hole + 1].First ELSE req.key

\* On either storage, as long as no call failed, an operation that returned changed
\* one tuple at most: Get none, and it answers what is stored; Insert that of its
\* key; Delete took out the one of its key or, on a file, of the key before it.
OneTupleChanges ==
    pc = "done" /\ todo = <<>> /\ faults = 0 =>
        /\ req.op = "Get" =>
              /\ Pairs = before
              /\ \/ \E t \in before : t.First = req.key /\ ret = t.Second
                 \/ (\A t \in before : t.First # req.key) /\ ret = "ErrNotFound"
        /\ req.op = "Insert" => Pairs = {t \in before : t.First # req.key} \cup {NewTuple}
        /\ req.op = "Delete" =>
              /\ Pairs = {t \in before : t.First # Gone}
              /\ Gone # req.key =>
                    Gone < req.key /\ \A t \in before : t.First < req.key => t.First <= Gone

-----------------------------------------------------------------------------
(* The map the tree implements.                                            *)

\* An operation takes effect with its last write.
Committed == pc = "done" /\ todo = <<>>

Dict(pairs) ==
    [k \in {t.First : t \in pairs} |-> (CHOOSE t \in pairs : t.First = k).Second]

KV == INSTANCE KVStore WITH
        dict <- Dict(IF Committed \/ pc = "idle" THEN Pairs ELSE before),
        pending <- req,
        answer <- IF Committed THEN ret ELSE "none"

\* Get, Insert and Delete of readme.md are those of a map: an operation changes
\* the stored tuples as the map does and answers what the map answers.
ImplementsMap == KV!Spec

\* Every operation returns: the descents end in a leaf, the splits and the
\* merges at the root.
OperationsReturn == pc # "idle" ~> pc = "idle"
=============================================================================
