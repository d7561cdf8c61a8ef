---------------------------- MODULE NodeStorage ----------------------------
(***************************************************************************)
(* The contract of the interface NodeStorage (tree.go): what Tree may rely *)
(* on and what it must respect.  The guards are the obligations of the     *)
(* caller ("Only valid ids are expected to be passed"), the updates the    *)
(* obligations of the storage.  InMemory implements it, Tree respects it.  *)
(***************************************************************************)
EXTENDS Integers, Sequences

CONSTANTS Ids,      \* node ids the storage can hand out
          rootId    \* the id of the root, never handed out

ASSUME RootAssumption == rootId \in Ids

VARIABLES nodes,    \* stored nodes: a function from the ids in use
          issued,   \* ids returned by NewId and not removed since, and rootId
          depth     \* what GetDepth returns

storageVars == <<nodes, issued, depth>>

createNewNode(id, leaf) ==
    [id |-> id, values |-> <<>>, children |-> <<>>, leaf |-> leaf]

StorageInit ==
    /\ nodes = [i \in {rootId} |-> createNewNode(rootId, TRUE)]
    /\ issued = {rootId}
    /\ depth = 1

Stores(id) == id \in DOMAIN nodes

Put(id, node) == [i \in DOMAIN nodes \cup {id} |-> IF i = id THEN node ELSE nodes[i]]

Drop(id) == [i \in DOMAIN nodes \ {id} |-> nodes[i]]

Persist(id, node) ==
    /\ id \in issued
    /\ nodes' = Put(id, node)
    /\ UNCHANGED <<issued, depth>>

Remove(id) ==
    /\ id # rootId
    /\ Stores(id)
    /\ nodes' = Drop(id)
    /\ issued' = issued \ {id}
    /\ UNCHANGED depth

NewId(id) ==
    /\ id \in Ids \ issued
    /\ issued' = issued \cup {id}
    /\ UNCHANGED <<nodes, depth>>

SetDepth(d) ==
    /\ depth' = d
    /\ UNCHANGED <<nodes, issued>>

StorageNext ==
    \/ \E id \in DOMAIN nodes' : Persist(id, nodes'[id])
    \/ \E id \in DOMAIN nodes : Remove(id)
    \/ \E id \in Ids : NewId(id)
    \/ SetDepth(depth')

StorageSpec == StorageInit /\ [][StorageNext]_storageVars
=============================================================================
