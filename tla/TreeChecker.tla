---------------------------- MODULE TreeChecker ----------------------------
(***************************************************************************)
(* The structure of the tree between operations, as the treeChecker of     *)
(* tree_test.go walks it after a few insertions and deletions.             *)
(***************************************************************************)
EXTENDS TreeProperties

\* checkNode: the node and everything below it; Lo and Hi are the sets of the
\* keys of the ancestors it must stay above and below.
RECURSIVE checkNode(_, _, _, _)
checkNode(id, level, Lo, Hi) ==
    /\ Stores(id)
    /\ LET node == nodes[id]
           n == Len(node.values)
       IN /\ node.leaf <=> level = depth
          /\ node.leaf => node.children = <<>>
          /\ n < b
          /\ id # rootId => n >= a - 1
          /\ ~node.leaf => Len(node.children) = n + 1
          /\ \A i \in 1 .. n : /\ \A j \in 1 .. i - 1 : node.values[j].First < node.values[i].First
                               /\ \A k \in Lo : k < node.values[i].First
                               /\ \A k \in Hi : node.values[i].First < k
          /\ \A i \in DOMAIN node.children :
                checkNode(node.children[i], level + 1,
                          IF i = 1 THEN Lo ELSE {node.values[i - 1].First},
                          IF i = n + 1 THEN Hi ELSE {node.values[i].First})

\* Between operations the nodes below the root are a search tree with all leaves at
\* the depth the storage keeps.
WellFormed == pc = "idle" /\ faults = 0 => checkNode(rootId, 1, {}, {})
=============================================================================
