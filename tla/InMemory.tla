------------------------------ MODULE InMemory ------------------------------
(***************************************************************************)
(* InMemoryStorage (in_memory.go) under a caller that keeps the rules of   *)
(* the interface NodeStorage: it persists and removes only ids that were   *)
(* handed out.  Ids of removed nodes are handed out again, most recently   *)
(* removed first, except the highest one, which lowers idCap.              *)
(***************************************************************************)
EXTENDS Integers, Sequences

CONSTANTS Contents,  \* what a node may hold
          MaxId,     \* bound on idCap (the code's bound is the width of uint)
          MaxDepth   \* bound on the depths the caller sets

ASSUME BoundsAssumption == MaxId \in Nat /\ MaxDepth \in Nat

VARIABLES nodes,      \* the map from ids to nodes
          unusedIds,  \* the stack of removed ids, its top last
          idCap,      \* every id in use is below idCap
          depth,
          issued      \* history: the ids in use: the root's, and those handed out once
                      \* and not removed since

vars == <<nodes, unusedIds, idCap, depth, issued>>

rootId == 0
Ids == 0 .. MaxId

NS == INSTANCE NodeStorage

Node == [id : Ids, values : Contents, children : {<<>>}, leaf : BOOLEAN]

\* internal/stack: the stack is a slice.
Push(stack, value) == Append(stack, value)
Top(stack) == stack[Len(stack)]
\* Mutant: the top stays on the stack.
Popped_Peek(stack) == stack
Popped(stack) == SubSeq(stack, 1, Len(stack) - 1)
Elements(stack) == {stack[i] : i \in DOMAIN stack}

Init ==
    /\ nodes = [i \in {rootId} |-> NS!createNewNode(rootId, TRUE)]
    /\ unusedIds = <<>>
    /\ idCap = 1
    /\ depth = 1
    /\ issued = {rootId}

SetDepth(d) ==
    /\ depth' = d
    /\ UNCHANGED <<nodes, unusedIds, idCap, issued>>

Persist(node) ==
    /\ node.id \in issued
    /\ nodes' = [i \in DOMAIN nodes \cup {node.id} |-> IF i = node.id THEN node ELSE nodes[i]]
    /\ UNCHANGED <<unusedIds, idCap, depth, issued>>

\* The root is never removed, and an id without a node keeps its state.
RemoveNothing(id) ==
    /\ id = rootId \/ id \notin DOMAIN nodes
    /\ UNCHANGED vars

\* Mutant: the highest id lowers idCap and is pushed as well.
PushUnlessTop_Always(id) == Push(unusedIds, id)
PushUnlessTop(id) == IF id + 1 = idCap THEN unusedIds ELSE Push(unusedIds, id)

\* Mutant: every removal lowers idCap.
LoweredCap_Always(id) == idCap - 1
LoweredCap(id) == IF id + 1 = idCap THEN idCap - 1 ELSE idCap

RemoveNode(id) ==
    /\ id # rootId
    /\ id \in DOMAIN nodes
    /\ nodes' = [i \in DOMAIN nodes \ {id} |-> nodes[i]]
    /\ idCap' = LoweredCap(id)
    /\ unusedIds' = PushUnlessTop(id)
    /\ issued' = issued \ {id}
    /\ UNCHANGED depth

\* An id in use that is handed out again has two owners and is in nobody's use
\* alone: it leaves issued without a Remove, which the contract forbids.
HandOut(id) == IF id \in issued THEN issued \ {id} ELSE issued \cup {id}

NewIdAtCap ==
    /\ unusedIds = <<>>
    /\ idCap <= MaxId
    /\ idCap' = idCap + 1
    /\ issued' = HandOut(idCap)
    /\ UNCHANGED <<nodes, unusedIds, depth>>

NewIdFromUnused ==
    /\ unusedIds # <<>>
    /\ unusedIds' = Popped(unusedIds)
    /\ issued' = HandOut(Top(unusedIds))
    /\ UNCHANGED <<nodes, idCap, depth>>

Next ==
    \/ \E d \in 1 .. MaxDepth : SetDepth(d)
    \/ \E node \in Node : Persist(node)
    \/ \E id \in issued : RemoveNothing(id)
    \/ \E id \in issued : RemoveNode(id)
    \/ NewIdAtCap
    \/ NewIdFromUnused

Spec == Init /\ [][Next]_vars

-----------------------------------------------------------------------------

\* The ids below idCap are handed out or wait on the stack, each once and never
\* the root's; nodes are stored only under ids handed out.
IdsPartitioned ==
    /\ issued = (0 .. idCap - 1) \ Elements(unusedIds)
    /\ \A i, j \in DOMAIN unusedIds : unusedIds[i] = unusedIds[j] => i = j
    /\ Elements(unusedIds) \subseteq 1 .. idCap - 1
    /\ DOMAIN nodes \subseteq issued

TypeOK ==
    /\ DOMAIN nodes \subseteq Ids /\ rootId \in DOMAIN nodes
    /\ unusedIds \in Seq(Ids)
    /\ idCap \in 1 .. MaxId + 1
    /\ depth \in Nat
    /\ issued \subseteq Ids

\* NewId never returns an id that is in use ("Returned ID must not be returned
\* again without being removed with Remove first", tree.go:34), Persist and
\* Remove change the node they are given and no other.
ImplementsStorage == NS!StorageSpec
=============================================================================
