--------------------------- MODULE InMemoryProofs ---------------------------
(***************************************************************************)
(* InMemoryStorage keeps the contract of NodeStorage for every bound on    *)
(* the ids, and every set of node contents.                                *)
(***************************************************************************)
EXTENDS InMemory, TLAPS

IInv == TypeOK /\ IdsPartitioned

-----------------------------------------------------------------------------
(* The stack.                                                              *)

LEMMA PushElements ==
    ASSUME NEW S, NEW s \in Seq(S), NEW x \in S
    PROVE  /\ Push(s, x) \in Seq(S)
           /\ Elements(Push(s, x)) = Elements(s) \cup {x}
           /\ (\A i, j \in DOMAIN s : s[i] = s[j] => i = j) /\ x \notin Elements(s)
                => \A i, j \in DOMAIN Push(s, x) : Push(s, x)[i] = Push(s, x)[j] => i = j
<1>1. Len(s) \in Nat /\ DOMAIN s = 1 .. Len(s)
  OBVIOUS
<1>2. /\ Push(s, x) \in Seq(S)
      /\ DOMAIN Push(s, x) = 1 .. Len(s) + 1
      /\ \A i \in 1 .. Len(s) : Push(s, x)[i] = s[i]
      /\ Push(s, x)[Len(s) + 1] = x
  BY <1>1 DEF Push
<1> DEFINE t == Push(s, x)
<1>3. Elements(t) = Elements(s) \cup {x}
  <2> HIDE DEF t
  <2> QED
    BY <1>1, <1>2 DEF t, Elements
<1>4. ASSUME \A i, j \in DOMAIN s : s[i] = s[j] => i = j, x \notin Elements(s),
             NEW i \in DOMAIN t, NEW j \in DOMAIN t, t[i] = t[j]
      PROVE  i = j
  <2>1. \A k \in 1 .. Len(s) : s[k] # x
    BY <1>1, <1>4 DEF Elements
  <2> HIDE DEF t
  <2> QED
    BY <1>1, <1>2, <1>4, <2>1 DEF t
<1> QED
  BY <1>2, <1>3, <1>4

LEMMA PopElements ==
    ASSUME NEW S, NEW s \in Seq(S), s # <<>>,
           \A i, j \in DOMAIN s : s[i] = s[j] => i = j
    PROVE  /\ Popped(s) \in Seq(S)
           /\ Top(s) \in Elements(s)
           /\ Elements(Popped(s)) = Elements(s) \ {Top(s)}
           /\ \A i, j \in DOMAIN Popped(s) : Popped(s)[i] = Popped(s)[j] => i = j
<1>1. Len(s) \in Nat \ {0} /\ DOMAIN s = 1 .. Len(s)
  OBVIOUS
<1>2. /\ Popped(s) \in Seq(S)
      /\ DOMAIN Popped(s) = 1 .. Len(s) - 1
      /\ \A i \in 1 .. Len(s) - 1 : Popped(s)[i] = s[i]
  BY <1>1 DEF Popped
<1>3. Top(s) \in Elements(s)
  BY <1>1 DEF Top, Elements
<1>4. Elements(Popped(s)) = Elements(s) \ {Top(s)}
  BY <1>1, <1>2 DEF Top, Elements
<1> QED
  BY <1>1, <1>2, <1>3, <1>4

-----------------------------------------------------------------------------
(* The invariant: one step per action.                                     *)

LEMMA InitInv == Init => IInv
<1> SUFFICES ASSUME Init PROVE IInv
  OBVIOUS
<1>1. TypeOK
  BY BoundsAssumption DEF Init, TypeOK, rootId, Ids
<1>2. IdsPartitioned
  BY DEF Init, IdsPartitioned, Elements, rootId
<1> QED
  BY <1>1, <1>2 DEF IInv

LEMMA NextInv == IInv /\ [Next]_vars => IInv'
<1> SUFFICES ASSUME IInv, [Next]_vars PROVE IInv'
  OBVIOUS
<1> USE BoundsAssumption DEF IInv, rootId, Ids
<1>1. ASSUME NEW d \in 1 .. MaxDepth, SetDepth(d) PROVE IInv'
  BY <1>1 DEF SetDepth, TypeOK, IdsPartitioned, Elements
<1>2. ASSUME NEW node \in Node, Persist(node) PROVE IInv'
  BY <1>2 DEF Persist, Node, TypeOK, IdsPartitioned, Elements
<1>3. ASSUME NEW id \in issued, RemoveNothing(id) PROVE IInv'
  BY <1>3 DEF RemoveNothing, vars, TypeOK, IdsPartitioned, Elements
<1>4. ASSUME NEW id \in issued, RemoveNode(id) PROVE IInv'
  <2>1. id \in Ids /\ id \in 1 .. idCap - 1 /\ id \notin Elements(unusedIds)
    BY <1>4 DEF RemoveNode, TypeOK, IdsPartitioned
  <2>2. DOMAIN nodes' = DOMAIN nodes \ {id} /\ issued' = issued \ {id} /\ depth' = depth
    BY <1>4 DEF RemoveNode
  <2>3. CASE id + 1 = idCap
    <3>1. idCap' = idCap - 1 /\ unusedIds' = unusedIds
      BY <1>4, <2>3 DEF RemoveNode, PushUnlessTop, LoweredCap
    <3>2. TypeOK'
      BY <2>1, <2>2, <3>1 DEF TypeOK
    <3>3. IdsPartitioned'
      <4>1. Elements(unusedIds') = Elements(unusedIds)
        BY <3>1
      <4> QED
        BY <2>1, <2>2, <2>3, <3>1, <4>1 DEF TypeOK, IdsPartitioned
    <3> QED
      BY <3>2, <3>3
  <2>4. CASE id + 1 # idCap
    <3>1. idCap' = idCap /\ unusedIds' = Push(unusedIds, id)
      BY <1>4, <2>4 DEF RemoveNode, PushUnlessTop, LoweredCap
    <3>2. /\ unusedIds' \in Seq(Ids)
          /\ Elements(unusedIds') = Elements(unusedIds) \cup {id}
          /\ \A i, j \in DOMAIN unusedIds' : unusedIds'[i] = unusedIds'[j] => i = j
      <4>1. unusedIds \in Seq(Ids) /\ \A i, j \in DOMAIN unusedIds : unusedIds[i] = unusedIds[j] => i = j
        BY DEF TypeOK, IdsPartitioned
      <4> HIDE DEF IInv, Ids
      <4> DEFINE t == Push(unusedIds, id)
      <4>2. t \in Seq(Ids) /\ Elements(t) = Elements(unusedIds) \cup {id}
        BY <2>1, <4>1, PushElements
      <4>3. \A i, j \in DOMAIN t : t[i] = t[j] => i = j
        BY <2>1, <4>1, PushElements
      <4> HIDE DEF t
      <4> QED
        BY <3>1, <4>2, <4>3 DEF t
    <3>3. TypeOK'
      BY <2>1, <2>2, <3>1, <3>2 DEF TypeOK
    <3>4. IdsPartitioned'
      BY <2>1, <2>2, <3>1, <3>2 DEF TypeOK, IdsPartitioned
    <3> QED
      BY <3>3, <3>4
  <2> QED
    BY <2>3, <2>4
<1>5. ASSUME NewIdAtCap PROVE IInv'
  <2>1. Elements(unusedIds) = {} /\ Elements(unusedIds') = {}
    BY <1>5 DEF NewIdAtCap, Elements
  <2>2. idCap \notin issued
    BY <1>5 DEF NewIdAtCap, TypeOK, IdsPartitioned
  <2> QED
    BY <1>5, <2>1, <2>2 DEF NewIdAtCap, HandOut, TypeOK, IdsPartitioned
<1>6. ASSUME NewIdFromUnused PROVE IInv'
  <2>1. /\ unusedIds' \in Seq(Ids)
        /\ Top(unusedIds) \in Elements(unusedIds)
        /\ Elements(unusedIds') = Elements(unusedIds) \ {Top(unusedIds)}
        /\ \A i, j \in DOMAIN unusedIds' : unusedIds'[i] = unusedIds'[j] => i = j
    BY <1>6, PopElements DEF NewIdFromUnused, TypeOK, IdsPartitioned
  <2>2. issued' = issued \cup {Top(unusedIds)} /\ nodes' = nodes /\ idCap' = idCap /\ depth' = depth
    BY <1>6, <2>1 DEF NewIdFromUnused, HandOut, TypeOK, IdsPartitioned
  <2> QED
    BY <2>1, <2>2 DEF TypeOK, IdsPartitioned
<1>7. CASE UNCHANGED vars
  BY <1>7 DEF vars, TypeOK, IdsPartitioned, Elements
<1> QED
  BY <1>1, <1>2, <1>3, <1>4, <1>5, <1>6, <1>7 DEF Next

\* At every moment the ids below idCap are split into those handed out and those
\* on the stack, each once (in_memory.go: Remove, NewId).
THEOREM IdsStayPartitioned == Spec => [](TypeOK /\ IdsPartitioned)
BY InitInv, NextInv, PTL DEF Spec, IInv

\* Every variable of InMemoryStorage keeps its type, and the root is always stored.
THEOREM InMemoryTypes == Spec => []TypeOK
BY IdsStayPartitioned, PTL

-----------------------------------------------------------------------------
(* The refinement.                                                         *)

LEMMA StepRefines == IInv /\ [Next]_vars => [NS!StorageNext]_<<nodes, issued, depth>>
<1> SUFFICES ASSUME IInv, [Next]_vars PROVE NS!StorageNext \/ UNCHANGED <<nodes, issued, depth>>
  OBVIOUS
<1> USE BoundsAssumption DEF IInv, rootId, Ids
<1>1. ASSUME NEW d \in 1 .. MaxDepth, SetDepth(d) PROVE NS!StorageNext
  BY <1>1 DEF SetDepth, NS!StorageNext, NS!SetDepth
<1>2. ASSUME NEW node \in Node, Persist(node) PROVE NS!StorageNext
  <2>1. node.id \in DOMAIN nodes' /\ nodes'[node.id] = node
    BY <1>2 DEF Persist
  <2>2. NS!Persist(node.id, nodes'[node.id])
    BY <1>2, <2>1 DEF Persist, NS!Persist, NS!Put
  <2> QED
    BY <2>1, <2>2 DEF NS!StorageNext
<1>3. ASSUME NEW id \in issued, RemoveNothing(id) PROVE UNCHANGED <<nodes, issued, depth>>
  BY <1>3 DEF RemoveNothing, vars
<1>4. ASSUME NEW id \in issued, RemoveNode(id) PROVE NS!StorageNext
  <2>1. NS!Remove(id) /\ id \in DOMAIN nodes
    BY <1>4 DEF RemoveNode, NS!Remove, NS!Stores, NS!Drop
  <2> QED
    BY <2>1 DEF NS!StorageNext
<1>5. ASSUME NewIdAtCap PROVE NS!StorageNext
  <2>1. idCap \in Ids \ issued
    BY <1>5 DEF NewIdAtCap, TypeOK, IdsPartitioned
  <2>2. NS!NewId(idCap)
    BY <1>5, <2>1 DEF NewIdAtCap, HandOut, NS!NewId
  <2> QED
    BY <2>1, <2>2 DEF NS!StorageNext
<1>6. ASSUME NewIdFromUnused PROVE NS!StorageNext
  <2>1. Top(unusedIds) \in Elements(unusedIds)
    BY <1>6, PopElements DEF NewIdFromUnused, TypeOK, IdsPartitioned
  <2>2. Top(unusedIds) \in Ids \ issued
    BY <2>1 DEF TypeOK, IdsPartitioned
  <2>3. NS!NewId(Top(unusedIds))
    BY <1>6, <2>2 DEF NewIdFromUnused, HandOut, NS!NewId
  <2> QED
    BY <2>2, <2>3 DEF NS!StorageNext
<1>7. CASE UNCHANGED vars
  BY <1>7 DEF vars
<1> QED
  BY <1>1, <1>2, <1>3, <1>4, <1>5, <1>6, <1>7 DEF Next

\* InMemoryStorage implements the interface NodeStorage (in_memory.go:17): every
\* step of it is a step the contract allows, whatever the caller does within the
\* contract.
THEOREM InMemoryImplementsStorage == Spec => ImplementsStorage
<1>1. Init => NS!StorageInit
  BY DEF Init, NS!StorageInit
<1> QED
  BY <1>1, InitInv, NextInv, StepRefines, PTL DEF Spec, ImplementsStorage, NS!StorageSpec, NS!storageVars
=============================================================================
