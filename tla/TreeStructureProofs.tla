------------------------- MODULE TreeStructureProofs -------------------------
(***************************************************************************)
(* The structure of the tree while no storage call has failed: all leaves  *)
(* at one depth, no node too small, every node the child of one other, no  *)
(* id lost.  It follows that Tree keeps the rules of the storage, finds    *)
(* every node it loads and never indexes outside a slice.                  *)
(***************************************************************************)
EXTENDS TreeProofs

-----------------------------------------------------------------------------
(* The invariant.                                                          *)

\* K[i] are the children of node i.  Every node but the root has one parent, which
\* is one level above it.
Linked(K, h) ==
    /\ \A i \in DOMAIN K : \A c \in K[i] : c \in DOMAIN K \ {rootId} /\ h[i] = h[c] + 1
    /\ \A i, j \in DOMAIN K : \A c \in K[i] : c \in K[j] => i = j
    /\ \A c \in DOMAIN K \ {rootId} : \E i \in DOMAIN K : c \in K[i]

ChildSets(W) == [i \in DOMAIN W |-> Range(W[i].children)]

Shaped(n) == IF n.leaf THEN n.children = <<>> ELSE Len(n.children) = Len(n.values) + 1

NoRepair == {}

\* The node in weak, which Delete has still to repair, may lack one value.
Least(n, weak) ==
    IF n.id = rootId THEN IF n.leaf THEN 0 ELSE 1
    ELSE IF n.id \in weak THEN a - 2 ELSE a - 1

NodeOK(n, height, weak) ==
    /\ Shaped(n)
    /\ n.leaf => height = 0
    /\ IsInjective(n.children)
    /\ Len(n.values) >= Least(n, weak)

Balanced(W, h, weak) ==
    /\ rootId \in DOMAIN W
    /\ h \in [Ids -> Nat]
    /\ \A i \in DOMAIN W : NodeOK(W[i], h[i], weak)
    /\ Linked(ChildSets(W), h)

\* The nodes visited on the way down; Delete also knows the positions of the children
\* it went to.
Descends(W, p, exact, k) ==
    LET parent == W[p[k].visitedNode].children
        step == p[k + 1]
    IN /\ step.visitedNode \in Range(parent)
       /\ exact => /\ step.positionInParent + 1 \in DOMAIN parent
                   /\ parent[step.positionInParent + 1] = step.visitedNode
Trail(W, h, p, exact) ==
    /\ p # <<>> /\ p[1].visitedNode = rootId
    /\ \A k \in DOMAIN p : /\ p[k].visitedNode \in DOMAIN W
                           /\ h[p[k].visitedNode] + k = h[rootId] + 1
    /\ \A k \in 1 .. Len(p) - 1 : Descends(W, p, exact, k)

\* The calls of t lead from the nodes N to the nodes V.
Persists(t) == {i \in Ids : \E k \in DOMAIN t : t[k].call = "Persist" /\ t[k].node.id = i}
Removes(t) == {i \in Ids : \E k \in DOMAIN t : t[k].call = "Remove" /\ t[k].id = i}
Leads(N, t, V) ==
    /\ DOMAIN V = (DOMAIN N \cup Persists(t)) \ Removes(t)
    /\ \A i \in DOMAIN V \ Persists(t) : V[i] = N[i]
    /\ \A k \in DOMAIN t : t[k].call = "Persist" =>
          /\ t[k].node.id \in DOMAIN V /\ V[t[k].node.id] = t[k].node
          /\ Shaped(t[k].node)
    /\ Removes(t) \subseteq DOMAIN N
    /\ \A j, k \in DOMAIN t :
          t[j].call = "Remove" /\ t[k].call = "Remove" /\ t[j].id = t[k].id => j = k

\* Every issued id is a node's, is about to be removed or is kept for a split.
Ledger(V, t, ids, spare) ==
    /\ ids = DOMAIN V \cup Removes(t) \cup Range(spare)
    /\ Range(spare) \cap (DOMAIN V \cup Removes(t)) = {} /\ IsInjective(spare)

DepthOK(d, t, top) ==
    /\ \A k \in DOMAIN t : t[k].call = "SetDepth" => t[k].depth = top + 1
    /\ (\A k \in DOMAIN t : t[k].call # "SetDepth") => d = top + 1

\* cur is the node that Insert is about to write, not what the storage will hold.
Grown(V) == IF pc = "grow" THEN [V EXCEPT ![cur.id] = cur] ELSE V
Visited == IF pc = "balance" THEN path ELSE PushCur
Weak == IF pc \in {"balance", "fix"} THEN {Final(Visited).visitedNode} ELSE NoRepair

Current(V) ==
    /\ pc # "error"
    /\ pc \in {"idle", "get", "insert", "delete", "pop"} => todo = <<>>
    /\ pc \in {"get", "insert", "grow", "delete", "pop", "fix"} => cur.id \in DOMAIN V
    /\ pc \in {"get", "insert", "delete", "pop", "fix"} => V[cur.id] = cur
    /\ pc = "pop" => target.id \in DOMAIN V /\ V[target.id] = target /\ ~target.leaf
    /\ pc \in {"pop", "fix"} => path # <<>>
    /\ fresh # <<>> => pc = "grow" /\ Full(cur)

Sound(V, h) ==
    /\ Leads(nodes, todo, V)
    /\ Ledger(V, todo, issued, fresh)
    /\ treeDepth = depth /\ DepthOK(depth, todo, h[rootId])
    /\ Current(V)
    /\ Balanced(Grown(V), h, Weak)
    /\ pc \in {"insert", "grow", "delete", "pop", "balance", "fix"} =>
          Trail(Grown(V), h, Visited, pc \notin {"insert", "grow"})

Structure ==
    /\ pc = "panic" => todo = <<>>
    /\ faults > 0 => todo = <<>> /\ pc \in {"idle", "get", "done", "error", "panic"}
    /\ faults = 0 /\ pc # "panic" => \E V, h : Sound(V, h)

-----------------------------------------------------------------------------
(* Parents and children.                                                   *)

\* Children move between two nodes.
ChildrenMove(K, L, from, to, C) ==
    /\ from \in DOMAIN K /\ to \in DOMAIN K /\ from # to /\ DOMAIN L = DOMAIN K
    /\ C \subseteq K[from] /\ L[from] = K[from] \ C /\ L[to] = K[to] \cup C
    /\ \A i \in DOMAIN K \ {from, to} : L[i] = K[i]

LEMMA LinkedMove ==
    ASSUME NEW K, NEW h, Linked(K, h), NEW L, NEW from, NEW to, h[from] = h[to],
           NEW C, ChildrenMove(K, L, from, to, C)
    PROVE  Linked(L, h)
BY DEF Linked, ChildrenMove

\* Half of x, a child of p, becomes y.
SplitsOff(K, L, x, p, y) ==
    /\ x \in DOMAIN K /\ p \in DOMAIN K /\ x \in K[p] /\ y \notin DOMAIN K /\ y # rootId
    /\ DOMAIN L = DOMAIN K \cup {y}
    /\ L[x] \cup L[y] = K[x] /\ L[x] \cap L[y] = {}
    /\ L[p] = K[p] \cup {y}
    /\ \A i \in DOMAIN K \ {x, p} : L[i] = K[i]
SameHeights(S, h, g) == \A i \in S : g[i] = h[i] /\ h[i] \in Nat

LEMMA LinkedSplit ==
    ASSUME NEW K, NEW h, Linked(K, h), NEW L, NEW g, NEW x, NEW p, NEW y,
           SplitsOff(K, L, x, p, y), g[y] = h[x], SameHeights(DOMAIN K, h, g)
    PROVE  Linked(L, g)
<1> USE DEF SplitsOff, SameHeights
<1>1. x # p
  BY DEF Linked
<1>2. \A i \in DOMAIN L : \A c \in L[i] : c \in DOMAIN L \ {rootId} /\ g[i] = g[c] + 1
  BY <1>1 DEF Linked
<1>3. \A i, j \in DOMAIN L : \A c \in L[i] : c \in L[j] => i = j
  BY <1>1 DEF Linked
<1>4. \A c \in DOMAIN L \ {rootId} : \E i \in DOMAIN L : c \in L[i]
  BY <1>1 DEF Linked
<1> QED
  BY <1>2, <1>3, <1>4 DEF Linked

\* The children of the root go to its two new children.
RootSplits(K, L, y, z) ==
    /\ rootId \in DOMAIN K /\ y # z /\ y \notin DOMAIN K /\ z \notin DOMAIN K
    /\ DOMAIN L = DOMAIN K \cup {y, z}
    /\ L[y] \cup L[z] = K[rootId] /\ L[y] \cap L[z] = {}
    /\ L[rootId] = {y, z}
    /\ \A i \in DOMAIN K \ {rootId} : L[i] = K[i]
RootRises(S, h, g, y, z) ==
    /\ g[y] = h[rootId] /\ g[z] = h[rootId] /\ g[rootId] = h[rootId] + 1
    /\ \A i \in S \ {rootId} : g[i] = h[i]

LEMMA LinkedSplitRoot ==
    ASSUME NEW K, NEW h, Linked(K, h), NEW L, NEW g, NEW y, NEW z,
           RootSplits(K, L, y, z), RootRises(DOMAIN K, h, g, y, z)
    PROVE  Linked(L, g)
<1> USE DEF RootSplits, RootRises
<1>1. \A i \in DOMAIN K : \A c \in K[i] : c \in DOMAIN K \ {rootId} /\ h[i] = h[c] + 1
  BY DEF Linked
<1>2. \A i \in DOMAIN L : \A c \in L[i] : c \in DOMAIN L \ {rootId} /\ g[i] = g[c] + 1
  BY <1>1
<1>3. \A i, j \in DOMAIN L : \A c \in L[i] : c \in L[j] => i = j
  BY <1>1 DEF Linked
<1>4. \A c \in DOMAIN L \ {rootId} : \E i \in DOMAIN L : c \in L[i]
  BY <1>1 DEF Linked
<1> QED
  BY <1>2, <1>3, <1>4 DEF Linked

\* Two children of p become one.
Joins(K, L, p, left, right) ==
    /\ p \in DOMAIN K /\ left \in K[p] /\ right \in K[p] /\ left # right
    /\ DOMAIN L = DOMAIN K \ {right}
    /\ L[left] = K[left] \cup K[right] /\ L[p] = K[p] \ {right}
    /\ \A i \in DOMAIN K \ {left, right, p} : L[i] = K[i]

LEMMA LinkedMerge ==
    ASSUME NEW K, NEW h, Linked(K, h), NEW L, NEW p, NEW left, NEW right,
           Joins(K, L, p, left, right), \A i \in DOMAIN K : h[i] \in Nat
    PROVE  Linked(L, h)
<1> USE DEF Joins
<1>1. \A i \in DOMAIN K : \A c \in K[i] : c \in DOMAIN K \ {rootId} /\ h[i] = h[c] + 1
  BY DEF Linked
<1>2. \A i, j \in DOMAIN K : \A c \in K[i] : c \in K[j] => i = j
  BY DEF Linked
<1>3. p # left /\ p # right /\ left \in DOMAIN K /\ right \in DOMAIN K
  BY <1>1
<1>4. right \notin K[left] /\ right \notin K[right] /\ \A i \in DOMAIN K : i # p => right \notin K[i]
  BY <1>1, <1>2, <1>3
<1>5. \A i \in DOMAIN L : \A c \in L[i] : c \in DOMAIN L \ {rootId} /\ h[i] = h[c] + 1
  BY <1>1, <1>3, <1>4
<1>6. \A i, j \in DOMAIN L : \A c \in L[i] : c \in L[j] => i = j
  BY <1>2, <1>3, <1>4
<1>7. \A c \in DOMAIN L \ {rootId} : \E i \in DOMAIN L : c \in L[i]
  <2> TAKE c \in DOMAIN L \ {rootId}
  <2>1. PICK i \in DOMAIN K : c \in K[i]
    BY DEF Linked
  <2>2. CASE i = right
    BY <1>3, <2>1, <2>2
  <2>3. CASE i # right
    BY <1>3, <2>1, <2>3
  <2> QED
    BY <2>2, <2>3
<1> QED
  BY <1>5, <1>6, <1>7 DEF Linked

\* The only two children of the root become the root.
RootJoins(K, L, left, right) ==
    /\ rootId \in DOMAIN K /\ left # right /\ K[rootId] = {left, right}
    /\ DOMAIN L = DOMAIN K \ {left, right}
    /\ L[rootId] = K[left] \cup K[right]
    /\ \A i \in DOMAIN K \ {left, right, rootId} : L[i] = K[i]
RootSinks(S, h, g, left) == g[rootId] = h[left] /\ \A i \in S \ {rootId} : g[i] = h[i]

LEMMA LinkedCollapse ==
    ASSUME NEW K, NEW h, Linked(K, h), NEW L, NEW g, NEW left, NEW right,
           RootJoins(K, L, left, right), RootSinks(DOMAIN K, h, g, left),
           \A i \in DOMAIN K : h[i] \in Nat
    PROVE  Linked(L, g)
<1> USE DEF RootJoins, RootSinks
<1>1. \A i \in DOMAIN K : \A c \in K[i] : c \in DOMAIN K \ {rootId} /\ h[i] = h[c] + 1
  BY DEF Linked
<1>2. \A i, j \in DOMAIN K : \A c \in K[i] : c \in K[j] => i = j
  BY DEF Linked
<1>3. /\ left # rootId /\ right # rootId /\ left \in DOMAIN K /\ right \in DOMAIN K
      /\ h[left] = h[right]
  BY <1>1
<1>4. \A i \in DOMAIN K : i # rootId => left \notin K[i] /\ right \notin K[i]
  BY <1>1, <1>2, <1>3
<1>5. \A i \in DOMAIN L : \A c \in L[i] : c \in DOMAIN L \ {rootId} /\ g[i] = g[c] + 1
  BY <1>1, <1>3, <1>4
<1>6. \A i, j \in DOMAIN L : \A c \in L[i] : c \in L[j] => i = j
  BY <1>2, <1>3, <1>4
<1>7. \A c \in DOMAIN L \ {rootId} : \E i \in DOMAIN L : c \in L[i]
  <2> TAKE c \in DOMAIN L \ {rootId}
  <2>1. PICK i \in DOMAIN K : c \in K[i]
    BY DEF Linked
  <2> QED
    BY <1>3, <2>1
<1> QED
  BY <1>5, <1>6, <1>7 DEF Linked

-----------------------------------------------------------------------------
(* Balanced trees.                                                         *)

Typed(W) ==
    /\ DOMAIN W \subseteq Ids /\ rootId \in DOMAIN W
    /\ \A i \in DOMAIN W : W[i] \in Node /\ W[i].id = i

LEMMA TypedNode ==
    ASSUME NEW W, Typed(W), NEW i \in DOMAIN W
    PROVE  /\ W[i] \in Node /\ W[i].id = i /\ i \in Ids
           /\ W[i].values \in Seq(Tuple) /\ W[i].children \in Seq(Ids \ {rootId})
           /\ W[i].leaf \in BOOLEAN /\ Len(W[i].values) \in Nat /\ Len(W[i].children) \in Nat
BY NodeParts DEF Typed

LEMMA NobodyWeak == \A i : i \notin NoRepair /\ NoRepair \subseteq {i}
BY DEF NoRepair

\* The children of a node are nodes one level below it.
LEMMA ChildFacts ==
    ASSUME NEW W, NEW h, NEW weak, Balanced(W, h, weak), NEW i \in DOMAIN W,
           NEW c \in Range(W[i].children)
    PROVE  c \in DOMAIN W \ {rootId} /\ h[i] = h[c] + 1
<1>1. ChildSets(W)[i] = Range(W[i].children) /\ DOMAIN ChildSets(W) = DOMAIN W
  BY DEF ChildSets
<1> QED
  BY <1>1 DEF Balanced, Linked

\* A child at a position.
LEMMA ChildAt ==
    ASSUME NEW W, NEW h, NEW weak, Typed(W), Balanced(W, h, weak), NEW i \in DOMAIN W,
           NEW p \in Int, NEW c \in Child(W[i], p)
    PROVE  /\ c \in Range(W[i].children) /\ c \in DOMAIN W \ {rootId} /\ h[i] = h[c] + 1
           /\ p + 1 \in DOMAIN W[i].children /\ W[i].children[p + 1] = c
<1>1. p + 1 \in DOMAIN W[i].children /\ W[i].children[p + 1] = c
  BY DEF Child
<1>2. c \in Range(W[i].children)
  BY <1>1 DEF Range
<1> QED
  BY <1>1, <1>2, ChildFacts

LEMMA Heights ==
    ASSUME NEW W, NEW h, NEW weak, Typed(W), Balanced(W, h, weak)
    PROVE  h \in [Ids -> Nat] /\ \A i \in DOMAIN W : h[i] \in Nat
BY DEF Balanced, Typed

\* The leaves are the nodes at height 0.
LEMMA LeafHeight ==
    ASSUME NEW W, NEW h, NEW weak, Typed(W), Balanced(W, h, weak), NEW i \in DOMAIN W
    PROVE  W[i].leaf <=> h[i] = 0
<1>1. W[i].leaf => h[i] = 0
  BY DEF Balanced, NodeOK
<1>2. ASSUME ~W[i].leaf PROVE h[i] # 0
  <2>1. Len(W[i].children) = Len(W[i].values) + 1
    BY <1>2 DEF Balanced, NodeOK, Shaped
  <2>2. 1 \in DOMAIN W[i].children
    BY <2>1, TypedNode
  <2>3. W[i].children[1] \in Range(W[i].children)
    BY <2>2 DEF Range
  <2>4. W[i].children[1] \in DOMAIN W /\ h[i] = h[W[i].children[1]] + 1
    BY <2>3, ChildFacts
  <2> QED
    BY <2>4, Heights
<1> QED
  BY <1>1, <1>2

\* A node that no repair is due for is right whatever else is to be repaired.
LEMMA NodeStays ==
    ASSUME NEW n \in Node, NEW x, NEW weak, NodeOK(n, x, weak), n.id \notin weak, NEW other
    PROVE  NodeOK(n, x, other)
<1>1. Least(n, other) <= Least(n, weak) /\ Least(n, other) \in Int /\ Least(n, weak) \in Int
  BY Parameters DEF Least
<1> QED
  BY <1>1, NodeParts DEF NodeOK

\* U is W with n in the place of node i.
Replaces(U, W, i, n) ==
    DOMAIN U = DOMAIN W /\ U[i] = n /\ \A j \in DOMAIN W \ {i} : U[j] = W[j]

LEMMA Replacing ==
    \A W : \A i \in DOMAIN W : \A n : \E U : Replaces(U, W, i, n)
<1> TAKE W
<1> TAKE i \in DOMAIN W
<1> TAKE n
<1>1. Replaces([W EXCEPT ![i] = n], W, i, n)
  BY DEF Replaces
<1> QED
  BY <1>1

\* One node changes and keeps its children.
LEMMA Rewritten ==
    ASSUME NEW W, NEW h, NEW weak, Typed(W), Balanced(W, h, weak),
           NEW i \in DOMAIN W, NEW n, n.children = W[i].children, NEW other,
           weak \subseteq {i}, NodeOK(n, h[i], other), NEW U, Replaces(U, W, i, n)
    PROVE  Balanced(U, h, other)
<1>1. DOMAIN U = DOMAIN W /\ U[i] = n /\ \A j \in DOMAIN W \ {i} : U[j] = W[j]
  BY DEF Replaces
<1>2. ChildSets(U) = ChildSets(W)
  BY <1>1 DEF ChildSets
<1>3. ASSUME NEW j \in DOMAIN U PROVE NodeOK(U[j], h[j], other)
  <2>1. CASE j = i
    BY <1>1, <2>1
  <2>2. CASE j # i
    <3>1. j \in DOMAIN W /\ U[j] = W[j] /\ W[j] \in Node /\ W[j].id = j
      BY <1>1, <2>2, TypedNode
    <3>2. NodeOK(W[j], h[j], weak) /\ j \notin weak
      BY <2>2, <3>1 DEF Balanced
    <3> QED
      BY <3>1, <3>2, NodeStays
  <2> QED
    BY <2>1, <2>2
<1> QED
  BY <1>1, <1>2, <1>3 DEF Balanced

\* Only what a tree's nodes are matters.
LEMMA SameBalance ==
    ASSUME NEW W, NEW h, NEW weak, Balanced(W, h, weak),
           NEW U, DOMAIN U = DOMAIN W, \A i \in DOMAIN W : U[i] = W[i]
    PROVE  Balanced(U, h, weak)
<1>1. ChildSets(U) = ChildSets(W)
  BY DEF ChildSets
<1> QED
  BY <1>1 DEF Balanced

-----------------------------------------------------------------------------
(* Paths from the root.                                                    *)

\* A step down.
LEMMA TrailPush ==
    ASSUME NEW W, NEW h, NEW p \in Seq(deleteStep), NEW exact \in BOOLEAN, Trail(W, h, p, exact),
           NEW s \in deleteStep, s.visitedNode \in DOMAIN W,
           s.visitedNode \in Range(W[Final(p).visitedNode].children),
           h[Final(p).visitedNode] = h[s.visitedNode] + 1, h[s.visitedNode] \in Nat,
           h[rootId] \in Nat,
           exact => /\ s.positionInParent + 1 \in DOMAIN W[Final(p).visitedNode].children
                    /\ W[Final(p).visitedNode].children[s.positionInParent + 1] = s.visitedNode
    PROVE  Trail(W, h, Append(p, s), exact)
<1> DEFINE q == Append(p, s)
<1>1. Len(p) \in Nat /\ p # <<>> /\ Len(p) >= 1 /\ p[1].visitedNode = rootId
  BY DEF Trail
<1>2. /\ Len(q) = Len(p) + 1 /\ DOMAIN q = 1 .. Len(p) + 1 /\ q[Len(p) + 1] = s
      /\ \A k \in 1 .. Len(p) : q[k] = p[k]
  BY <1>1
<1> HIDE DEF q
<1>3. h[s.visitedNode] + Len(q) = h[rootId] + 1
  <2>1. h[Final(p).visitedNode] + Len(p) = h[rootId] + 1
    BY <1>1 DEF Trail, Final
  <2> DEFINE x == h[s.visitedNode]
             y == h[Final(p).visitedNode]
             z == h[rootId]
  <2>2. x \in Nat /\ z \in Nat /\ y = x + 1 /\ y + Len(p) = z + 1 /\ Len(p) \in Nat
    BY <1>1, <2>1
  <2> HIDE DEF x, y, z
  <2>3. x + (Len(p) + 1) = z + 1
    BY <2>2
  <2>4. x + Len(q) = z + 1
    BY <1>2, <2>3
  <2> QED
    BY <2>4 DEF x, z
<1>4. \A k \in DOMAIN q : /\ q[k].visitedNode \in DOMAIN W
                          /\ h[q[k].visitedNode] + k = h[rootId] + 1
  <2> TAKE k \in DOMAIN q
  <2>1. CASE k = Len(p) + 1
    BY <1>2, <1>3, <2>1
  <2>2. CASE k # Len(p) + 1
    BY <1>1, <1>2, <2>2 DEF Trail
  <2> QED
    BY <2>1, <2>2
<1>5. \A k \in 1 .. Len(q) - 1 : Descends(W, q, exact, k)
  <2> TAKE k \in 1 .. Len(q) - 1
  <2>1. CASE k = Len(p)
    <3>1. q[k] = Final(p) /\ q[k + 1] = s
      BY <1>1, <1>2, <2>1 DEF Final
    <3> QED
      BY <3>1 DEF Descends
  <2>2. CASE k # Len(p)
    <3>1. k \in 1 .. Len(p) - 1 /\ q[k] = p[k] /\ q[k + 1] = p[k + 1]
      BY <1>1, <1>2, <2>2
    <3> QED
      BY <3>1 DEF Descends, Trail
  <2> QED
    BY <2>1, <2>2
<1>6. q # <<>> /\ q[1].visitedNode = rootId
  BY <1>1, <1>2
<1>7. Trail(W, h, q, exact)
  BY <1>4, <1>5, <1>6 DEF Trail
<1> QED
  BY <1>7 DEF q

\* A step of Delete records where in its parent the node stands.
Stands(children, s) ==
    s.positionInParent + 1 \in DOMAIN children /\ children[s.positionInParent + 1] = s.visitedNode

NatHeights(W, h) == h[rootId] \in Nat /\ \A i \in DOMAIN W : h[i] \in Nat

\* A step up.
LEMMA TrailPop ==
    ASSUME NEW W, NEW h, NatHeights(W, h),
           NEW p \in Seq(deleteStep), p # <<>>, NEW s \in deleteStep,
           NEW exact \in BOOLEAN, Trail(W, h, Append(p, s), exact)
    PROVE  /\ Trail(W, h, p, exact)
           /\ s.visitedNode \in DOMAIN W /\ Final(p).visitedNode \in DOMAIN W
           /\ s.visitedNode \in Range(W[Final(p).visitedNode].children)
           /\ h[Final(p).visitedNode] = h[s.visitedNode] + 1
           /\ exact => Stands(W[Final(p).visitedNode].children, s)
<1> DEFINE q == Append(p, s)
<1>0. h[rootId] \in Nat /\ \A i \in DOMAIN W : h[i] \in Nat
  BY DEF NatHeights
<1>1. Len(p) \in Nat /\ Len(p) >= 1
  OBVIOUS
<1>2. /\ Len(q) = Len(p) + 1 /\ DOMAIN q = 1 .. Len(p) + 1 /\ q[Len(p) + 1] = s
      /\ \A k \in 1 .. Len(p) : q[k] = p[k]
  BY <1>1
<1>3. Trail(W, h, q, exact)
  OBVIOUS
<1> HIDE DEF q
<1>4. /\ q[1].visitedNode = rootId
      /\ \A k \in DOMAIN q : /\ q[k].visitedNode \in DOMAIN W
                             /\ h[q[k].visitedNode] + k = h[rootId] + 1
      /\ \A k \in 1 .. Len(q) - 1 : Descends(W, q, exact, k)
  BY <1>3 DEF Trail
<1>5. \A k \in 1 .. Len(p) - 1 : Descends(W, p, exact, k)
  <2> TAKE k \in 1 .. Len(p) - 1
  <2>1. k \in 1 .. Len(q) - 1 /\ q[k] = p[k] /\ q[k + 1] = p[k + 1]
    BY <1>1, <1>2
  <2>2. Descends(W, q, exact, k)
    BY <1>4, <2>1
  <2> QED
    BY <2>1, <2>2 DEF Descends
<1>6. \A k \in DOMAIN p : /\ p[k].visitedNode \in DOMAIN W
                          /\ h[p[k].visitedNode] + k = h[rootId] + 1
  BY <1>1, <1>2, <1>4
<1>7. Trail(W, h, p, exact)
  BY <1>1, <1>2, <1>4, <1>5, <1>6 DEF Trail
<1>8. q[Len(p)] = Final(p) /\ q[Len(p) + 1] = s /\ Len(p) \in 1 .. Len(q) - 1
  BY <1>1, <1>2 DEF Final
<1>9. Descends(W, q, exact, Len(p))
  BY <1>4, <1>8
<1>10. /\ s.visitedNode \in Range(W[Final(p).visitedNode].children)
       /\ exact => Stands(W[Final(p).visitedNode].children, s)
  BY <1>8, <1>9 DEF Descends, Stands
<1>11. s.visitedNode \in DOMAIN W /\ h[s.visitedNode] + (Len(p) + 1) = h[rootId] + 1
  BY <1>1, <1>2, <1>4
<1>12. Final(p).visitedNode \in DOMAIN W /\ h[Final(p).visitedNode] + Len(p) = h[rootId] + 1
  BY <1>1, <1>6 DEF Final
<1>13. h[Final(p).visitedNode] = h[s.visitedNode] + 1
  <2>1. h[s.visitedNode] \in Nat /\ h[Final(p).visitedNode] \in Nat
    BY <1>0, <1>11, <1>12
  <2> DEFINE x == h[s.visitedNode]
             y == h[Final(p).visitedNode]
             z == h[rootId]
  <2>2. /\ x \in Nat /\ y \in Nat /\ z \in Nat /\ Len(p) \in Nat
        /\ x + (Len(p) + 1) = z + 1 /\ y + Len(p) = z + 1
    BY <1>0, <1>1, <1>11, <1>12, <2>1
  <2> HIDE DEF x, y, z
  <2>3. y = x + 1
    BY <2>2
  <2> QED
    BY <2>3 DEF x, y
<1> QED
  BY <1>7, <1>10, <1>11, <1>12, <1>13

LEMMA TrailPopStands ==
    ASSUME NEW W, NEW h, NatHeights(W, h),
           NEW p \in Seq(deleteStep), p # <<>>, NEW s \in deleteStep,
           Trail(W, h, Append(p, s), TRUE)
    PROVE  Stands(W[Final(p).visitedNode].children, s)
BY TrailPop

\* Insert keeps no positions.
LEMMA TrailRenamed ==
    ASSUME NEW W, NEW h, NEW p \in Seq(deleteStep), NEW s \in deleteStep, NEW t \in deleteStep,
           t.visitedNode = s.visitedNode, NEW exact \in BOOLEAN, Trail(W, h, Append(p, s), exact)
    PROVE  Trail(W, h, Append(p, t), FALSE)
<1> DEFINE q == Append(p, s)
           r == Append(p, t)
<1>1. Trail(W, h, q, exact)
  OBVIOUS
<1>2. /\ Len(q) = Len(r) /\ DOMAIN q = DOMAIN r /\ q # <<>> /\ r # <<>>
      /\ Len(q) \in Nat /\ DOMAIN q = 1 .. Len(q) /\ Len(q) >= 1
      /\ \A k \in DOMAIN q : q[k].visitedNode = r[k].visitedNode
  <2>1. /\ Len(p) \in Nat /\ Len(q) = Len(p) + 1 /\ Len(r) = Len(p) + 1
        /\ DOMAIN q = 1 .. Len(p) + 1 /\ DOMAIN r = 1 .. Len(p) + 1
        /\ q[Len(p) + 1] = s /\ r[Len(p) + 1] = t
        /\ \A k \in 1 .. Len(p) : q[k] = p[k] /\ r[k] = p[k]
    OBVIOUS
  <2> HIDE DEF q, r
  <2>2. \A k \in DOMAIN q : q[k].visitedNode = r[k].visitedNode
    <3> TAKE k \in DOMAIN q
    <3>1. CASE k = Len(p) + 1
      BY <2>1, <3>1
    <3>2. CASE k # Len(p) + 1
      BY <2>1, <3>2
    <3> QED
      BY <3>1, <3>2
  <2> QED
    BY <2>1, <2>2
<1> HIDE DEF q, r
<1>3. \A k \in 1 .. Len(r) - 1 : Descends(W, r, FALSE, k)
  <2> TAKE k \in 1 .. Len(r) - 1
  <2>1. Descends(W, q, exact, k)
    BY <1>1, <1>2 DEF Trail
  <2>2. k \in DOMAIN q /\ k + 1 \in DOMAIN q
    BY <1>2
  <2>3. q[k].visitedNode = r[k].visitedNode /\ q[k + 1].visitedNode = r[k + 1].visitedNode
    BY <1>2, <2>2
  <2> QED
    BY <2>1, <2>3 DEF Descends
<1>4. /\ q[1].visitedNode = rootId
      /\ \A k \in DOMAIN q : /\ q[k].visitedNode \in DOMAIN W
                             /\ h[q[k].visitedNode] + k = h[rootId] + 1
  BY <1>1 DEF Trail
<1>5. r[1].visitedNode = rootId
  BY <1>2, <1>4
<1>6. \A k \in DOMAIN r : /\ r[k].visitedNode \in DOMAIN W
                          /\ h[r[k].visitedNode] + k = h[rootId] + 1
  BY <1>2, <1>4
<1>7. Trail(W, h, r, FALSE)
  BY <1>2, <1>3, <1>5, <1>6 DEF Trail
<1> QED
  BY <1>7 DEF r

\* Only the children of the nodes matter.
LEMMA SameTrail ==
    ASSUME NEW W, NEW h, NEW p, NEW exact, Trail(W, h, p, exact),
           NEW U, DOMAIN W \subseteq DOMAIN U, \A i \in DOMAIN W : U[i].children = W[i].children
    PROVE  Trail(U, h, p, exact)
<1>1. \A k \in DOMAIN p : p[k].visitedNode \in DOMAIN U
  BY DEF Trail
<1>2. \A k \in 1 .. Len(p) - 1 : Descends(U, p, exact, k)
  <2> TAKE k \in 1 .. Len(p) - 1
  <2>1. Descends(W, p, exact, k)
    BY DEF Trail
  <2>2. p[k].visitedNode \in DOMAIN W
    BY DEF Trail
  <2>3. U[p[k].visitedNode].children = W[p[k].visitedNode].children
    BY <2>2
  <2> QED
    BY <2>1, <2>3 DEF Descends
<1> QED
  BY <1>1, <1>2 DEF Trail

\* A change at or below the node last visited.
SameAbove(W, h, U, g, x) ==
    /\ x \in DOMAIN U /\ g[x] = h[x] /\ g[rootId] = h[rootId]
    /\ \A i \in DOMAIN W : h[i] > h[x] =>
          i \in DOMAIN U /\ U[i].children = W[i].children /\ g[i] = h[i]

LEMMA TrailAbove ==
    ASSUME NEW W, NEW h, NatHeights(W, h),
           NEW p \in Seq(deleteStep), NEW exact \in BOOLEAN, Trail(W, h, p, exact),
           NEW U, NEW g, SameAbove(W, h, U, g, Final(p).visitedNode)
    PROVE  Trail(U, g, p, exact)
<1> USE DEF NatHeights, SameAbove
<1>1. /\ Len(p) \in Nat /\ Len(p) >= 1 /\ p # <<>> /\ p[1].visitedNode = rootId
      /\ DOMAIN p = 1 .. Len(p)
      /\ \A k \in DOMAIN p : /\ p[k].visitedNode \in DOMAIN W
                             /\ h[p[k].visitedNode] + k = h[rootId] + 1
  BY DEF Trail
<1>2. \A k \in DOMAIN p : k # Len(p) => h[p[k].visitedNode] > h[p[Len(p)].visitedNode]
  <2> SUFFICES ASSUME NEW k \in DOMAIN p, k # Len(p)
               PROVE  h[p[k].visitedNode] > h[p[Len(p)].visitedNode]
    OBVIOUS
  <2>1. k \in Nat /\ k < Len(p) /\ Len(p) \in DOMAIN p
    BY <1>1
  <2>2. h[p[k].visitedNode] \in Nat /\ h[p[Len(p)].visitedNode] \in Nat
    BY <1>1, <2>1
  <2>3. h[p[k].visitedNode] + k = h[rootId] + 1 /\ h[p[Len(p)].visitedNode] + Len(p) = h[rootId] + 1
    BY <1>1, <2>1
  <2> QED
    BY <1>1, <2>1, <2>2, <2>3
<1>3. ASSUME NEW k \in DOMAIN p, k # Len(p)
      PROVE  LET i == p[k].visitedNode
             IN i \in DOMAIN U /\ U[i].children = W[i].children /\ g[i] = h[i]
  BY <1>1, <1>2, <1>3 DEF Final
<1>4. \A k \in DOMAIN p : /\ p[k].visitedNode \in DOMAIN U
                          /\ g[p[k].visitedNode] + k = g[rootId] + 1
  <2> TAKE k \in DOMAIN p
  <2>1. CASE k = Len(p)
    BY <1>1, <2>1 DEF Final
  <2>2. CASE k # Len(p)
    BY <1>1, <1>3, <2>2
  <2> QED
    BY <2>1, <2>2
<1>5. \A k \in 1 .. Len(p) - 1 : Descends(U, p, exact, k)
  <2> TAKE k \in 1 .. Len(p) - 1
  <2>1. k \in DOMAIN p /\ k # Len(p)
    BY <1>1
  <2>2. U[p[k].visitedNode].children = W[p[k].visitedNode].children
    BY <1>3, <2>1
  <2>3. Descends(W, p, exact, k)
    BY DEF Trail
  <2> QED
    BY <2>2, <2>3 DEF Descends
<1> QED
  BY <1>1, <1>4, <1>5 DEF Trail

-----------------------------------------------------------------------------
(* The calls an operation queues.                                          *)

LEMMA CallShapes ==
    /\ \A n : persist(n).call = "Persist" /\ persist(n).node = n
    /\ \A i : remove(i).call = "Remove" /\ remove(i).id = i
    /\ \A d : updateDepth(d).call = "SetDepth" /\ updateDepth(d).depth = d
BY DEF persist, remove, updateDepth

LEMMA LeadsNowhere ==
    ASSUME NEW N, NEW V, DOMAIN V = DOMAIN N, \A i \in DOMAIN N : V[i] = N[i]
    PROVE  Leads(N, <<>>, V) /\ Removes(<<>>) = {}
BY DEF Leads, Persists, Removes

LEMMA LeadsOne ==
    ASSUME NEW N, NEW V, NEW n, n.id \in Ids, Shaped(n),
           DOMAIN V = DOMAIN N \cup {n.id}, V[n.id] = n,
           \A i \in DOMAIN N \ {n.id} : V[i] = N[i]
    PROVE  Leads(N, <<persist(n)>>, V) /\ Removes(<<persist(n)>>) = {}
<1> DEFINE t == <<persist(n)>>
<1>1. DOMAIN t = {1} /\ t[1].call = "Persist" /\ t[1].node = n
  BY CallShapes
<1> HIDE DEF t
<1>2. Persists(t) = {n.id} /\ Removes(t) = {}
  BY <1>1 DEF Persists, Removes
<1>3. Leads(N, t, V)
  BY <1>1, <1>2 DEF Leads
<1> QED
  BY <1>2, <1>3 DEF t

LEMMA LeadsTwo ==
    ASSUME NEW N, NEW V, NEW n, NEW m, n.id \in Ids, m.id \in Ids, Shaped(n), Shaped(m),
           DOMAIN V = DOMAIN N \cup {n.id, m.id}, V[n.id] = n, V[m.id] = m,
           \A i \in DOMAIN N \ {n.id, m.id} : V[i] = N[i]
    PROVE  Leads(N, <<persist(n), persist(m)>>, V) /\ Removes(<<persist(n), persist(m)>>) = {}
<1> DEFINE t == <<persist(n), persist(m)>>
<1>1. /\ DOMAIN t = {1, 2} /\ t[1].call = "Persist" /\ t[1].node = n
      /\ t[2].call = "Persist" /\ t[2].node = m
  BY CallShapes
<1> HIDE DEF t
<1>2. Persists(t) = {n.id, m.id} /\ Removes(t) = {}
  BY <1>1 DEF Persists, Removes
<1>3. Leads(N, t, V)
  BY <1>1, <1>2 DEF Leads
<1> QED
  BY <1>2, <1>3 DEF t

LEMMA LeadsThree ==
    ASSUME NEW N, NEW V, NEW n, NEW m, NEW o, n.id \in Ids, m.id \in Ids, o.id \in Ids,
           Shaped(n), Shaped(m), Shaped(o),
           DOMAIN V = DOMAIN N \cup {n.id, m.id, o.id}, V[n.id] = n, V[m.id] = m, V[o.id] = o,
           \A i \in DOMAIN N \ {n.id, m.id, o.id} : V[i] = N[i]
    PROVE  /\ Leads(N, <<persist(n), persist(m), persist(o)>>, V)
           /\ Removes(<<persist(n), persist(m), persist(o)>>) = {}
<1> DEFINE t == <<persist(n), persist(m), persist(o)>>
<1>1. /\ DOMAIN t = {1, 2, 3} /\ t[1].call = "Persist" /\ t[1].node = n
      /\ t[2].call = "Persist" /\ t[2].node = m /\ t[3].call = "Persist" /\ t[3].node = o
  BY CallShapes
<1> HIDE DEF t
<1>2. Persists(t) = {n.id, m.id, o.id} /\ Removes(t) = {}
  BY <1>1 DEF Persists, Removes
<1>3. Leads(N, t, V)
  BY <1>1, <1>2 DEF Leads
<1> QED
  BY <1>2, <1>3 DEF t

LEMMA LeadsToSplitRoot ==
    ASSUME NEW N, NEW V, NEW n, NEW m, NEW o, NEW d, n.id \in Ids, m.id \in Ids, o.id \in Ids,
           Shaped(n), Shaped(m), Shaped(o),
           DOMAIN V = DOMAIN N \cup {n.id, m.id, o.id}, V[n.id] = n, V[m.id] = m, V[o.id] = o,
           \A i \in DOMAIN N \ {n.id, m.id, o.id} : V[i] = N[i]
    PROVE  /\ Leads(N, <<persist(n), persist(m), persist(o), updateDepth(d)>>, V)
           /\ Removes(<<persist(n), persist(m), persist(o), updateDepth(d)>>) = {}
<1> DEFINE t == <<persist(n), persist(m), persist(o), updateDepth(d)>>
<1>1. /\ DOMAIN t = {1, 2, 3, 4} /\ t[1].call = "Persist" /\ t[1].node = n
      /\ t[2].call = "Persist" /\ t[2].node = m /\ t[3].call = "Persist" /\ t[3].node = o
      /\ t[4].call = "SetDepth" /\ t[4].depth = d
  BY CallShapes
<1> HIDE DEF t
<1>2. Persists(t) = {n.id, m.id, o.id} /\ Removes(t) = {}
  BY <1>1 DEF Persists, Removes
<1>3. Leads(N, t, V)
  BY <1>1, <1>2 DEF Leads
<1> QED
  BY <1>2, <1>3 DEF t

LEMMA LeadsToMerge ==
    ASSUME NEW N, NEW V, NEW n, NEW m, NEW i, n.id \in Ids, m.id \in Ids, i \in Ids,
           Shaped(n), Shaped(m), i # n.id, i # m.id, i \in DOMAIN N,
           DOMAIN V = (DOMAIN N \cup {n.id, m.id}) \ {i}, V[n.id] = n, V[m.id] = m,
           \A j \in DOMAIN N \ {n.id, m.id, i} : V[j] = N[j]
    PROVE  LET t == <<persist(n), remove(i), persist(m)>>
           IN Leads(N, t, V) /\ Removes(t) = {i}
<1> DEFINE t == <<persist(n), remove(i), persist(m)>>
<1>1. /\ DOMAIN t = {1, 2, 3} /\ t[1].call = "Persist" /\ t[1].node = n
      /\ t[2].call = "Remove" /\ t[2].id = i /\ t[3].call = "Persist" /\ t[3].node = m
  BY CallShapes
<1> HIDE DEF t
<1>2. Persists(t) = {n.id, m.id} /\ Removes(t) = {i}
  BY <1>1 DEF Persists, Removes
<1>3. Leads(N, t, V)
  BY <1>1, <1>2 DEF Leads
<1> QED
  BY <1>2, <1>3 DEF t

LEMMA LeadsToCollapse ==
    ASSUME NEW N, NEW V, NEW n, NEW i, NEW j, n.id \in Ids, i \in Ids, j \in Ids,
           Shaped(n), i # n.id, j # n.id, i # j, i \in DOMAIN N, j \in DOMAIN N, NEW d,
           DOMAIN V = (DOMAIN N \cup {n.id}) \ {i, j}, V[n.id] = n,
           \A k \in DOMAIN N \ {n.id, i, j} : V[k] = N[k]
    PROVE  /\ Leads(N, <<remove(i), updateDepth(d), remove(j), persist(n)>>, V)
           /\ Removes(<<remove(i), updateDepth(d), remove(j), persist(n)>>) = {i, j}
<1> DEFINE t == <<remove(i), updateDepth(d), remove(j), persist(n)>>
<1>1. /\ DOMAIN t = {1, 2, 3, 4} /\ t[1].call = "Remove" /\ t[1].id = i
      /\ t[2].call = "SetDepth" /\ t[2].depth = d
      /\ t[3].call = "Remove" /\ t[3].id = j /\ t[4].call = "Persist" /\ t[4].node = n
  BY CallShapes
<1> HIDE DEF t
<1>2. Persists(t) = {n.id} /\ Removes(t) = {i, j}
  BY <1>1 DEF Persists, Removes
<1>3. Leads(N, t, V)
  BY <1>1, <1>2 DEF Leads
<1> QED
  BY <1>2, <1>3 DEF t

\* The depth that is set is the one that follows.
LEMMA DepthSet ==
    ASSUME NEW d, NEW top, d = top + 1, NEW e
    PROVE  /\ \A n, m, o : DepthOK(e, <<persist(n), persist(m), persist(o), updateDepth(d)>>, top)
           /\ \A n, i, j : DepthOK(e, <<remove(i), updateDepth(d), remove(j), persist(n)>>, top)
<1>1. ASSUME NEW n, NEW m, NEW o
      PROVE  DepthOK(e, <<persist(n), persist(m), persist(o), updateDepth(d)>>, top)
  <2> DEFINE t == <<persist(n), persist(m), persist(o), updateDepth(d)>>
  <2>1. /\ DOMAIN t = {1, 2, 3, 4} /\ t[1].call = "Persist" /\ t[2].call = "Persist"
        /\ t[3].call = "Persist" /\ t[4].call = "SetDepth" /\ t[4].depth = d
    BY CallShapes
  <2> HIDE DEF t
  <2>2. DepthOK(e, t, top)
    BY <2>1 DEF DepthOK
  <2> QED
    BY <2>2 DEF t
<1>2. ASSUME NEW n, NEW i, NEW j
      PROVE  DepthOK(e, <<remove(i), updateDepth(d), remove(j), persist(n)>>, top)
  <2> DEFINE t == <<remove(i), updateDepth(d), remove(j), persist(n)>>
  <2>1. /\ DOMAIN t = {1, 2, 3, 4} /\ t[1].call = "Remove" /\ t[2].call = "SetDepth"
        /\ t[2].depth = d /\ t[3].call = "Remove" /\ t[4].call = "Persist"
    BY CallShapes
  <2> HIDE DEF t
  <2>2. DepthOK(e, t, top)
    BY <2>1 DEF DepthOK
  <2> QED
    BY <2>2 DEF t
<1> QED
  BY <1>1, <1>2

\* The depth stays when no call sets it.
LEMMA DepthStays ==
    ASSUME NEW d, NEW top, d = top + 1
    PROVE  /\ DepthOK(d, <<>>, top)
           /\ \A n : DepthOK(d, <<persist(n)>>, top)
           /\ \A n, m : DepthOK(d, <<persist(n), persist(m)>>, top)
           /\ \A n, m, o : DepthOK(d, <<persist(n), persist(m), persist(o)>>, top)
           /\ \A n, i, m : DepthOK(d, <<persist(n), remove(i), persist(m)>>, top)
BY DEF DepthOK, persist, remove

-----------------------------------------------------------------------------
(* The invariant at a step of the operation's own code, ...                *)

Rests(h) ==
    /\ Typed(nodes) /\ h \in [Ids -> Nat]
    /\ treeDepth = depth /\ depth = h[rootId] + 1

LEMMA VisitedLast ==
    ASSUME IInv
    PROVE  /\ path \in Seq(deleteStep) /\ [visitedNode |-> cur.id, positionInParent |-> at] \in deleteStep
           /\ PushCur = Append(path, [visitedNode |-> cur.id, positionInParent |-> at])
           /\ PushCur \in Seq(deleteStep) /\ PushCur # <<>>
           /\ Len(PushCur) = Len(path) + 1 /\ Final(PushCur).visitedNode = cur.id
<1> DEFINE s == [visitedNode |-> cur.id, positionInParent |-> at]
<1>1. path \in Seq(deleteStep) /\ s \in deleteStep
  BY Parts, NodeParts DEF LocalsOK, PathOK, deleteStep
<1>2. PushCur = Append(path, s) /\ s.visitedNode = cur.id
  BY DEF PushCur
<1> HIDE DEF s
<1>3. /\ PushCur \in Seq(deleteStep) /\ PushCur # <<>>
      /\ Len(PushCur) = Len(path) + 1 /\ PushCur[Len(PushCur)] = s
  BY <1>1, <1>2
<1> QED
  BY <1>1, <1>2, <1>3 DEF Final, s

LEMMA Settled ==
    ASSUME IInv, Structure, faults = 0, pc # "panic", todo = <<>>
    PROVE  \E h : Rests(h) /\ Sound(nodes, h)
<1>1. PICK V, h : Sound(V, h)
  BY DEF Structure
<1>2. Leads(nodes, <<>>, V) /\ Ledger(V, <<>>, issued, fresh) /\ Current(V)
      /\ treeDepth = depth /\ DepthOK(depth, <<>>, h[rootId]) /\ Balanced(Grown(V), h, Weak)
  BY <1>1 DEF Sound
<1>3. Persists(<<>>) = {} /\ Removes(<<>>) = {}
  BY DEF Persists, Removes
<1>4. DOMAIN V = DOMAIN nodes /\ \A i \in DOMAIN nodes : V[i] = nodes[i]
  BY <1>2, <1>3 DEF Leads
<1>5. Leads(nodes, <<>>, nodes) /\ Ledger(nodes, <<>>, issued, fresh)
  BY <1>2, <1>4, LeadsNowhere DEF Ledger
<1>6. Current(nodes)
  BY <1>2, <1>4 DEF Current
<1>7. DOMAIN Grown(nodes) = DOMAIN Grown(V) /\ \A i \in DOMAIN Grown(V) : Grown(V)[i] = Grown(nodes)[i]
  BY <1>4 DEF Grown
<1>8. Balanced(Grown(nodes), h, Weak)
  BY <1>2, <1>7, SameBalance
<1>9. depth = h[rootId] + 1
  BY <1>2 DEF DepthOK
<1>10. \A p, exact : Trail(Grown(V), h, p, exact) => Trail(Grown(nodes), h, p, exact)
  <2> SUFFICES ASSUME NEW p, NEW exact, Trail(Grown(V), h, p, exact)
               PROVE  Trail(Grown(nodes), h, p, exact)
    OBVIOUS
  <2>1. \A k \in 1 .. Len(p) - 1 : p[k].visitedNode \in DOMAIN Grown(V)
    BY DEF Trail
  <2> QED
    BY <1>7, <2>1 DEF Trail, Descends
<1>11. Sound(nodes, h)
  BY <1>1, <1>2, <1>5, <1>6, <1>8, <1>10 DEF Sound
<1>12. Rests(h)
  <2>1. Typed(nodes)
    BY Parts DEF StorageOK, FitNodes, FitNode, Typed
  <2>2. h \in [Ids -> Nat]
    BY <1>8 DEF Balanced
  <2> QED
    BY <1>2, <1>9, <2>1, <2>2 DEF Rests
<1> QED
  BY <1>11, <1>12

LEMMA AtRest ==
    ASSUME IInv, Structure, faults = 0, pc \in {"idle", "get", "done"}, todo = <<>>
    PROVE  /\ fresh = <<>> /\ issued = DOMAIN nodes
           /\ pc = "get" => cur.id \in DOMAIN nodes /\ cur = nodes[cur.id]
           /\ \E h : Rests(h) /\ Balanced(nodes, h, NoRepair)
<1>1. PICK h : Rests(h) /\ Sound(nodes, h)
  BY Settled
<1>2. /\ Current(nodes) /\ Ledger(nodes, <<>>, issued, fresh) /\ Grown(nodes) = nodes
      /\ Weak = NoRepair /\ Balanced(Grown(nodes), h, Weak)
  BY <1>1 DEF Sound, Grown, Weak
<1>3. fresh = <<>> /\ Removes(<<>>) = {} /\ Range(<<>>) = {}
  BY <1>2 DEF Current, Removes, Range
<1> QED
  BY <1>1, <1>2, <1>3 DEF Current, Ledger

LEMMA AtDescent ==
    ASSUME IInv, Structure, faults = 0, pc \in {"insert", "delete", "pop"}, todo = <<>>
    PROVE  /\ fresh = <<>> /\ issued = DOMAIN nodes
           /\ cur.id \in DOMAIN nodes /\ cur = nodes[cur.id]
           /\ pc = "pop" => /\ path # <<>> /\ target.id \in DOMAIN nodes
                            /\ target = nodes[target.id] /\ ~target.leaf
           /\ \E h : /\ Rests(h) /\ Balanced(nodes, h, NoRepair)
                     /\ Trail(nodes, h, PushCur, pc # "insert")
<1>1. PICK h : Rests(h) /\ Sound(nodes, h)
  BY Settled
<1>2. /\ Current(nodes) /\ Ledger(nodes, <<>>, issued, fresh) /\ Grown(nodes) = nodes
      /\ Weak = NoRepair /\ Balanced(Grown(nodes), h, Weak) /\ Visited = PushCur
  BY <1>1 DEF Sound, Grown, Weak, Visited
<1>3. fresh = <<>> /\ Removes(<<>>) = {} /\ Range(<<>>) = {}
  BY <1>2 DEF Current, Removes, Range
<1>4. Trail(nodes, h, PushCur, pc # "insert")
  <2>1. Trail(Grown(nodes), h, Visited, pc \notin {"insert", "grow"})
    BY <1>1 DEF Sound
  <2>2. (pc \notin {"insert", "grow"}) = (pc # "insert")
    OBVIOUS
  <2> QED
    BY <1>2, <2>1, <2>2
<1>5. /\ cur.id \in DOMAIN nodes /\ cur = nodes[cur.id]
      /\ pc = "pop" => /\ path # <<>> /\ target.id \in DOMAIN nodes
                       /\ target = nodes[target.id] /\ ~target.leaf
  BY <1>2 DEF Current
<1>6. issued = DOMAIN nodes
  BY <1>2, <1>3 DEF Ledger
<1> QED
  BY <1>1, <1>2, <1>3, <1>4, <1>5, <1>6

LEMMA AtGrow ==
    ASSUME IInv, Structure, faults = 0, At("grow")
    PROVE  /\ Ledger(nodes, <<>>, issued, fresh)
           /\ fresh # <<>> => Full(cur)
           /\ cur.id \in DOMAIN nodes
           /\ \E h, W : /\ W = [nodes EXCEPT ![cur.id] = cur] /\ Typed(W)
                        /\ Rests(h) /\ Balanced(W, h, NoRepair)
                        /\ Trail(W, h, PushCur, FALSE)
<1>1. PICK h : Rests(h) /\ Sound(nodes, h)
  BY Settled DEF At
<1>2. pc = "grow" /\ todo = <<>>
  BY DEF At
<1>3. PICK W : W = [nodes EXCEPT ![cur.id] = cur]
  OBVIOUS
<1>4. /\ Current(nodes) /\ Ledger(nodes, <<>>, issued, fresh) /\ Grown(nodes) = W
      /\ Weak = NoRepair /\ Balanced(W, h, NoRepair) /\ Visited = PushCur
  BY <1>1, <1>2, <1>3 DEF Sound, Grown, Weak, Visited
<1>5. Trail(W, h, PushCur, FALSE)
  <2>1. Trail(Grown(nodes), h, Visited, pc \notin {"insert", "grow"})
    BY <1>1, <1>2 DEF Sound
  <2>2. (pc \notin {"insert", "grow"}) = FALSE
    BY <1>2
  <2> QED
    BY <1>4, <2>1, <2>2
<1>6. cur.id \in DOMAIN nodes /\ (fresh # <<>> => Full(cur))
  BY <1>2, <1>4 DEF Current
<1>7. Typed(W)
  <2>1. Typed(nodes)
    BY <1>1 DEF Rests
  <2>2. cur \in Node
    BY Parts DEF LocalsOK
  <2> QED
    BY <1>3, <1>6, <2>1, <2>2 DEF Typed
<1> QED
  BY <1>1, <1>3, <1>4, <1>5, <1>6, <1>7

LEMMA AtBalance ==
    ASSUME IInv, Structure, faults = 0, At("balance")
    PROVE  /\ fresh = <<>> /\ issued = DOMAIN nodes
           /\ \E h : /\ Rests(h) /\ Balanced(nodes, h, {Final(path).visitedNode})
                     /\ Trail(nodes, h, path, TRUE)
<1>1. PICK h : Rests(h) /\ Sound(nodes, h)
  BY Settled DEF At
<1>2. pc = "balance" /\ todo = <<>>
  BY DEF At
<1>3. /\ Current(nodes) /\ Ledger(nodes, <<>>, issued, fresh) /\ Grown(nodes) = nodes
      /\ Visited = path /\ Weak = {Final(path).visitedNode}
      /\ Balanced(Grown(nodes), h, Weak)
  BY <1>1, <1>2 DEF Sound, Grown, Weak, Visited
<1>4. fresh = <<>> /\ Removes(<<>>) = {} /\ Range(<<>>) = {}
  BY <1>2, <1>3 DEF Current, Removes, Range
<1>5. Trail(nodes, h, path, TRUE)
  <2>1. Trail(Grown(nodes), h, Visited, pc \notin {"insert", "grow"})
    BY <1>1, <1>2 DEF Sound
  <2>2. (pc \notin {"insert", "grow"}) = TRUE
    BY <1>2
  <2> QED
    BY <1>3, <2>1, <2>2
<1>6. issued = DOMAIN nodes
  BY <1>3, <1>4 DEF Ledger
<1> QED
  BY <1>1, <1>3, <1>4, <1>5, <1>6

LEMMA AtFix ==
    ASSUME IInv, Structure, faults = 0, At("fix")
    PROVE  /\ fresh = <<>> /\ issued = DOMAIN nodes
           /\ path # <<>> /\ cur.id \in DOMAIN nodes /\ cur = nodes[cur.id]
           /\ \E h : /\ Rests(h) /\ Balanced(nodes, h, {cur.id})
                     /\ Trail(nodes, h, PushCur, TRUE)
<1>1. PICK h : Rests(h) /\ Sound(nodes, h)
  BY Settled DEF At
<1>2. pc = "fix" /\ todo = <<>>
  BY DEF At
<1>3. /\ Current(nodes) /\ Ledger(nodes, <<>>, issued, fresh) /\ Grown(nodes) = nodes
      /\ Visited = PushCur /\ Weak = {Final(PushCur).visitedNode}
      /\ Balanced(Grown(nodes), h, Weak)
  BY <1>1, <1>2 DEF Sound, Grown, Weak, Visited
<1>4. fresh = <<>> /\ Removes(<<>>) = {} /\ Range(<<>>) = {}
  BY <1>2, <1>3 DEF Current, Removes, Range
<1>5. Trail(nodes, h, PushCur, TRUE)
  <2>1. Trail(Grown(nodes), h, Visited, pc \notin {"insert", "grow"})
    BY <1>1, <1>2 DEF Sound
  <2>2. (pc \notin {"insert", "grow"}) = TRUE
    BY <1>2
  <2> QED
    BY <1>3, <2>1, <2>2
<1>6. issued = DOMAIN nodes
  BY <1>3, <1>4 DEF Ledger
<1>7. Final(PushCur).visitedNode = cur.id
  BY VisitedLast
<1>8. path # <<>> /\ cur.id \in DOMAIN nodes /\ cur = nodes[cur.id]
  BY <1>2, <1>3 DEF Current
<1> QED
  BY <1>1, <1>3, <1>4, <1>5, <1>6, <1>7, <1>8

-----------------------------------------------------------------------------
(* ... and what establishes it after one.                                  *)

\* What all steps owe.
LEMMA ToAny ==
    ASSUME faults' = 0, pc' \notin {"error", "panic"}, NEW V, NEW h,
           Leads(nodes', todo', V), Ledger(V, todo', issued', fresh'),
           treeDepth' = depth', DepthOK(depth', todo', h[rootId]),
           Current(V)', Balanced(Grown(V)', h, Weak'),
           pc' \in {"insert", "grow", "delete", "pop", "balance", "fix"} =>
              Trail(Grown(V)', h, Visited', pc' \notin {"insert", "grow"})
    PROVE  Structure'
<1>1. Sound(V, h)'
  BY DEF Sound
<1>2. ~(faults' > 0)
  OBVIOUS
<1> QED
  BY <1>1, <1>2 DEF Structure

LEMMA ToRest ==
    ASSUME faults' = 0, pc' \in {"idle", "get", "done"}, NEW V, NEW h,
           Leads(nodes', todo', V), Ledger(V, todo', issued', fresh'),
           treeDepth' = depth', DepthOK(depth', todo', h[rootId]),
           Balanced(V, h, NoRepair), fresh' = <<>>,
           pc' # "done" => todo' = <<>>,
           pc' = "get" => cur'.id \in DOMAIN V /\ V[cur'.id] = cur'
    PROVE  Structure'
<1>1. Grown(V)' = V /\ Weak' = NoRepair
  BY DEF Grown, Weak
<1>2. Current(V)'
  BY DEF Current
<1> QED
  BY <1>1, <1>2, ToAny

LEMMA ToDescent ==
    ASSUME faults' = 0, pc' \in {"insert", "delete", "pop"}, NEW V, NEW h,
           Leads(nodes', todo', V), Ledger(V, todo', issued', fresh'),
           treeDepth' = depth', DepthOK(depth', todo', h[rootId]),
           Balanced(V, h, NoRepair), fresh' = <<>>, todo' = <<>>,
           cur'.id \in DOMAIN V, V[cur'.id] = cur',
           pc' = "pop" => target'.id \in DOMAIN V /\ V[target'.id] = target' /\ ~target'.leaf,
           pc' = "pop" => path' # <<>>,
           Trail(V, h, PushCur', pc' # "insert")
    PROVE  Structure'
<1>1. Grown(V)' = V /\ Weak' = NoRepair /\ Visited' = PushCur'
  BY DEF Grown, Weak, Visited
<1>2. Current(V)'
  BY DEF Current
<1>3. (pc' \notin {"insert", "grow"}) = (pc' # "insert")
  OBVIOUS
<1> QED
  BY <1>1, <1>2, <1>3, ToAny

LEMMA ToGrow ==
    ASSUME faults' = 0, pc' = "grow", NEW V, NEW h, NEW W, W = [V EXCEPT ![cur'.id] = cur'],
           Leads(nodes', todo', V), Ledger(V, todo', issued', fresh'),
           treeDepth' = depth', DepthOK(depth', todo', h[rootId]),
           cur'.id \in DOMAIN V, Balanced(W, h, NoRepair), fresh' # <<>> => Full(cur'),
           Trail(W, h, PushCur', FALSE)
    PROVE  Structure'
<1>1. Grown(V)' = W /\ Weak' = NoRepair /\ Visited' = PushCur'
  BY DEF Grown, Weak, Visited
<1>2. Current(V)'
  BY DEF Current
<1>3. (pc' \notin {"insert", "grow"}) = FALSE
  OBVIOUS
<1> QED
  BY <1>1, <1>2, <1>3, ToAny

LEMMA ToBalance ==
    ASSUME faults' = 0, pc' = "balance", NEW V, NEW h,
           Leads(nodes', todo', V), Ledger(V, todo', issued', fresh'),
           treeDepth' = depth', DepthOK(depth', todo', h[rootId]),
           Balanced(V, h, {Final(path').visitedNode}), fresh' = <<>>,
           Trail(V, h, path', TRUE)
    PROVE  Structure'
<1>1. Grown(V)' = V /\ Visited' = path' /\ Weak' = {Final(path').visitedNode}
  BY DEF Grown, Weak, Visited
<1>2. Current(V)'
  BY DEF Current
<1>3. (pc' \notin {"insert", "grow"}) = TRUE
  OBVIOUS
<1> QED
  BY <1>1, <1>2, <1>3, ToAny

LEMMA ToFix ==
    ASSUME faults' = 0, pc' = "fix", NEW V, NEW h,
           Leads(nodes', todo', V), Ledger(V, todo', issued', fresh'),
           treeDepth' = depth', DepthOK(depth', todo', h[rootId]),
           cur'.id \in DOMAIN V, V[cur'.id] = cur', path' # <<>>,
           Balanced(V, h, {cur'.id}), fresh' = <<>>,
           Trail(V, h, PushCur', TRUE), Final(PushCur').visitedNode = cur'.id
    PROVE  Structure'
<1>1. Grown(V)' = V /\ Visited' = PushCur' /\ Weak' = {cur'.id}
  BY DEF Grown, Weak, Visited
<1>2. Current(V)'
  BY DEF Current
<1>3. (pc' \notin {"insert", "grow"}) = TRUE
  OBVIOUS
<1> QED
  BY <1>1, <1>2, <1>3, ToAny

\* A step of the operation's own code.
LEMMA ComputeFacts ==
    ASSUME Compute, faults = 0
    PROVE  nodes' = nodes /\ issued' = issued /\ depth' = depth /\ treeDepth' = treeDepth
           /\ faults' = 0 /\ req' = req
BY DEF Compute

\* What is removed leaves the ledger.
LEMMA LessLedger ==
    ASSUME issued = DOMAIN nodes, NEW V, NEW t, DOMAIN V \cup Removes(t) = DOMAIN nodes
    PROVE  Ledger(V, t, issued, <<>>)
<1>1. Range(<<>>) = {} /\ IsInjective(<<>>)
  BY DEF Range, IsInjective
<1> QED
  BY <1>1 DEF Ledger

\* The nodes change and no id does.
LEMMA SameLedger ==
    ASSUME issued = DOMAIN nodes, NEW V, DOMAIN V = DOMAIN nodes, NEW t, Removes(t) = {}
    PROVE  Ledger(V, t, issued, <<>>)
BY DEF Ledger, Range, IsInjective

\* Nothing is queued and nothing changes.
LEMMA Unqueued ==
    ASSUME NEW h, Rests(h), issued = DOMAIN nodes, NEW t, t = <<>>
    PROVE  /\ Leads(nodes, t, nodes) /\ Ledger(nodes, t, issued, <<>>)
           /\ DepthOK(depth, t, h[rootId])
<1>1. Leads(nodes, <<>>, nodes) /\ Removes(<<>>) = {}
  BY LeadsNowhere
<1>2. Ledger(nodes, <<>>, issued, <<>>)
  BY <1>1, SameLedger
<1>3. DepthOK(depth, <<>>, h[rootId])
  BY DepthStays DEF Rests
<1> QED
  BY <1>1, <1>2, <1>3

-----------------------------------------------------------------------------
(* The beginning, the calls and returns, and Get.                          *)

LEMMA StructureInit == Init => Structure
<1> SUFFICES ASSUME Init PROVE Structure
  OBVIOUS
<1>1. /\ pc = "idle" /\ todo = <<>> /\ fresh = <<>> /\ faults = 0
      /\ treeDepth = depth /\ depth = 1 /\ issued = {rootId}
      /\ nodes = [i \in {rootId} |-> NoNode]
  BY DEF Init, Idle, StorageInit, NoNode
<1>2. /\ NoNode.id = rootId /\ NoNode.leaf = TRUE /\ NoNode.children = <<>>
      /\ NoNode.values = <<>>
  BY DEF NoNode, createNewNode
<1> HIDE DEF NoNode
<1>3. PICK h : h = [i \in Ids |-> 0]
  OBVIOUS
<1>4. Linked(ChildSets(nodes), h)
  BY <1>1, <1>2 DEF Linked, ChildSets, Range
<1>5. NodeOK(NoNode, 0, NoRepair)
  BY <1>2 DEF NoRepair, NodeOK, Shaped, Least, IsInjective
<1>6. DOMAIN nodes = {rootId} /\ nodes[rootId] = NoNode /\ h[rootId] = 0 /\ h \in [Ids -> Nat]
  BY <1>1, <1>3, RootAssumption
<1>7. Balanced(nodes, h, NoRepair)
  BY <1>4, <1>5, <1>6 DEF Balanced
<1>8. Leads(nodes, <<>>, nodes) /\ Removes(<<>>) = {}
  BY LeadsNowhere
<1>9. Ledger(nodes, <<>>, issued, <<>>)
  BY <1>1, <1>6, <1>8, SameLedger
<1>10. DepthOK(depth, <<>>, h[rootId])
  <2>1. depth = h[rootId] + 1
    BY <1>1, <1>6
  <2> QED
    BY <2>1, DepthStays
<1>11. Grown(nodes) = nodes /\ Weak = NoRepair /\ Current(nodes)
  BY <1>1 DEF Grown, Weak, Current
<1>12. Sound(nodes, h)
  BY <1>1, <1>7, <1>8, <1>9, <1>10, <1>11 DEF Sound
<1> QED
  BY <1>1, <1>12 DEF Structure

\* The root is the first node visited.
LEMMA TrailRoot ==
    ASSUME NEW W, NEW h, NEW s, s.visitedNode = rootId, rootId \in DOMAIN W,
           h[rootId] \in Nat, NEW exact
    PROVE  Trail(W, h, <<s>>, exact)
BY DEF Trail

LEMMA CallKeeps ==
    ASSUME IInv, Structure, faults = 0, NEW r \in Request, NEW l \in {"get", "insert", "delete"},
           Call(r, l)
    PROVE  Structure'
<1>1. /\ pc = "idle" /\ pc' = l /\ cur' = nodes[rootId]
      /\ UNCHANGED <<nodes, issued, depth, treeDepth, path, at, fresh, todo, faults>>
  BY DEF Call, Goto
<1>2. todo = <<>> /\ path = <<>>
  <2>1. PICK V, h : Current(V)
    BY <1>1 DEF Structure, Sound
  <2> QED
    BY <1>1, <2>1, Parts DEF Current, LocalsOK
<1>3. /\ fresh = <<>> /\ issued = DOMAIN nodes
      /\ \E h : Rests(h) /\ Balanced(nodes, h, NoRepair)
  BY <1>1, <1>2, AtRest
<1>4. PICK h : Rests(h) /\ Balanced(nodes, h, NoRepair)
  BY <1>3
<1>5. /\ Leads(nodes, todo, nodes) /\ Ledger(nodes, todo, issued, fresh)
      /\ DepthOK(depth, todo, h[rootId]) /\ treeDepth = depth
  BY <1>2, <1>3, <1>4, Unqueued DEF Rests
<1>6. nodes[rootId].id = rootId /\ rootId \in DOMAIN nodes /\ h[rootId] \in Nat
  BY <1>4, RootAssumption DEF Rests, Typed
<1>7. Trail(nodes, h, PushCur', pc' # "insert")
  <2> DEFINE s == [visitedNode |-> cur'.id, positionInParent |-> at']
  <2>1. PushCur' = <<s>> /\ s.visitedNode = rootId
    BY <1>1, <1>2, <1>6 DEF PushCur
  <2> HIDE DEF s
  <2> QED
    BY <1>6, <2>1, TrailRoot
<1>8. CASE l = "get"
  BY <1>1, <1>2, <1>3, <1>4, <1>5, <1>6, <1>8, ToRest
<1>9. CASE l # "get"
  BY <1>1, <1>2, <1>3, <1>4, <1>5, <1>6, <1>7, <1>9, ToDescent
<1> QED
  BY <1>8, <1>9

LEMMA ReturnKeeps == ASSUME IInv, Structure, faults = 0, Return PROVE Structure'
<1>1. /\ todo = <<>> /\ pc' = "idle" /\ fresh' = <<>>
      /\ UNCHANGED <<nodes, issued, depth, treeDepth, todo, faults>>
  BY DEF Return
<1>2. pc = "done"
  <2>1. pc \in {"done", "error"}
    BY DEF Return
  <2>2. PICK V, h : Current(V)
    BY <2>1 DEF Structure, Sound
  <2> QED
    BY <2>1, <2>2 DEF Current
<1>3. issued = DOMAIN nodes /\ \E h : Rests(h) /\ Balanced(nodes, h, NoRepair)
  BY <1>1, <1>2, AtRest
<1>4. PICK h : Rests(h) /\ Balanced(nodes, h, NoRepair)
  BY <1>3
<1>5. /\ Leads(nodes, todo, nodes) /\ Ledger(nodes, todo, issued, <<>>)
      /\ DepthOK(depth, todo, h[rootId]) /\ treeDepth = depth
  BY <1>1, <1>3, <1>4, Unqueued DEF Rests
<1> QED
  BY <1>1, <1>4, <1>5, ToRest

LEMMA GetKeeps == ASSUME IInv, Structure, faults = 0, Get PROVE Structure'
<1>1. /\ pc = "get" /\ todo = <<>> /\ todo' = todo /\ fresh' = fresh /\ Compute
      /\ pc' = "done" \/ GetDescend
  BY DEF Get, GetFound, GetNotFound, GetDescend, At, Finish, locals
<1>2. /\ fresh = <<>> /\ issued = DOMAIN nodes /\ cur.id \in DOMAIN nodes /\ cur = nodes[cur.id]
      /\ \E h : Rests(h) /\ Balanced(nodes, h, NoRepair)
  BY <1>1, AtRest
<1>3. PICK h : Rests(h) /\ Balanced(nodes, h, NoRepair)
  BY <1>2
<1>4. /\ Leads(nodes', todo', nodes) /\ Ledger(nodes, todo', issued', fresh') /\ faults' = 0
      /\ DepthOK(depth', todo', h[rootId]) /\ treeDepth' = depth' /\ todo' = <<>> /\ fresh' = <<>>
  BY <1>1, <1>2, <1>3, Unqueued, ComputeFacts DEF Rests
<1>5. CASE pc' = "done"
  BY <1>3, <1>4, <1>5, ToRest
<1>6. CASE GetDescend
  <2>1. PICK c : c \in DOMAIN nodes /\ cur' = nodes[c] /\ pc' = "get"
    BY <1>6 DEF GetDescend, Stores, Loaded, Goto
  <2>2. cur'.id = c
    BY <1>3, <2>1 DEF Rests, Typed
  <2> QED
    BY <1>3, <1>4, <2>1, <2>2, ToRest
<1> QED
  BY <1>1, <1>5, <1>6

-----------------------------------------------------------------------------
(* Insert.                                                                 *)

\* Other values for a node.
LEMMA ValuesOK ==
    ASSUME NEW n \in Node, NEW x, NEW weak, NodeOK(n, x, weak), NEW v \in Seq(Tuple), NEW other,
           ~n.leaf => Len(v) = Len(n.values),
           Len(v) >= Least(n, other)
    PROVE  LET m == [n EXCEPT !.values = v]
           IN /\ NodeOK(m, x, other) /\ Shaped(m) /\ m.children = n.children /\ m.leaf = n.leaf
              /\ m.id = n.id /\ m.values = v /\ m \in Node
<1> DEFINE m == [n EXCEPT !.values = v]
<1>1. /\ m.id = n.id /\ m.values = v /\ m.leaf = n.leaf /\ m.children = n.children
      /\ m \in Node
  BY DEF Node
<1> HIDE DEF m
<1>2. Shaped(n) /\ (n.leaf => x = 0) /\ IsInjective(n.children)
  BY DEF NodeOK
<1>3. Shaped(m)
  BY <1>1, <1>2 DEF Shaped
<1>4. Least(m, other) = Least(n, other)
  BY <1>1 DEF Least
<1>5. NodeOK(m, x, other)
  BY <1>1, <1>2, <1>3, <1>4 DEF NodeOK
<1> QED
  BY <1>1, <1>3, <1>5 DEF m

\* The least number of values of a node that no repair is due for.
LEMMA LeastBounds ==
    ASSUME NEW n \in Node, NEW x, NEW weak, NodeOK(n, x, weak), n.id \notin weak
    PROVE  /\ \A other : Least(n, other) <= Len(n.values)
           /\ \A other : Least(n, other) \in Int
           /\ n.id # rootId => Len(n.values) >= a - 1
           /\ ~n.leaf => Len(n.values) >= 1
           /\ \A other : n.id \in other \ {rootId} => Least(n, other) <= Len(n.values) - 1
           /\ \A other : n.leaf /\ n.id \in other => Least(n, other) <= Len(n.values) - 1 \/ n.id = rootId
<1>1. Len(n.values) \in Nat /\ Len(n.values) >= Least(n, weak) /\ n.leaf \in BOOLEAN
  BY NodeParts DEF NodeOK
<1> QED
  BY <1>1, Parameters DEF Least

\* One node is written, with the children it had.
LEMMA OneWrite ==
    ASSUME NEW h, Rests(h), issued = DOMAIN nodes, NEW weak, Balanced(nodes, h, weak),
           NEW i \in DOMAIN nodes, NEW n, n.id = i, n.children = nodes[i].children,
           NEW other, weak \subseteq {i}, NodeOK(n, h[i], other),
           NEW V, Replaces(V, nodes, i, n)
    PROVE  /\ Balanced(V, h, other)
           /\ Leads(nodes, <<persist(n)>>, V)
           /\ Ledger(V, <<persist(n)>>, issued, <<>>)
           /\ DepthOK(depth, <<persist(n)>>, h[rootId])
           /\ DOMAIN V = DOMAIN nodes /\ V[i] = n
           /\ \A j \in DOMAIN nodes : V[j].children = nodes[j].children
<1>1. Typed(nodes) /\ i \in Ids /\ Shaped(n) /\ depth = h[rootId] + 1
  BY DEF Rests, Typed, NodeOK
<1>2. Balanced(V, h, other)
  BY <1>1, Rewritten
<1>3. /\ DOMAIN V = DOMAIN nodes /\ V[i] = n
      /\ \A j \in DOMAIN nodes \ {i} : V[j] = nodes[j]
  BY DEF Replaces
<1>4. Leads(nodes, <<persist(n)>>, V) /\ Removes(<<persist(n)>>) = {}
  <2>1. n.id \in Ids /\ DOMAIN V = DOMAIN nodes \cup {n.id} /\ V[n.id] = n
    BY <1>1, <1>3
  <2>2. \A j \in DOMAIN nodes \ {n.id} : V[j] = nodes[j]
    BY <1>3
  <2> QED
    BY <1>1, <2>1, <2>2, LeadsOne
<1>5. Ledger(V, <<persist(n)>>, issued, <<>>)
  BY <1>3, <1>4, SameLedger
<1>6. DepthOK(depth, <<persist(n)>>, h[rootId])
  BY <1>1, DepthStays
<1>7. \A j \in DOMAIN nodes : V[j].children = nodes[j].children
  BY <1>3
<1> QED
  BY <1>2, <1>3, <1>4, <1>5, <1>6, <1>7

LEMMA InsertReplaceKeeps == ASSUME IInv, Structure, faults = 0, InsertReplace PROVE Structure'
<1>0. pc = "insert" /\ todo = <<>> /\ pc' = "done" /\ fresh' = fresh /\ Compute
  BY DEF InsertReplace, At, Finish, locals
<1>1. PICK p \in find(cur.values, req.key) :
         Found(cur.values, req.key, p) /\ todo' = <<persist(Replace(cur, p))>>
  BY DEF InsertReplace
<1>2. /\ fresh = <<>> /\ issued = DOMAIN nodes /\ cur.id \in DOMAIN nodes /\ cur = nodes[cur.id]
      /\ \E h : Rests(h) /\ Balanced(nodes, h, NoRepair)
  BY <1>0, AtDescent
<1>3. PICK h : Rests(h) /\ Balanced(nodes, h, NoRepair)
  BY <1>2
<1>4. Typed(nodes) /\ cur \in Node /\ cur.id \in Ids /\ NodeOK(cur, h[cur.id], NoRepair)
  BY <1>2, <1>3, NodeParts DEF Rests, Typed, Balanced
<1> DEFINE v == swap(cur.values, p, NewTuple)
<1>5. v \in Seq(Tuple) /\ Len(v) = Len(cur.values)
  <2>1. p \in Nat /\ p < Len(cur.values)
    BY <1>1, <1>4, NodeParts DEF find, Found
  <2> QED
    BY <1>0, <1>4, <2>1, NodeParts, NewTupleType, SwapTuples
<1>6. PICK n : n = [cur EXCEPT !.values = v]
  OBVIOUS
<1>7. n = Replace(cur, p)
  BY <1>6 DEF Replace
<1> HIDE DEF v
<1>8. NodeOK(n, h[cur.id], NoRepair) /\ Shaped(n) /\ n.children = cur.children /\ n.id = cur.id
  BY <1>4, <1>5, <1>6, ValuesOK, LeastBounds, NobodyWeak
<1>9. PICK i \in DOMAIN nodes :
         n.id = i /\ n.children = nodes[i].children /\ NoRepair \subseteq {i} /\ NodeOK(n, h[i], NoRepair)
  BY <1>2, <1>8, NobodyWeak
<1>10. PICK V : Replaces(V, nodes, i, n)
  BY Replacing
<1>11. /\ Balanced(V, h, NoRepair) /\ Leads(nodes, <<persist(n)>>, V)
       /\ Ledger(V, <<persist(n)>>, issued, <<>>)
       /\ DepthOK(depth, <<persist(n)>>, h[rootId])
  BY <1>2, <1>3, <1>9, <1>10, OneWrite
<1>12. todo' = <<persist(n)>> /\ treeDepth = depth
  BY <1>1, <1>3, <1>7 DEF Rests
<1> QED
  BY <1>0, <1>2, <1>11, <1>12, ComputeFacts, ToRest

LEMMA InsertLeafKeeps == ASSUME IInv, Structure, faults = 0, InsertLeaf PROVE Structure'
<1>0. /\ pc = "insert" /\ todo = <<>> /\ pc' = "grow" /\ fresh' = fresh /\ Compute
      /\ path' = path /\ at' = at /\ todo' = <<>> /\ cur.leaf
  BY DEF InsertLeaf, At, Goto
<1>1. PICK p \in find(cur.values, req.key) :
         cur' = [cur EXCEPT !.values = add(cur.values, NewTuple, p)]
  BY DEF InsertLeaf
<1>2. /\ fresh = <<>> /\ issued = DOMAIN nodes /\ cur.id \in DOMAIN nodes /\ cur = nodes[cur.id]
      /\ \E h : /\ Rests(h) /\ Balanced(nodes, h, NoRepair)
                /\ Trail(nodes, h, PushCur, pc # "insert")
  BY <1>0, AtDescent
<1>3. PICK h : /\ Rests(h) /\ Balanced(nodes, h, NoRepair)
               /\ Trail(nodes, h, PushCur, FALSE)
  BY <1>0, <1>2
<1>4. Typed(nodes) /\ cur \in Node /\ cur.id \in Ids /\ NodeOK(cur, h[cur.id], NoRepair)
  BY <1>2, <1>3, NodeParts DEF Rests, Typed, Balanced
<1> DEFINE v == add(cur.values, NewTuple, p)
<1>5. v \in Seq(Tuple) /\ Len(v) = Len(cur.values) + 1 /\ Len(cur.values) \in Nat
  BY <1>0, <1>4, NodeParts, NewTupleType, AddType
<1>6. PICK n : n = [cur EXCEPT !.values = v]
  OBVIOUS
<1>7. n = cur'
  BY <1>1, <1>6
<1> HIDE DEF v
<1>8. NodeOK(n, h[cur.id], NoRepair) /\ Shaped(n) /\ n.children = cur.children /\ n.id = cur.id
  <2>1. Len(v) >= Least(cur, NoRepair)
    BY <1>4, <1>5, LeastBounds, NobodyWeak
  <2> QED
    BY <1>0, <1>4, <1>5, <1>6, <2>1, ValuesOK
<1>9. PICK W : W = [nodes EXCEPT ![cur.id] = n]
  OBVIOUS
<1>10. Balanced(W, h, NoRepair)
  <2>1. PICK i \in DOMAIN nodes : /\ n.id = i /\ n.children = nodes[i].children
                                  /\ NoRepair \subseteq {i} /\ NodeOK(n, h[i], NoRepair)
                                  /\ Replaces(W, nodes, i, n)
    BY <1>2, <1>8, <1>9, NobodyWeak DEF Replaces
  <2> QED
    BY <1>2, <1>3, <2>1, OneWrite
<1>11. PushCur' = PushCur
  BY <1>0, <1>7, <1>8 DEF PushCur
<1>12. Trail(W, h, PushCur, FALSE)
  BY <1>2, <1>3, <1>8, <1>9, SameTrail
<1>13. /\ Leads(nodes, todo', nodes) /\ Ledger(nodes, todo', issued, fresh')
       /\ DepthOK(depth, todo', h[rootId])
  BY <1>0, <1>2, <1>3, Unqueued
<1>14. cur'.id \in DOMAIN nodes /\ W = [nodes EXCEPT ![cur'.id] = cur'] /\ fresh' = <<>>
  BY <1>0, <1>2, <1>7, <1>8, <1>9
<1> QED
  BY <1>0, <1>3, <1>10, <1>11, <1>12, <1>13, <1>14, ComputeFacts, ToGrow DEF Rests

\* The descents go on at a child.
LEMMA Descent ==
    ASSUME IInv, NEW h, Rests(h), NEW weak, Balanced(nodes, h, weak), cur.id \in DOMAIN nodes,
           cur = nodes[cur.id],
           NEW q \in Seq(deleteStep), NEW exact \in BOOLEAN, Trail(nodes, h, q, exact),
           Final(q).visitedNode = cur.id,
           NEW p \in Int, NEW c \in Child(cur, p), NEW i \in Nat, exact => i = p
    PROVE  /\ c \in DOMAIN nodes /\ nodes[c].id = c
           /\ Trail(nodes, h, Append(q, [visitedNode |-> c, positionInParent |-> i]), exact)
<1> DEFINE s == [visitedNode |-> c, positionInParent |-> i]
<1>1. Typed(nodes) /\ h \in [Ids -> Nat]
  BY DEF Rests
<1>2. PICK j \in DOMAIN nodes : j = cur.id /\ cur = nodes[j] /\ c \in Child(nodes[j], p)
  OBVIOUS
<1>3. /\ c \in Range(nodes[j].children) /\ c \in DOMAIN nodes /\ h[j] = h[c] + 1
      /\ p + 1 \in DOMAIN nodes[j].children /\ nodes[j].children[p + 1] = c
  BY <1>1, <1>2, ChildAt
<1>4. c \in Ids /\ nodes[c].id = c /\ h[c] \in Nat /\ h[rootId] \in Nat
  BY <1>1, <1>3, RootAssumption DEF Typed
<1>5. s \in deleteStep /\ s.visitedNode = c /\ s.positionInParent = i
  BY <1>4 DEF deleteStep
<1> HIDE DEF s
<1>6. Trail(nodes, h, Append(q, s), exact)
  BY <1>2, <1>3, <1>4, <1>5, TrailPush
<1> QED
  BY <1>3, <1>4, <1>6 DEF s

LEMMA InsertDescendKeeps == ASSUME IInv, Structure, faults = 0, InsertDescend PROVE Structure'
<1>0. /\ pc = "insert" /\ todo = <<>> /\ pc' = "insert" /\ fresh' = fresh /\ Compute
      /\ at' = at /\ todo' = <<>>
      /\ path' = Append(path, [visitedNode |-> cur.id, positionInParent |-> 0])
  BY DEF InsertDescend, At, Goto
<1>p. PICK p \in find(cur.values, req.key) : \E c \in Child(cur, p) : cur' = nodes[c]
  BY DEF InsertDescend
<1>1. PICK c \in Child(cur, p) : cur' = nodes[c]
  BY <1>p
<1>2. /\ fresh = <<>> /\ issued = DOMAIN nodes /\ cur.id \in DOMAIN nodes /\ cur = nodes[cur.id]
      /\ \E h : /\ Rests(h) /\ Balanced(nodes, h, NoRepair)
                /\ Trail(nodes, h, PushCur, pc # "insert")
  BY <1>0, AtDescent
<1>3. PICK h : /\ Rests(h) /\ Balanced(nodes, h, NoRepair)
               /\ Trail(nodes, h, PushCur, FALSE)
  BY <1>0, <1>2
<1> DEFINE s == [visitedNode |-> cur.id, positionInParent |-> at]
           t == [visitedNode |-> cur.id, positionInParent |-> 0]
<1>4. /\ path \in Seq(deleteStep) /\ s \in deleteStep /\ t \in deleteStep
      /\ s.visitedNode = t.visitedNode /\ PushCur = Append(path, s) /\ path' = Append(path, t)
      /\ t.visitedNode = cur.id
  <2>1. path \in Seq(deleteStep) /\ s \in deleteStep /\ PushCur = Append(path, s)
    BY VisitedLast
  <2> QED
    BY <1>0, <2>1 DEF deleteStep
<1> HIDE DEF s, t
<1>5. Trail(nodes, h, path', FALSE)
  BY <1>3, <1>4, TrailRenamed
<1>6. path' \in Seq(deleteStep) /\ Final(path').visitedNode = cur.id
  BY <1>4 DEF Final
<1>7. p \in Int /\ at \in Nat
  BY Parts DEF find, LocalsOK
<1>8. /\ c \in DOMAIN nodes /\ nodes[c].id = c
      /\ Trail(nodes, h, Append(path', [visitedNode |-> c, positionInParent |-> at]), FALSE)
  BY <1>2, <1>3, <1>5, <1>6, <1>7, Descent
<1>9. Trail(nodes, h, PushCur', pc' # "insert")
  BY <1>0, <1>1, <1>8 DEF PushCur
<1>10. /\ Leads(nodes, todo', nodes) /\ Ledger(nodes, todo', issued, fresh')
       /\ DepthOK(depth, todo', h[rootId]) /\ treeDepth = depth
  BY <1>0, <1>2, <1>3, Unqueued DEF Rests
<1>11. cur'.id \in DOMAIN nodes /\ nodes[cur'.id] = cur' /\ fresh' = <<>>
  BY <1>0, <1>1, <1>2, <1>8
<1> QED
  BY <1>0, <1>3, <1>9, <1>10, <1>11, ComputeFacts, ToDescent

LEMMA InsertPersistKeeps == ASSUME IInv, Structure, faults = 0, InsertPersist PROVE Structure'
<1>0. /\ At("grow") /\ pc' = "done" /\ todo' = <<persist(cur)>> /\ fresh' = fresh /\ Compute
      /\ ~Full(cur)
  BY DEF InsertPersist, Finish, locals
<1>1. /\ Ledger(nodes, <<>>, issued, fresh)
      /\ fresh # <<>> => Full(cur)
      /\ cur.id \in DOMAIN nodes
      /\ \E h, W : /\ W = [nodes EXCEPT ![cur.id] = cur] /\ Typed(W)
                   /\ Rests(h) /\ Balanced(W, h, NoRepair)
                   /\ Trail(W, h, PushCur, FALSE)
  BY <1>0, AtGrow
<1>2. PICK h, W : /\ W = [nodes EXCEPT ![cur.id] = cur] /\ Typed(W)
                  /\ Rests(h) /\ Balanced(W, h, NoRepair)
  BY <1>1
<1>3. fresh = <<>> /\ issued = DOMAIN nodes
  <2>1. fresh = <<>> /\ Removes(<<>>) = {} /\ Range(<<>>) = {}
    BY <1>0, <1>1 DEF Removes, Range
  <2> QED
    BY <1>1, <2>1 DEF Ledger
<1>4. Replaces(W, nodes, cur.id, cur)
  BY <1>1, <1>2 DEF Replaces
<1>5. cur.id \in Ids /\ Shaped(cur)
  <2>1. W[cur.id] = cur /\ cur.id \in DOMAIN W
    BY <1>1, <1>2
  <2> QED
    BY <1>2, <2>1 DEF Typed, Balanced, NodeOK
<1>6. Leads(nodes, <<persist(cur)>>, W) /\ Removes(<<persist(cur)>>) = {}
  <2>1. DOMAIN W = DOMAIN nodes \cup {cur.id} /\ W[cur.id] = cur
    BY <1>1, <1>4 DEF Replaces
  <2>2. \A j \in DOMAIN nodes \ {cur.id} : W[j] = nodes[j]
    BY <1>4 DEF Replaces
  <2> QED
    BY <1>5, <2>1, <2>2, LeadsOne
<1>7. Ledger(W, todo', issued, <<>>)
  BY <1>0, <1>3, <1>4, <1>6, SameLedger DEF Replaces
<1>8. DepthOK(depth, todo', h[rootId]) /\ treeDepth = depth
  BY <1>0, <1>2, DepthStays DEF Rests
<1> QED
  BY <1>0, <1>2, <1>3, <1>6, <1>7, <1>8, ComputeFacts, ToRest

LEMMA InsertNewIdKeeps == ASSUME IInv, Structure, faults = 0, InsertNewId PROVE Structure'
<1>0. /\ At("grow") /\ todo = <<>> /\ Full(cur) /\ pc' = "grow"
      /\ UNCHANGED <<nodes, depth, treeDepth, faults, cur, path, at, todo>>
  BY DEF InsertNewId, Goto, At
<1>1. PICK id \in NextIds(issued) : issued' = issued \cup {id} /\ fresh' = Append(fresh, id)
  BY DEF InsertNewId
<1>2. id \in Ids /\ id \notin issued /\ id # rootId
  BY <1>1, Parts, NextIdsAssumption DEF StorageOK
<1>3. /\ Ledger(nodes, <<>>, issued, fresh)
      /\ cur.id \in DOMAIN nodes
      /\ \E h, W : /\ W = [nodes EXCEPT ![cur.id] = cur] /\ Typed(W)
                   /\ Rests(h) /\ Balanced(W, h, NoRepair)
                   /\ Trail(W, h, PushCur, FALSE)
  BY <1>0, AtGrow
<1>4. PICK h, W : /\ W = [nodes EXCEPT ![cur.id] = cur]
                  /\ Rests(h) /\ Balanced(W, h, NoRepair)
                  /\ Trail(W, h, PushCur, FALSE)
  BY <1>3
<1>5. Ledger(nodes, <<>>, issued', fresh')
  <2>1. Removes(<<>>) = {} /\ fresh \in Seq(Ids \ {rootId}) /\ id \in Ids \ {rootId}
    BY <1>2, Parts DEF Removes, LocalsOK
  <2>2. Range(fresh') = Range(fresh) \cup {id} /\ (IsInjective(fresh) /\ id \notin Range(fresh) => IsInjective(fresh'))
    BY <1>1, <2>1, AppendElements
  <2>3. /\ issued = DOMAIN nodes \cup Range(fresh) /\ Range(fresh) \cap DOMAIN nodes = {}
        /\ IsInjective(fresh)
    BY <1>3, <2>1 DEF Ledger
  <2>4. /\ issued' = DOMAIN nodes \cup Range(fresh') /\ Range(fresh') \cap DOMAIN nodes = {}
        /\ IsInjective(fresh')
    BY <1>1, <1>2, <2>2, <2>3
  <2> QED
    BY <2>1, <2>4 DEF Ledger
<1>6. Leads(nodes, <<>>, nodes)
  BY LeadsNowhere
<1>7. DepthOK(depth, <<>>, h[rootId]) /\ treeDepth = depth
  BY <1>4, DepthStays DEF Rests
<1>8. PushCur' = PushCur
  BY <1>0 DEF PushCur
<1> QED
  BY <1>0, <1>3, <1>4, <1>5, <1>6, <1>7, <1>8, ToGrow

\* A node is split only where b is odd and it is full; its halves are disjoint.
LEMMA SplitShapes ==
    ASSUME NEW n \in Node, SplitInRange(n), Len(n.values) <= b, NEW x, NEW weak, NodeOK(n, x, weak),
           NEW id \in Ids
    PROVE  LET new == SplitNew(n, id)
               old == SplitOld(n)
           IN /\ new.id = id /\ new.leaf = n.leaf /\ Shaped(new) /\ IsInjective(new.children)
              /\ old.id = n.id /\ old.leaf = n.leaf /\ Shaped(old) /\ IsInjective(old.children)
              /\ Len(new.values) >= a - 1 /\ Len(old.values) >= a - 1
              /\ ~n.leaf => Len(new.values) >= 1 /\ Len(old.values) >= 1
              /\ Range(new.children) \cup Range(old.children) = Range(n.children)
              /\ Range(new.children) \cap Range(old.children) = {}
              /\ new \in Node /\ old \in Node /\ SplitMiddle(n) \in Tuple
<1> DEFINE new == SplitNew(n, id)
           old == SplitOld(n)
           m == middleIndex
           k == n.children
           leftValues == SubSeq(n.values, 1, m)
           rightValues == SubSeq(n.values, m + 2, 2 * m + 1)
           left == SubSeq(k, 1, m + 1)
           part == SubSeq(k, m + 2, 2 * m + 1)
           last == k[b + 1]
           right == Append(part, last)
<1>1. /\ new \in Node /\ old \in Node /\ SplitMiddle(n) \in Tuple /\ new.id = id /\ old.id = n.id
  BY SplitFits DEF FitNode
<1>2. /\ new.leaf = n.leaf /\ old.leaf = n.leaf
      /\ new.values = leftValues /\ old.values = rightValues
      /\ n.leaf => new.children = <<>> /\ old.children = k
      /\ ~n.leaf => new.children = left /\ old.children = right
  BY DEF SplitNew, SplitOld, createNewNode, Node
<1>3. /\ n.values \in Seq(Tuple) /\ k \in Seq(Ids \ {rootId}) /\ Len(n.values) \in Nat /\ Len(k) \in Nat
      /\ n.leaf \in BOOLEAN
  BY NodeParts
<1>4. /\ Shaped(n) /\ IsInjective(k)
  BY DEF NodeOK
<1>5. m \in Nat /\ b \in Nat /\ a \in Nat /\ 2 * m <= b /\ Len(n.values) > 2 * m /\ (b = 2 * m \/ b = 2 * m + 1)
      /\ b >= 2 * a - 1
  BY Parameters DEF SplitInRange, middleIndex
<1> HIDE DEF new, old, m, k
<1>6. b = 2 * m + 1 /\ Len(n.values) = b /\ m >= a - 1 /\ m >= 1
  BY <1>3, <1>5, Parameters
<1>7. Len(leftValues) = m /\ Len(rightValues) = m
  <2>1. Len(leftValues) = m - 1 + 1
    BY <1>3, <1>5, <1>6, PartOf
  <2>2. Len(rightValues) = (2 * m + 1) - (m + 2) + 1
    BY <1>3, <1>5, <1>6, PartOf
  <2> QED
    BY <1>5, <2>1, <2>2
<1>8. Len(new.values) = m /\ Len(old.values) = m
  BY <1>2, <1>7
<1>9. CASE n.leaf
  <2>1. k = <<>> /\ new.children = <<>> /\ old.children = <<>>
    BY <1>2, <1>4, <1>9 DEF Shaped, k
  <2>2. Shaped(new) /\ Shaped(old)
    BY <1>2, <1>9, <2>1 DEF Shaped
  <2>3. Range(new.children) = {} /\ Range(old.children) = {} /\ Range(k) = {}
    BY <2>1 DEF Range
  <2>4. IsInjective(new.children) /\ IsInjective(old.children)
    BY <2>1 DEF IsInjective
  <2> QED
    BY <1>1, <1>2, <1>5, <1>6, <1>8, <1>9, <2>2, <2>3, <2>4 DEF new, old, k
<1>10. CASE ~n.leaf
  <2>1. Len(k) = 2 * m + 2 /\ DOMAIN k = 1 .. 2 * m + 2
    BY <1>3, <1>4, <1>5, <1>6, <1>10 DEF Shaped, k
  <2>2. \A i, j \in 1 .. 2 * m + 2 : k[i] = k[j] => i = j
    BY <1>4, <2>1 DEF IsInjective
  <2>3. /\ left \in Seq(Ids \ {rootId}) /\ Len(left) = m + 1
        /\ Range(left) = {k[j] : j \in 1 .. m + 1} /\ IsInjective(left)
    <3>1. m + 1 \in Int /\ 1 \in Int /\ m + 1 <= Len(k) /\ m + 1 >= 1 - 1 /\ (m + 1) - 1 + 1 = m + 1 /\ 1 >= 1
      BY <1>5, <2>1
    <3>2. left \in Seq(Ids \ {rootId}) /\ Len(left) = (m + 1) - 1 + 1
      BY <1>3, <3>1, PartOf
    <3>3. Range(left) = {k[j] : j \in 1 .. m + 1} /\ IsInjective(left)
      BY <1>3, <1>4, <3>1, PartElements
    <3> QED
      BY <3>1, <3>2, <3>3
  <2>4. /\ part \in Seq(Ids \ {rootId}) /\ Len(part) = m
        /\ Range(part) = {k[j] : j \in m + 2 .. 2 * m + 1} /\ IsInjective(part)
    <3>1. /\ m + 2 \in Int /\ 2 * m + 1 \in Int /\ 2 * m + 1 <= Len(k) /\ 2 * m + 1 >= (m + 2) - 1
          /\ (2 * m + 1) - (m + 2) + 1 = m /\ m + 2 >= 1
      BY <1>5, <2>1
    <3>2. part \in Seq(Ids \ {rootId}) /\ Len(part) = (2 * m + 1) - (m + 2) + 1
      BY <1>3, <3>1, PartOf, SMTT(30)
    <3> DEFINE lo == m + 2
               hi == 2 * m + 1
    <3>3. lo \in Int /\ hi \in Int /\ lo >= 1 /\ hi <= Len(k) /\ hi >= lo - 1 /\ part = SubSeq(k, lo, hi)
      BY <3>1
    <3> HIDE DEF lo, hi, part
    <3>5. IsInjective(k) => IsInjective(SubSeq(k, lo, hi))
      BY <1>3, <3>3, PartElements
    <3>6. Range(SubSeq(k, lo, hi)) = {k[j] : j \in lo .. hi}
      BY <1>3, <3>3, PartElements
    <3>4. Range(part) = {k[j] : j \in lo .. hi} /\ IsInjective(part)
      BY <1>4, <3>3, <3>5, <3>6
    <3> USE DEF lo, hi
    <3> QED
      BY <3>1, <3>2, <3>4
  <2>5. last = k[2 * m + 2] /\ last \in Ids \ {rootId}
    BY <1>3, <1>5, <1>6, <2>1
  <2> HIDE DEF left, part, last
  <2>6. last \notin Range(part) /\ last \notin Range(left)
    BY <1>5, <2>2, <2>3, <2>4, <2>5
  <2>7. /\ right \in Seq(Ids \ {rootId}) /\ Len(right) = m + 1
        /\ Range(right) = Range(part) \cup {last} /\ IsInjective(right)
    BY <2>4, <2>5, <2>6, AppendElements
  <2>8. Range(k) = {k[j] : j \in 1 .. 2 * m + 2}
    BY <2>1 DEF Range
  <2> HIDE DEF right
  <2>9. Range(left) \cap Range(right) = {}
    BY <1>5, <2>2, <2>3, <2>4, <2>6, <2>7
  <2>10. Range(left) \cup Range(right) = Range(k)
    <3>1. ASSUME NEW j \in 1 .. 2 * m + 2 PROVE k[j] \in Range(left) \cup Range(right)
      <4>1. j \in 1 .. m + 1 \/ j \in m + 2 .. 2 * m + 1 \/ j = 2 * m + 2
        BY <1>5
      <4> QED
        BY <2>3, <2>4, <2>5, <2>7, <4>1
    <3>2. Range(left) \subseteq Range(k)
      BY <1>5, <2>3, <2>8
    <3>3. Range(right) \subseteq Range(k)
      BY <1>5, <2>4, <2>5, <2>7, <2>8
    <3> QED
      BY <2>8, <3>1, <3>2, <3>3
  <2>11. Shaped(new) /\ Shaped(old)
    BY <1>2, <1>8, <1>10, <2>3, <2>7 DEF Shaped
  <2> QED
    BY <1>1, <1>2, <1>5, <1>6, <1>8, <1>10, <2>3, <2>7, <2>9, <2>10, <2>11 DEF new, old, k
<1> QED
  BY <1>3, <1>9, <1>10

SplitInto(W, U, x, p, y) ==
    DOMAIN U = DOMAIN W \cup {y} /\ \A j \in DOMAIN W \ {x, p} : U[j] = W[j]

\* The parent gets the new half as another child.
LEMMA SplitBelow ==
    ASSUME NEW W, NEW h, Typed(W), Balanced(W, h, NoRepair), NEW x \in DOMAIN W, NEW p \in DOMAIN W,
           x \in Range(W[p].children), NEW y \in Ids, y # rootId, y \notin DOMAIN W,
           NEW U, SplitInto(W, U, x, p, y),
           NodeOK(U[x], h[x], NoRepair), NodeOK(U[y], h[x], NoRepair), NodeOK(U[p], h[p], NoRepair),
           Range(U[y].children) \cup Range(U[x].children) = Range(W[x].children),
           Range(U[y].children) \cap Range(U[x].children) = {},
           Range(U[p].children) = Range(W[p].children) \cup {y},
           NEW g \in [Ids -> Nat], g[y] = h[x], SameHeights(DOMAIN W, h, g)
    PROVE  Balanced(U, g, NoRepair)
<1>1. x \in Ids /\ h[x] \in Nat /\ h \in [Ids -> Nat] /\ \A j \in DOMAIN W : h[j] \in Nat /\ j \in Ids
  BY Heights DEF Typed
<1> USE DEF SplitInto, SameHeights
<1>2. g \in [Ids -> Nat] /\ g[y] = h[x] /\ \A j \in DOMAIN W : g[j] = h[j]
  OBVIOUS
<1>3. ASSUME NEW j \in DOMAIN U PROVE NodeOK(U[j], g[j], NoRepair)
  <2>1. CASE j \in {x, y, p}
    BY <1>2, <2>1
  <2>2. CASE j \notin {x, y, p}
    BY <1>2, <2>2 DEF Balanced
  <2> QED
    BY <2>1, <2>2
<1> DEFINE K == ChildSets(W)
           L == ChildSets(U)
<1>4. /\ DOMAIN K = DOMAIN W /\ DOMAIN L = DOMAIN U
      /\ \A j \in DOMAIN W : K[j] = Range(W[j].children)
      /\ \A j \in DOMAIN U : L[j] = Range(U[j].children)
  BY DEF ChildSets
<1>5. Linked(K, h)
  BY DEF Balanced
<1> HIDE DEF K, L
<1>6. SplitsOff(K, L, x, p, y)
  BY <1>4 DEF SplitsOff
<1>7. SameHeights(DOMAIN K, h, g)
  BY <1>1, <1>2, <1>4 DEF SameHeights
<1>9. Linked(L, g)
  BY <1>2, <1>5, <1>6, <1>7, LinkedSplit
<1> QED
  BY <1>2, <1>3, <1>9 DEF Balanced, Typed, L

\* The last step of a path.
LEMMA PathEnd ==
    ASSUME NEW p \in Seq(deleteStep), p # <<>>
    PROVE  /\ popLast(p) \in Seq(deleteStep) /\ Final(p) \in deleteStep
           /\ p = Append(popLast(p), Final(p))
           /\ Len(p) > 1 => popLast(p) # <<>>
<1> DEFINE q == popLast(p)
<1>1. /\ q \in Seq(deleteStep) /\ Len(q) = Len(p) - 1 /\ \A i \in 1 .. Len(p) - 1 : q[i] = p[i]
      /\ Len(p) \in Nat /\ Len(p) >= 1
  BY PopLastType
<1>2. Final(p) \in deleteStep /\ Final(p) = p[Len(p)]
  BY <1>1 DEF Final
<1> HIDE DEF q
<1>3. /\ Append(q, Final(p)) \in Seq(deleteStep) /\ Len(Append(q, Final(p))) = Len(p)
      /\ \A i \in 1 .. Len(p) : Append(q, Final(p))[i] = p[i]
  BY <1>1, <1>2
<1>4. p = Append(q, Final(p))
  BY <1>3, SeqEqual
<1>5. Len(p) > 1 => q # <<>>
  BY <1>1
<1> QED
  BY <1>1, <1>2, <1>4, <1>5 DEF q

\* The node last visited is the parent of cur.
LEMMA ParentFacts ==
    ASSUME IInv, path # <<>>, NEW W, NEW h, NEW weak, Typed(W), Balanced(W, h, weak),
           NEW exact \in BOOLEAN, Trail(W, h, PushCur, exact)
    PROVE  LET v == Final(path).visitedNode
           IN /\ cur.id \in DOMAIN W \ {rootId} /\ v \in DOMAIN W /\ v # cur.id
              /\ cur.id \in Range(W[v].children) /\ h[v] = h[cur.id] + 1 /\ ~W[v].leaf
              /\ Trail(W, h, path, exact)
<1> DEFINE s == [visitedNode |-> cur.id, positionInParent |-> at]
           v == Final(path).visitedNode
<1>1. path \in Seq(deleteStep) /\ s \in deleteStep /\ PushCur = Append(path, s)
  BY VisitedLast
<1>2. s.visitedNode = cur.id
  OBVIOUS
<1>3. h[rootId] \in Nat /\ \A j \in DOMAIN W : h[j] \in Nat
  BY Heights DEF Typed
<1>4. NatHeights(W, h)
  BY <1>3 DEF NatHeights
<1> HIDE DEF s, v
<1>5. Trail(W, h, Append(path, s), exact)
  BY <1>1
<1>6. /\ Trail(W, h, path, exact)
      /\ cur.id \in DOMAIN W /\ v \in DOMAIN W
      /\ cur.id \in Range(W[v].children)
      /\ h[v] = h[cur.id] + 1
  <2>1. /\ Trail(W, h, path, exact)
        /\ s.visitedNode \in DOMAIN W /\ Final(path).visitedNode \in DOMAIN W
        /\ s.visitedNode \in Range(W[Final(path).visitedNode].children)
        /\ h[Final(path).visitedNode] = h[s.visitedNode] + 1
    BY <1>1, <1>4, <1>5, TrailPop
  <2> QED
    BY <1>2, <2>1 DEF v
<1>7. cur.id # rootId
  BY <1>6, ChildFacts
<1>8. ~W[v].leaf
  <2>1. h[v] # 0
    BY <1>3, <1>6
  <2> QED
    BY <1>6, <2>1, LeafHeight
<1>9. v # cur.id
  BY <1>3, <1>6
<1> QED
  BY <1>6, <1>7, <1>8, <1>9 DEF v

\* Delete knows where in its parent cur is.
LEMMA ParentAt ==
    ASSUME IInv, path # <<>>, NEW W, NEW h, NEW weak, Typed(W), Balanced(W, h, weak),
           Trail(W, h, PushCur, TRUE)
    PROVE  LET siblings == W[Final(path).visitedNode].children
           IN at \in Nat /\ at + 1 \in DOMAIN siblings /\ siblings[at + 1] = cur.id
<1> DEFINE s == [visitedNode |-> cur.id, positionInParent |-> at]
<1>1. path \in Seq(deleteStep) /\ s \in deleteStep /\ PushCur = Append(path, s)
  BY VisitedLast
<1>2. s.visitedNode = cur.id /\ s.positionInParent = at /\ at \in Nat
  BY Parts DEF LocalsOK
<1>3. NatHeights(W, h)
  BY Heights DEF Typed, NatHeights
<1> HIDE DEF s
<1>4. Trail(W, h, Append(path, s), TRUE)
  BY <1>1
<1>5. Stands(W[Final(path).visitedNode].children, s)
  BY <1>1, <1>3, <1>4, TrailPopStands
<1> QED
  BY <1>2, <1>5 DEF Stands

\* Going back to the node last visited.
LEMMA GoingBack ==
    ASSUME IInv, path # <<>>, path' = popLast(path), cur'.id = Final(path).visitedNode
    PROVE  /\ at' = Final(path).positionInParent => PushCur' = path
           /\ \A W, h : at' \in Nat /\ Trail(W, h, path, FALSE) => Trail(W, h, PushCur', FALSE)
<1> DEFINE s == Final(path)
           t == [visitedNode |-> cur'.id, positionInParent |-> at']
<1>1. path \in Seq(deleteStep)
  BY VisitedLast
<1>2. popLast(path) \in Seq(deleteStep) /\ s \in deleteStep /\ path = Append(popLast(path), s)
  BY <1>1, PathEnd
<1>3. PushCur' = Append(popLast(path), t)
  BY DEF PushCur
<1>4. at' = s.positionInParent => t = s
  BY <1>2 DEF deleteStep
<1>5. at' \in Nat => t \in deleteStep /\ t.visitedNode = s.visitedNode
  BY <1>2 DEF deleteStep
<1> HIDE DEF s, t
<1>6. ASSUME NEW W, NEW h, at' \in Nat, Trail(W, h, path, FALSE) PROVE Trail(W, h, PushCur', FALSE)
  <2>1. Trail(W, h, Append(popLast(path), s), FALSE)
    BY <1>2, <1>6
  <2>2. Trail(W, h, Append(popLast(path), t), FALSE)
    BY <1>2, <1>5, <1>6, <2>1, TrailRenamed
  <2> QED
    BY <1>3, <2>2
<1> QED
  BY <1>2, <1>3, <1>4, <1>6 DEF s

LEMMA VisitedNext ==
    ASSUME path' \in Seq(deleteStep), cur'.id \in Ids, at' \in Nat
    PROVE  PushCur' \in Seq(deleteStep) /\ Final(PushCur').visitedNode = cur'.id
<1> DEFINE s == [visitedNode |-> cur'.id, positionInParent |-> at']
<1>1. s \in deleteStep /\ PushCur' = Append(path', s) /\ s.visitedNode = cur'.id
  BY DEF PushCur, deleteStep
<1> HIDE DEF s
<1>2. /\ PushCur' \in Seq(deleteStep) /\ Len(PushCur') = Len(path') + 1
      /\ PushCur'[Len(PushCur')] = s
  BY <1>1
<1> QED
  BY <1>1, <1>2 DEF Final

\* What a split makes of the parent.
LEMMA ParentGrows ==
    ASSUME NEW n \in Node, NEW x, NodeOK(n, x, NoRepair), ~n.leaf,
           NEW m, m.id = n.id, m.leaf = n.leaf, IsInjective(m.children),
           Len(m.values) = Len(n.values) + 1, Len(m.children) = Len(n.children) + 1
    PROVE  NodeOK(m, x, NoRepair)
<1>1. n.leaf \in BOOLEAN /\ Len(n.values) \in Nat /\ Len(n.children) \in Nat
  BY NodeParts
<1>2. Shaped(n) /\ Len(n.values) >= Least(n, NoRepair) /\ Least(n, NoRepair) \in Int
  BY LeastBounds, NobodyWeak DEF NodeOK
<1>3. Least(m, NoRepair) = Least(n, NoRepair)
  BY DEF Least
<1>4. Shaped(m) /\ Len(m.values) >= Least(m, NoRepair)
  BY <1>1, <1>2, <1>3 DEF Shaped
<1> QED
  BY <1>4 DEF NodeOK

LEMMA ChildBefore ==
    ASSUME NEW n \in Node, IsInjective(n.children), NEW i \in DOMAIN n.children,
           NEW y \in Ids, y # rootId, y \notin Range(n.children)
    PROVE  LET k == prependBefore(n.children, y, i)
           IN Len(k) = Len(n.children) + 1 /\ Range(k) = Range(n.children) \cup {y} /\ IsInjective(k)
<1> DEFINE S == Ids \ {rootId}
<1>1. n.children \in Seq(S) /\ y \in S
  BY NodeParts
<1> HIDE DEF S
<1> QED
  BY <1>1, PrependBeforeType, PrependBeforeElements

\* A half of a split node below the root.
LEMMA HalfOK ==
    ASSUME NEW n, NEW x, Shaped(n), n.leaf => x = 0, IsInjective(n.children),
           n.id # rootId, Len(n.values) >= a - 1
    PROVE  NodeOK(n, x, NoRepair)
BY DEF NodeOK, Least, NoRepair

LEMMA InsertSplitKeeps == ASSUME IInv, Structure, faults = 0, InsertSplit PROVE Structure'
<1> DEFINE x == cur.id
           v == Final(path).visitedNode
           y == fresh[1]
           old == SplitOld(cur)
           new == SplitNew(cur, y)
<1>0. /\ At("grow") /\ path # <<>> /\ Len(fresh) = 1 /\ SplitInRange(cur)
      /\ pc' = "grow" /\ fresh' = <<>> /\ path' = popLast(path) /\ at' = at /\ Compute
      /\ todo' = <<persist(old), persist(new)>>
  BY DEF InsertSplit, Goto
<1>p. PICK i \in lastOf(nodes[v].children, x), p \in find(nodes[v].values, SplitMiddle(cur).First) :
         cur' = [nodes[v] EXCEPT !.children = prependBefore(nodes[v].children, new.id, i),
                                 !.values = add(nodes[v].values, SplitMiddle(cur), p)]
  BY DEF InsertSplit
<1>1. /\ Ledger(nodes, <<>>, issued, fresh)
      /\ x \in DOMAIN nodes
      /\ \E h, W : /\ W = [nodes EXCEPT ![cur.id] = cur] /\ Typed(W)
                   /\ Rests(h) /\ Balanced(W, h, NoRepair)
                   /\ Trail(W, h, PushCur, FALSE)
  BY <1>0, AtGrow
<1>2. PICK h, W : /\ W = [nodes EXCEPT ![x] = cur] /\ Typed(W)
                  /\ Rests(h) /\ Balanced(W, h, NoRepair)
                  /\ Trail(W, h, PushCur, FALSE)
  BY <1>1
<1>3. /\ x \in DOMAIN W \ {rootId} /\ v \in DOMAIN W /\ v # x
      /\ x \in Range(W[v].children) /\ h[v] = h[x] + 1 /\ ~W[v].leaf
      /\ Trail(W, h, path, FALSE)
  BY <1>0, <1>2, ParentFacts
<1>4. /\ y \in Ids \ {rootId} /\ y \notin DOMAIN nodes /\ issued = DOMAIN nodes \cup {y}
      /\ DOMAIN W = DOMAIN nodes /\ W[x] = cur /\ \A j \in DOMAIN nodes \ {x} : W[j] = nodes[j]
  <2>1. fresh \in Seq(Ids \ {rootId}) /\ Range(fresh) = {y}
    BY <1>0, Parts DEF LocalsOK, Range
  <2>2. Removes(<<>>) = {}
    BY DEF Removes
  <2> QED
    BY <1>0, <1>1, <1>2, <2>1, <2>2 DEF Ledger
<1> HIDE DEF x, v, y, old, new
<1>5. /\ W[v] \in Node /\ W[v].id = v /\ W[v] = nodes[v] /\ NodeOK(W[v], h[v], NoRepair)
      /\ cur \in Node /\ cur.id = x /\ NodeOK(cur, h[x], NoRepair) /\ x \in Ids /\ h[x] \in Nat
  <2>1. W[x] \in Node /\ W[x].id = x /\ NodeOK(W[x], h[x], NoRepair)
    BY <1>2, <1>3 DEF Typed, Balanced
  <2>2. h[x] \in Nat /\ x \in Ids
    BY <1>2, <1>3, Heights DEF Typed
  <2> QED
    BY <1>2, <1>3, <1>4, <2>1, <2>2 DEF Typed, Balanced
<1>6. Len(cur.values) <= b
  BY Parts DEF LocalsOK
<1>7. /\ new.id = y /\ new.leaf = cur.leaf /\ Shaped(new) /\ IsInjective(new.children)
      /\ old.id = x /\ old.leaf = cur.leaf /\ Shaped(old) /\ IsInjective(old.children)
      /\ Len(new.values) >= a - 1 /\ Len(old.values) >= a - 1
      /\ Range(new.children) \cup Range(old.children) = Range(cur.children)
      /\ Range(new.children) \cap Range(old.children) = {}
      /\ SplitMiddle(cur) \in Tuple
  <2>1. y \in Ids /\ SplitInRange(cur)
    BY <1>0, <1>4
  <2>2. cur \in Node /\ Len(cur.values) <= b /\ NodeOK(cur, h[x], NoRepair) /\ cur.id = x
    BY <1>5, <1>6
  <2>3. LET n == SplitNew(cur, y)
            o == SplitOld(cur)
        IN /\ n.id = y /\ n.leaf = cur.leaf /\ Shaped(n) /\ IsInjective(n.children)
           /\ o.id = cur.id /\ o.leaf = cur.leaf /\ Shaped(o) /\ IsInjective(o.children)
           /\ Len(n.values) >= a - 1 /\ Len(o.values) >= a - 1
           /\ Range(n.children) \cup Range(o.children) = Range(cur.children)
           /\ Range(n.children) \cap Range(o.children) = {}
           /\ SplitMiddle(cur) \in Tuple
    BY <2>1, <2>2, SplitShapes, ZenonT(40)
  <2> QED
    BY <2>2, <2>3 DEF new, old
<1>8. cur.leaf => h[x] = 0
  BY <1>5 DEF NodeOK
<1>9. NodeOK(new, h[x], NoRepair) /\ NodeOK(old, h[x], NoRepair)
  BY <1>3, <1>4, <1>7, <1>8, HalfOK
<1>10. i \in DOMAIN W[v].children
  BY <1>5, <1>p DEF lastOf
<1>11. y \notin Range(W[v].children)
  <2>1. ASSUME y \in Range(W[v].children) PROVE FALSE
    BY <1>2, <1>3, <1>4, <2>1, ChildFacts
  <2> QED
    BY <2>1
<1>12. PICK parent : parent = cur'
  OBVIOUS
<1>13. /\ NodeOK(parent, h[v], NoRepair) /\ parent.id = v
       /\ Range(parent.children) = Range(W[v].children) \cup {y}
  <2>1. PICK n : n = W[v]
    OBVIOUS
  <2>2. p \in find(n.values, SplitMiddle(cur).First) /\ i \in DOMAIN n.children
    BY <1>5, <1>10, <1>p, <2>1
  <2>3. /\ parent.children = prependBefore(n.children, y, i) /\ parent.id = n.id
        /\ parent.values = add(n.values, SplitMiddle(cur), p) /\ parent.leaf = n.leaf
    BY <1>5, <1>7, <1>12, <1>p, <2>1 DEF Node
  <2>4. n \in Node /\ NodeOK(n, h[v], NoRepair) /\ ~n.leaf /\ n.id = v /\ y \notin Range(n.children)
    BY <1>3, <1>5, <1>11, <2>1
  <2>5. Len(parent.values) = Len(n.values) + 1
    <3>1. n.values \in Seq(Tuple) /\ SplitMiddle(cur) \in Tuple
      BY <1>7, <2>4, NodeParts
    <3> QED
      BY <2>2, <2>3, <3>1, AddType
  <2>6. /\ Len(parent.children) = Len(n.children) + 1 /\ IsInjective(parent.children)
        /\ Range(parent.children) = Range(n.children) \cup {y}
    <3>1. IsInjective(n.children) /\ y \in Ids /\ y # rootId
      BY <1>4, <2>4 DEF NodeOK
    <3>2. n \in Node /\ i \in DOMAIN n.children /\ y \notin Range(n.children)
      BY <2>2, <2>4
    <3> DEFINE k == prependBefore(n.children, y, i)
    <3>3. Len(k) = Len(n.children) + 1 /\ Range(k) = Range(n.children) \cup {y} /\ IsInjective(k)
      BY <3>1, <3>2, ChildBefore
    <3> QED
      BY <2>3, <3>3
  <2>7. NodeOK(parent, h[v], NoRepair)
    BY <2>3, <2>4, <2>5, <2>6, ParentGrows
  <2> QED
    BY <2>1, <2>3, <2>4, <2>6, <2>7
<1>14. PICK g : g = [h EXCEPT ![y] = h[x]]
  OBVIOUS
<1>15. PICK V : V = [j \in DOMAIN nodes \cup {y} |->
                       IF j = y THEN new ELSE IF j = x THEN old ELSE nodes[j]]
  OBVIOUS
<1>16. PICK U : U = [V EXCEPT ![v] = parent]
  OBVIOUS
<1>17. /\ DOMAIN V = DOMAIN nodes \cup {y} /\ V[x] = old /\ V[y] = new
       /\ \A j \in DOMAIN nodes \ {x} : V[j] = nodes[j]
  BY <1>1, <1>4, <1>15 DEF x
<1>18. /\ DOMAIN U = DOMAIN W \cup {y} /\ U[x] = old /\ U[y] = new /\ U[v] = parent
       /\ \A j \in DOMAIN W \ {x, v} : U[j] = W[j]
  BY <1>3, <1>4, <1>16, <1>17
<1>19. Balanced(U, g, NoRepair) /\ g \in [Ids -> Nat] /\ \A j \in DOMAIN W : g[j] = h[j]
  <2>1. y \notin DOMAIN W /\ cur = W[x] /\ x \in DOMAIN W
    BY <1>3, <1>4
  <2>2. g \in [Ids -> Nat] /\ g[y] = h[x] /\ \A j \in DOMAIN W : g[j] = h[j]
    BY <1>2, <1>4, <1>5, <1>14, <2>1 DEF Rests, Typed
  <2>3. /\ SplitInto(W, U, x, v, y) /\ SameHeights(DOMAIN W, h, g)
        /\ U[x] = old /\ U[y] = new /\ U[v] = parent
    BY <1>2, <1>18, <2>2, Heights DEF SplitInto, SameHeights
  <2>4. /\ Range(U[y].children) \cup Range(U[x].children) = Range(W[x].children)
        /\ Range(U[y].children) \cap Range(U[x].children) = {}
    BY <1>4, <1>7, <2>3
  <2>5. /\ Typed(W) /\ Balanced(W, h, NoRepair) /\ v \in DOMAIN W /\ x \in Range(W[v].children)
        /\ y \in Ids /\ y # rootId
    BY <1>2, <1>3, <1>4
  <2>6. /\ NodeOK(U[x], h[x], NoRepair) /\ NodeOK(U[y], h[x], NoRepair)
        /\ NodeOK(U[v], h[v], NoRepair) /\ Range(U[v].children) = Range(W[v].children) \cup {y}
    BY <1>9, <1>13, <2>3
  <2>7. Balanced(U, g, NoRepair)
    BY <2>1, <2>2, <2>3, <2>4, <2>5, <2>6, SplitBelow
  <2> QED
    BY <2>2, <2>7
<1>20. Leads(nodes, todo', V) /\ Removes(todo') = {}
  <2>1. DOMAIN V = DOMAIN nodes \cup {old.id, new.id} /\ V[old.id] = old /\ V[new.id] = new
    BY <1>3, <1>4, <1>7, <1>17
  <2>2. \A j \in DOMAIN nodes \ {old.id, new.id} : V[j] = nodes[j]
    BY <1>7, <1>17
  <2>3. old.id \in Ids /\ new.id \in Ids /\ Shaped(old) /\ Shaped(new)
    BY <1>4, <1>5, <1>7
  <2>4. /\ Leads(nodes, <<persist(old), persist(new)>>, V)
        /\ Removes(<<persist(old), persist(new)>>) = {}
    BY <2>1, <2>2, <2>3, LeadsTwo
  <2> QED
    BY <1>0, <2>4
<1>21. Ledger(V, todo', issued, <<>>)
  BY <1>4, <1>17, <1>20 DEF Ledger, Range, IsInjective
<1>22. g[rootId] = h[rootId]
  BY <1>2, <1>19 DEF Typed
<1>23. DepthOK(depth, todo', g[rootId]) /\ treeDepth = depth
  <2>1. depth = g[rootId] + 1 /\ treeDepth = depth
    BY <1>2, <1>22 DEF Rests
  <2> QED
    BY <1>0, <2>1, DepthStays
<1>24. Trail(U, g, PushCur', FALSE)
  <2>1. path' \in Seq(deleteStep) /\ cur'.id \in Ids /\ at' \in Nat
    <3>1. path' \in Seq(deleteStep) /\ at' \in Nat
      BY <1>0, InsertSplitStep, PartsNext DEF LocalsOK, PathOK
    <3>2. v \in Ids
      BY <1>2, <1>3 DEF Typed
    <3> QED
      BY <1>12, <1>13, <3>1, <3>2
  <2>2. PushCur' \in Seq(deleteStep) /\ Final(PushCur').visitedNode = v
    BY <1>12, <1>13, <2>1, VisitedNext
  <2>3. Trail(W, h, PushCur', FALSE)
    BY <1>0, <1>3, <1>12, <1>13, <2>1, GoingBack DEF v
  <2>4. NatHeights(W, h)
    BY <1>2, Heights DEF Typed, NatHeights
  <2>5. SameAbove(W, h, U, g, v)
    <3>1. v \in DOMAIN U /\ g[v] = h[v]
      BY <1>3, <1>18, <1>19
    <3>2. ASSUME NEW j \in DOMAIN W, h[j] > h[v]
          PROVE  j \in DOMAIN U /\ U[j].children = W[j].children /\ g[j] = h[j]
      <4>1. j # v /\ j # x
        BY <1>3, <1>5, <3>2
      <4> QED
        BY <1>18, <1>19, <4>1
    <3> QED
      BY <1>22, <3>1, <3>2 DEF SameAbove
  <2> DEFINE q == PushCur'
  <2>6. q \in Seq(deleteStep) /\ SameAbove(W, h, U, g, Final(q).visitedNode) /\ Trail(W, h, q, FALSE)
    BY <2>2, <2>3, <2>5
  <2> HIDE DEF q
  <2>7. Trail(U, g, q, FALSE)
    BY <2>4, <2>6, TrailAbove
  <2> QED
    BY <2>7 DEF q
<1>25. cur'.id \in DOMAIN V /\ U = [V EXCEPT ![cur'.id] = cur']
  BY <1>3, <1>4, <1>12, <1>13, <1>16, <1>17
<1> QED
  BY <1>0, <1>19, <1>20, <1>21, <1>23, <1>24, <1>25, ComputeFacts, ToGrow

RootInto(W, U, y, z) ==
    /\ y # z /\ y \notin DOMAIN W /\ z \notin DOMAIN W
    /\ DOMAIN U = DOMAIN W \cup {y, z} /\ \A j \in DOMAIN W \ {rootId} : U[j] = W[j]

\* The root's halves become its children.
LEMMA SplitAtRoot ==
    ASSUME NEW W, NEW h, Typed(W), Balanced(W, h, NoRepair),
           NEW y, NEW z, NEW U, RootInto(W, U, y, z),
           NodeOK(U[y], h[rootId], NoRepair), NodeOK(U[z], h[rootId], NoRepair),
           NodeOK(U[rootId], h[rootId] + 1, NoRepair), Range(U[rootId].children) = {y, z},
           Range(U[y].children) \cup Range(U[z].children) = Range(W[rootId].children),
           Range(U[y].children) \cap Range(U[z].children) = {},
           NEW g \in [Ids -> Nat], RootRises(DOMAIN W, h, g, y, z)
    PROVE  Balanced(U, g, NoRepair)
<1> USE DEF RootInto, RootRises
<1>1. rootId \in DOMAIN W /\ rootId \in DOMAIN U
  BY DEF Typed
<1>2. ASSUME NEW j \in DOMAIN U PROVE NodeOK(U[j], g[j], NoRepair)
  <2>1. CASE j \in {y, z, rootId}
    BY <2>1
  <2>2. CASE j \notin {y, z, rootId}
    BY <2>2 DEF Balanced
  <2> QED
    BY <2>1, <2>2
<1> DEFINE K == ChildSets(W)
           L == ChildSets(U)
<1>3. /\ DOMAIN K = DOMAIN W /\ DOMAIN L = DOMAIN U
      /\ \A j \in DOMAIN W : K[j] = Range(W[j].children)
      /\ \A j \in DOMAIN U : L[j] = Range(U[j].children)
  BY DEF ChildSets
<1>4. Linked(K, h)
  BY DEF Balanced
<1> HIDE DEF K, L
<1>5. RootSplits(K, L, y, z)
  BY <1>1, <1>3 DEF RootSplits
<1>6. RootRises(DOMAIN K, h, g, y, z)
  BY <1>3
<1> HIDE DEF RootInto, RootRises
<1>7. Linked(L, g)
  BY <1>4, <1>5, <1>6, LinkedSplitRoot
<1> QED
  BY <1>1, <1>2, <1>7 DEF Balanced, L

LEMMA InsertSplitRootKeeps == ASSUME IInv, Structure, faults = 0, InsertSplitRoot PROVE Structure'
<1> DEFINE y == fresh[1]
           z == fresh[2]
           half == SplitOld(cur)
           old == [half EXCEPT !.id = z]
           new == SplitNew(cur, y)
           root == [createNewNode(cur.id, FALSE) EXCEPT !.values = <<SplitMiddle(cur)>>,
                                                        !.children = <<new.id, old.id>>]
<1>0. /\ At("grow") /\ path = <<>> /\ Len(fresh) = 2 /\ SplitInRange(cur)
      /\ pc' = "done" /\ fresh' = <<>> /\ Compute
      /\ todo' = <<persist(root), persist(old), persist(new), updateDepth(treeDepth + 1)>>
  BY DEF InsertSplitRoot, Finish, SplitRootCalls
<1>1. /\ Ledger(nodes, <<>>, issued, fresh)
      /\ cur.id \in DOMAIN nodes
      /\ \E h, W : /\ W = [nodes EXCEPT ![cur.id] = cur] /\ Typed(W)
                   /\ Rests(h) /\ Balanced(W, h, NoRepair)
                   /\ Trail(W, h, PushCur, FALSE)
  BY <1>0, AtGrow
<1>2. PICK h, W : /\ W = [nodes EXCEPT ![cur.id] = cur] /\ Typed(W)
                  /\ Rests(h) /\ Balanced(W, h, NoRepair)
                  /\ Trail(W, h, PushCur, FALSE)
  BY <1>1
<1>3. cur.id = rootId
  <2> DEFINE s == [visitedNode |-> cur.id, positionInParent |-> at]
  <2>1. PushCur = <<s>> /\ s.visitedNode = cur.id
    BY <1>0 DEF PushCur
  <2> HIDE DEF s
  <2>2. PushCur[1].visitedNode = rootId
    BY <1>2 DEF Trail
  <2> QED
    BY <2>1, <2>2
<1>4. /\ y \in Ids /\ z \in Ids /\ y # rootId /\ z # rootId /\ y # z
      /\ y \notin DOMAIN nodes /\ z \notin DOMAIN nodes
      /\ issued = DOMAIN nodes \cup {y, z}
      /\ DOMAIN W = DOMAIN nodes /\ W[rootId] = cur
      /\ \A j \in DOMAIN nodes \ {rootId} : W[j] = nodes[j]
  <2>1. fresh \in Seq(Ids \ {rootId}) /\ Range(fresh) = {y, z} /\ DOMAIN fresh = {1, 2}
    BY <1>0, Parts DEF LocalsOK, Range
  <2>2. Removes(<<>>) = {}
    BY DEF Removes
  <2>3. y # z /\ y \in Ids \ {rootId} /\ z \in Ids \ {rootId}
    BY <1>1, <2>1 DEF Ledger, IsInjective
  <2> QED
    BY <1>1, <1>2, <1>3, <2>1, <2>2, <2>3 DEF Ledger
<1>5. /\ cur \in Node /\ NodeOK(cur, h[rootId], NoRepair) /\ rootId \in DOMAIN W
      /\ h[rootId] \in Nat /\ h \in [Ids -> Nat] /\ Len(cur.values) <= b
  <2>1. rootId \in DOMAIN W /\ W[rootId] \in Node /\ NodeOK(W[rootId], h[rootId], NoRepair)
    BY <1>2 DEF Typed, Balanced
  <2>2. Len(cur.values) <= b /\ h \in [Ids -> Nat]
    BY <1>2, Parts DEF LocalsOK, Rests
  <2> QED
    BY <1>4, <2>1, <2>2, RootAssumption
<1> HIDE DEF y, z, half, old, new, root
<1>6. /\ new.id = y /\ new.leaf = cur.leaf /\ Shaped(new) /\ IsInjective(new.children)
      /\ half.leaf = cur.leaf /\ Shaped(half) /\ IsInjective(half.children)
      /\ Len(new.values) >= a - 1 /\ Len(half.values) >= a - 1
      /\ Range(new.children) \cup Range(half.children) = Range(cur.children)
      /\ Range(new.children) \cap Range(half.children) = {}
      /\ SplitMiddle(cur) \in Tuple /\ half \in Node
  <2>1. SplitInRange(cur) /\ y \in Ids
    BY <1>0, <1>4
  <2> QED
    BY <1>5, <2>1, SplitShapes DEF new, half
<1>7. /\ old.id = z /\ old.leaf = cur.leaf /\ old.children = half.children
      /\ old.values = half.values
  BY <1>6 DEF Node, old
<1>8. /\ root.id = rootId /\ root.leaf = FALSE /\ root.values = <<SplitMiddle(cur)>>
      /\ root.children = <<y, z>>
  BY <1>3, <1>6, <1>7 DEF createNewNode, root
<1>9. cur.leaf => h[rootId] = 0
  BY <1>5 DEF NodeOK
<1>10. NodeOK(new, h[rootId], NoRepair) /\ NodeOK(old, h[rootId], NoRepair)
  <2>1. Shaped(old)
    BY <1>6, <1>7 DEF Shaped
  <2> QED
    BY <1>4, <1>6, <1>7, <1>9, <2>1, HalfOK
<1>11. NodeOK(root, h[rootId] + 1, NoRepair) /\ Range(root.children) = {y, z}
  <2>1. Len(root.values) = 1 /\ Len(root.children) = 2 /\ DOMAIN root.children = {1, 2}
        /\ root.children[1] = y /\ root.children[2] = z
    BY <1>8
  <2>2. Shaped(root) /\ Least(root, NoRepair) = 1
    BY <1>8, <2>1 DEF Shaped, Least
  <2>3. IsInjective(root.children)
    BY <1>4, <2>1 DEF IsInjective
  <2>4. Range(root.children) = {y, z}
    BY <2>1 DEF Range
  <2> QED
    BY <1>8, <2>1, <2>2, <2>3, <2>4 DEF NodeOK
<1>12. PICK g : g = [j \in Ids |-> IF j \in {y, z} THEN h[rootId]
                                   ELSE IF j = rootId THEN h[rootId] + 1 ELSE h[j]]
  OBVIOUS
<1>13. PICK U : U = [j \in DOMAIN nodes \cup {y, z} |->
                       IF j = y THEN new ELSE IF j = z THEN old
                       ELSE IF j = rootId THEN root ELSE nodes[j]]
  OBVIOUS
<1>14. /\ DOMAIN U = DOMAIN nodes \cup {y, z} /\ U[y] = new /\ U[z] = old /\ U[rootId] = root
       /\ \A j \in DOMAIN nodes \ {rootId} : U[j] = nodes[j]
  BY <1>4, <1>5, <1>13
<1>15. g \in [Ids -> Nat] /\ RootRises(DOMAIN W, h, g, y, z) /\ g[rootId] = h[rootId] + 1
  <2>1. g \in [Ids -> Nat]
    BY <1>5, <1>12
  <2>2. g[y] = h[rootId] /\ g[z] = h[rootId] /\ g[rootId] = h[rootId] + 1
    BY <1>4, <1>12, RootAssumption
  <2>3. ASSUME NEW j \in DOMAIN W \ {rootId} PROVE g[j] = h[j]
    BY <1>2, <1>4, <1>12, <2>3 DEF Typed
  <2> QED
    BY <2>1, <2>2, <2>3 DEF RootRises
<1>16. RootInto(W, U, y, z)
  BY <1>4, <1>14 DEF RootInto
<1>17. Balanced(U, g, NoRepair)
  <2>1. /\ NodeOK(U[y], h[rootId], NoRepair) /\ NodeOK(U[z], h[rootId], NoRepair)
        /\ NodeOK(U[rootId], h[rootId] + 1, NoRepair) /\ Range(U[rootId].children) = {y, z}
    BY <1>10, <1>11, <1>14
  <2>2. /\ Range(U[y].children) \cup Range(U[z].children) = Range(W[rootId].children)
        /\ Range(U[y].children) \cap Range(U[z].children) = {}
    BY <1>4, <1>6, <1>7, <1>14
  <2>3. Typed(W) /\ Balanced(W, h, NoRepair)
    BY <1>2
  <2> QED
    BY <1>15, <1>16, <2>1, <2>2, <2>3, SplitAtRoot
<1> DEFINE t == <<persist(root), persist(old), persist(new), updateDepth(treeDepth + 1)>>
<1>18. Leads(nodes, t, U) /\ Removes(t) = {}
  <2>1. /\ root.id \in Ids /\ old.id \in Ids /\ new.id \in Ids
        /\ Shaped(root) /\ Shaped(old) /\ Shaped(new)
    BY <1>4, <1>6, <1>7, <1>8, <1>10, <1>11, RootAssumption DEF NodeOK
  <2>2. /\ DOMAIN U = DOMAIN nodes \cup {root.id, old.id, new.id}
        /\ U[root.id] = root /\ U[old.id] = old /\ U[new.id] = new
    BY <1>4, <1>5, <1>6, <1>7, <1>8, <1>14
  <2>3. \A j \in DOMAIN nodes \ {root.id, old.id, new.id} : U[j] = nodes[j]
    BY <1>8, <1>14
  <2> QED
    BY <2>1, <2>2, <2>3, LeadsToSplitRoot
<1>19. Ledger(U, t, issued, <<>>)
  BY <1>4, <1>14, <1>18 DEF Ledger, Range, IsInjective
<1> HIDE DEF t
<1>20. todo' = t /\ treeDepth = depth /\ DepthOK(depth, t, g[rootId])
  <2>1. treeDepth = depth /\ treeDepth + 1 = g[rootId] + 1
    BY <1>2, <1>15 DEF Rests
  <2> QED
    BY <1>0, <2>1, DepthSet DEF t
<1> QED
  BY <1>0, <1>17, <1>18, <1>19, <1>20, ComputeFacts, ToRest

-----------------------------------------------------------------------------
(* Delete.                                                                 *)

\* A node without one of its values, which may now be too small.
LEMMA ValuesLess ==
    ASSUME NEW n \in Node, NEW x, NodeOK(n, x, NoRepair), n.leaf,
           NEW v \in Seq(Tuple), Len(n.values) >= 1, Len(v) = Len(n.values) - 1,
           NEW weak, n.id \in weak
    PROVE  Len(v) >= Least(n, weak)
<1>1. Len(n.values) \in Nat /\ Least(n, weak) \in Int
  BY NodeParts, LeastBounds, NobodyWeak
<1>2. CASE n.id = rootId
  BY <1>1, <1>2 DEF Least
<1>3. CASE n.id # rootId
  BY <1>1, <1>3, LeastBounds, NobodyWeak
<1> QED
  BY <1>2, <1>3

LEMMA DeleteLeafKeeps == ASSUME IInv, Structure, faults = 0, DeleteLeaf PROVE Structure'
<1>0. /\ pc = "delete" /\ todo = <<>> /\ pc' = "balance" /\ fresh' = fresh /\ Compute
      /\ path' = PushCur /\ cur.leaf
  BY DEF DeleteLeaf, At, Goto
<1>1. PICK p \in find(cur.values, req.key) :
         /\ Found(cur.values, req.key, p)
         /\ todo' = <<persist([cur EXCEPT !.values = pop(cur.values, p)])>>
  BY DEF DeleteLeaf
<1>2. /\ fresh = <<>> /\ issued = DOMAIN nodes /\ cur.id \in DOMAIN nodes /\ cur = nodes[cur.id]
      /\ \E h : /\ Rests(h) /\ Balanced(nodes, h, NoRepair)
                /\ Trail(nodes, h, PushCur, pc # "insert")
  BY <1>0, AtDescent
<1>3. PICK h : /\ Rests(h) /\ Balanced(nodes, h, NoRepair)
               /\ Trail(nodes, h, PushCur, TRUE)
  BY <1>0, <1>2
<1>4. Typed(nodes) /\ cur \in Node /\ cur.id \in Ids /\ NodeOK(cur, h[cur.id], NoRepair)
  BY <1>2, <1>3, NodeParts DEF Rests, Typed, Balanced
<1> DEFINE v == pop(cur.values, p)
<1>5. v \in Seq(Tuple) /\ Len(v) = Len(cur.values) - 1 /\ Len(cur.values) >= 1
  <2>1. cur.values \in Seq(Tuple) /\ Len(cur.values) \in Nat
    BY <1>4, NodeParts
  <2>2. p \in Nat /\ p < Len(cur.values)
    BY <1>1, <2>1 DEF find, Found
  <2>3. v \in Seq(Tuple) /\ Len(v) = Len(cur.values) - 1
    BY <2>1, <2>2, PopType
  <2> QED
    BY <2>1, <2>2, <2>3
<1>6. PICK n : n = [cur EXCEPT !.values = v]
  OBVIOUS
<1>7. todo' = <<persist(n)>>
  BY <1>1, <1>6
<1> HIDE DEF v
<1>w. PICK weak : weak = {cur.id}
  OBVIOUS
<1>8. NodeOK(n, h[cur.id], weak) /\ n.children = cur.children /\ n.id = cur.id
  <2>1. cur.id \in weak /\ cur.leaf
    BY <1>0, <1>w
  <2>2. Len(v) >= Least(cur, weak)
    BY <1>4, <1>5, <2>1, ValuesLess
  <2> QED
    BY <1>4, <1>5, <1>6, <2>1, <2>2, ValuesOK
<1>9. PICK i \in DOMAIN nodes :
         /\ n.id = i /\ n.children = nodes[i].children /\ NoRepair \subseteq {i}
         /\ NodeOK(n, h[i], weak) /\ i = cur.id
  BY <1>2, <1>8, NobodyWeak
<1>10. PICK V : Replaces(V, nodes, i, n)
  BY Replacing
<1>11. /\ Balanced(V, h, weak) /\ Leads(nodes, <<persist(n)>>, V)
       /\ Ledger(V, <<persist(n)>>, issued, <<>>)
       /\ DepthOK(depth, <<persist(n)>>, h[rootId])
       /\ DOMAIN V = DOMAIN nodes /\ \A j \in DOMAIN nodes : V[j].children = nodes[j].children
  <2>1. Rests(h) /\ issued = DOMAIN nodes /\ Balanced(nodes, h, NoRepair)
    BY <1>2, <1>3
  <2>2. n.id = i /\ n.children = nodes[i].children /\ NoRepair \subseteq {i} /\ NodeOK(n, h[i], weak)
    BY <1>9
  <2>3. Typed(nodes)
    BY <2>1 DEF Rests
  <2>4. Balanced(V, h, weak)
    BY <1>10, <2>1, <2>2, <2>3, Rewritten
  <2> QED
    BY <1>10, <2>1, <2>2, <2>4, OneWrite
<1>12. Trail(V, h, path', TRUE) /\ weak = {Final(path').visitedNode}
  <2>1. Final(PushCur).visitedNode = cur.id
    BY VisitedLast
  <2>2. Trail(V, h, PushCur, TRUE)
    BY <1>3, <1>11, SameTrail
  <2> QED
    BY <1>0, <1>w, <2>1, <2>2
<1> QED
  BY <1>0, <1>2, <1>3, <1>7, <1>11, <1>12, ComputeFacts, ToBalance DEF Rests

LEMMA DeleteAbsentKeeps == ASSUME IInv, Structure, faults = 0, DeleteAbsent PROVE Structure'
<1>0. /\ pc = "delete" /\ todo = <<>> /\ pc' = "done" /\ fresh' = fresh /\ Compute /\ todo' = <<>>
  BY DEF DeleteAbsent, At, Finish, locals
<1>1. /\ fresh = <<>> /\ issued = DOMAIN nodes
      /\ \E h : Rests(h) /\ Balanced(nodes, h, NoRepair)
  BY <1>0, AtDescent
<1>2. PICK h : Rests(h) /\ Balanced(nodes, h, NoRepair)
  BY <1>1
<1>3. /\ Leads(nodes, todo', nodes) /\ Ledger(nodes, todo', issued, fresh')
      /\ DepthOK(depth, todo', h[rootId]) /\ treeDepth = depth
  BY <1>0, <1>1, <1>2, Unqueued DEF Rests
<1> QED
  BY <1>0, <1>1, <1>2, <1>3, ComputeFacts, ToRest

\* The three descents of Delete go on at a child, whose position they record.
LEMMA DeleteDown ==
    ASSUME IInv, Structure, faults = 0, pc \in {"delete", "pop"}, todo = <<>>, Compute,
           pc' \in {"delete", "pop"}, todo' = <<>>, fresh' = fresh, path' = PushCur,
           NEW p \in Nat, at' = p, NEW c \in Child(cur, p), cur' = nodes[c],
           pc' = "pop" => (target' = target /\ pc = "pop") \/ (target' = cur /\ ~cur.leaf)
    PROVE  Structure'
<1>1. /\ fresh = <<>> /\ issued = DOMAIN nodes
      /\ cur.id \in DOMAIN nodes /\ cur = nodes[cur.id]
      /\ pc = "pop" => /\ path # <<>> /\ target.id \in DOMAIN nodes
                       /\ target = nodes[target.id] /\ ~target.leaf
      /\ \E h : /\ Rests(h) /\ Balanced(nodes, h, NoRepair)
                /\ Trail(nodes, h, PushCur, pc # "insert")
  BY AtDescent
<1>2. PICK h : /\ Rests(h) /\ Balanced(nodes, h, NoRepair)
               /\ Trail(nodes, h, PushCur, TRUE)
  BY <1>1
<1>3. /\ PushCur \in Seq(deleteStep) /\ Final(PushCur).visitedNode = cur.id /\ PushCur # <<>>
  BY VisitedLast
<1> DEFINE q == PushCur
<1>4. q \in Seq(deleteStep) /\ Final(q).visitedNode = cur.id /\ Trail(nodes, h, q, TRUE) /\ q # <<>>
  BY <1>2, <1>3
<1> HIDE DEF q
<1>5. /\ c \in DOMAIN nodes /\ nodes[c].id = c
      /\ Trail(nodes, h, Append(q, [visitedNode |-> c, positionInParent |-> p]), TRUE)
  <2>1. /\ Rests(h) /\ Balanced(nodes, h, NoRepair) /\ cur.id \in DOMAIN nodes /\ cur = nodes[cur.id]
        /\ p \in Int /\ c \in Child(cur, p)
    BY <1>1, <1>2
  <2>2. q \in Seq(deleteStep) /\ Final(q).visitedNode = cur.id /\ Trail(nodes, h, q, TRUE)
    BY <1>4
  <2> QED
    BY <2>1, <2>2, Descent
<1>6. Trail(nodes, h, PushCur', pc' # "insert") /\ path' # <<>>
  <2>1. PushCur' = Append(q, [visitedNode |-> c, positionInParent |-> p])
    BY <1>5 DEF PushCur, q
  <2> QED
    BY <1>4, <1>5, <2>1 DEF q
<1>7. /\ Leads(nodes, todo', nodes) /\ Ledger(nodes, todo', issued, fresh')
      /\ DepthOK(depth, todo', h[rootId]) /\ treeDepth = depth
  BY <1>1, <1>2, Unqueued DEF Rests
<1>8. /\ cur'.id \in DOMAIN nodes /\ nodes[cur'.id] = cur' /\ fresh' = <<>>
      /\ pc' = "pop" => target'.id \in DOMAIN nodes /\ nodes[target'.id] = target' /\ ~target'.leaf
  BY <1>1, <1>5
<1> QED
  BY <1>2, <1>6, <1>7, <1>8, ComputeFacts, ToDescent

LEMMA DeleteInnerKeeps == ASSUME IInv, Structure, faults = 0, DeleteInner PROVE Structure'
<1>1. /\ pc \in {"delete", "pop"} /\ todo = <<>> /\ Compute
      /\ pc' = "pop" /\ todo' = <<>> /\ fresh' = fresh /\ path' = PushCur
      /\ target' = cur /\ ~cur.leaf
  BY DEF DeleteInner, At, Goto
<1>2. PICK p \in find(cur.values, req.key) :
         (\E c \in Child(cur, p) : cur' = nodes[c]) /\ at' = p
  BY DEF DeleteInner
<1>3. PICK c \in Child(cur, p) : cur' = nodes[c]
  BY <1>2
<1>4. p \in Nat
  BY DEF find
<1> QED
  BY <1>1, <1>2, <1>3, <1>4, DeleteDown

LEMMA DeleteDescendKeeps == ASSUME IInv, Structure, faults = 0, DeleteDescend PROVE Structure'
<1>1. /\ pc \in {"delete", "pop"} /\ todo = <<>> /\ Compute
      /\ pc' = "delete" /\ todo' = <<>> /\ fresh' = fresh /\ path' = PushCur
  BY DEF DeleteDescend, At, Goto
<1>2. PICK p \in find(cur.values, req.key) :
         (\E c \in Child(cur, p) : cur' = nodes[c]) /\ at' = p
  BY DEF DeleteDescend
<1>3. PICK c \in Child(cur, p) : cur' = nodes[c]
  BY <1>2
<1>4. p \in Nat
  BY DEF find
<1> QED
  BY <1>1, <1>2, <1>3, <1>4, DeleteDown

LEMMA PopDescendKeeps == ASSUME IInv, Structure, faults = 0, PopDescend PROVE Structure'
<1>1. /\ pc = "pop" /\ todo = <<>> /\ Compute /\ target' = target
      /\ pc' = "pop" /\ todo' = <<>> /\ fresh' = fresh /\ path' = PushCur
  BY DEF PopDescend, At, Goto
<1> DEFINE p == Len(cur.children) - 1
<1>2. PICK c \in Child(cur, p) : cur' = nodes[c] /\ at' = p
  BY DEF PopDescend
<1>3. p \in Nat
  <2>1. cur.children \in Seq(Ids \ {rootId}) /\ Len(cur.children) \in Nat
    BY Parts, NodeParts DEF LocalsOK
  <2>2. p + 1 \in DOMAIN cur.children
    BY DEF Child
  <2> QED
    BY <2>1, <2>2
<1> HIDE DEF p
<1> QED
  BY <1>1, <1>2, <1>3, DeleteDown

LEMMA PopLeafKeeps == ASSUME IInv, Structure, faults = 0, PopLeaf PROVE Structure'
<1> DEFINE v == popLast(cur.values)
           w == swap(target.values, hole, Predecessor(cur))
<1>0. /\ pc = "pop" /\ todo = <<>> /\ pc' = "balance" /\ fresh' = fresh /\ Compute
      /\ path' = PushCur /\ cur.leaf /\ cur.values # <<>>
  BY DEF PopLeaf, At, Goto
<1>1. PICK n, m : /\ n = [cur EXCEPT !.values = v] /\ m = [target EXCEPT !.values = w]
                  /\ todo' = IF Backend = "memory" THEN <<persist(n), persist(m)>> ELSE <<persist(n)>>
  BY DEF PopLeaf
<1>2. /\ fresh = <<>> /\ issued = DOMAIN nodes /\ cur.id \in DOMAIN nodes /\ cur = nodes[cur.id]
      /\ target.id \in DOMAIN nodes /\ target = nodes[target.id] /\ ~target.leaf
      /\ \E h : /\ Rests(h) /\ Balanced(nodes, h, NoRepair)
                /\ Trail(nodes, h, PushCur, pc # "insert")
  BY <1>0, AtDescent
<1>3. PICK h : /\ Rests(h) /\ Balanced(nodes, h, NoRepair)
               /\ Trail(nodes, h, PushCur, TRUE)
  BY <1>0, <1>2
<1>4. PICK i \in DOMAIN nodes, j \in DOMAIN nodes :
         /\ cur.id = i /\ target.id = j /\ nodes[i] = cur /\ nodes[j] = target /\ i # j
  BY <1>0, <1>2
<1>5. /\ Typed(nodes) /\ cur \in Node /\ target \in Node /\ i \in Ids /\ j \in Ids
      /\ NodeOK(cur, h[i], NoRepair) /\ NodeOK(target, h[j], NoRepair)
  BY <1>3, <1>4, NodeParts DEF Rests, Typed, Balanced
<1>6. /\ v \in Seq(Tuple) /\ Len(v) = Len(cur.values) - 1 /\ Len(cur.values) >= 1
      /\ w \in Seq(Tuple) /\ Len(w) = Len(target.values)
  <2>1. /\ cur.values \in Seq(Tuple) /\ Len(cur.values) \in Nat /\ Len(cur.values) >= 1
        /\ target.values \in Seq(Tuple) /\ Len(target.values) \in Nat
    BY <1>0, <1>5, NodeParts
  <2>2. v \in Seq(Tuple) /\ Len(v) = Len(cur.values) - 1
    BY <1>0, <2>1, PopLastType
  <2>3. hole \in Nat /\ hole < Len(target.values)
    BY <1>0, Parts DEF LocalsOK
  <2>4. Predecessor(cur) \in Tuple
    BY <2>1 DEF Predecessor, Final
  <2>5. w \in Seq(Tuple) /\ Len(w) = Len(target.values)
    BY <2>1, <2>3, <2>4, SwapTuples
  <2> QED
    BY <2>1, <2>2, <2>5
<1> HIDE DEF v, w
<1>7. PICK weak : weak = {i}
  OBVIOUS
<1>8. NodeOK(n, h[i], weak) /\ Shaped(n) /\ n.children = cur.children /\ n.id = i /\ n \in Node
  <2>1. cur.id \in weak /\ cur.leaf
    BY <1>0, <1>4, <1>7
  <2>2. Len(v) >= Least(cur, weak)
    BY <1>5, <1>6, <2>1, ValuesLess
  <2>3. cur \in Node /\ NodeOK(cur, h[i], NoRepair) /\ v \in Seq(Tuple) /\ n = [cur EXCEPT !.values = v]
    BY <1>1, <1>5, <1>6
  <2>4. NodeOK(n, h[i], weak) /\ Shaped(n) /\ n.children = cur.children /\ n.id = cur.id /\ n \in Node
    BY <2>1, <2>2, <2>3, ValuesOK
  <2> QED
    BY <1>4, <2>4
<1>9. NodeOK(m, h[j], NoRepair) /\ Shaped(m) /\ m.children = target.children /\ m.id = j /\ m \in Node
  <2>1. Len(w) >= Least(target, NoRepair)
    BY <1>5, <1>6 DEF NodeOK
  <2> QED
    BY <1>1, <1>4, <1>5, <1>6, <2>1, ValuesOK, SMTT(30)
<1>10. PICK U : IF Backend = "memory" THEN Replaces(U, nodes, j, m) ELSE U = nodes
  BY Replacing
<1>11. /\ Typed(U) /\ Balanced(U, h, NoRepair) /\ DOMAIN U = DOMAIN nodes /\ U[i] = cur
       /\ \A k \in DOMAIN nodes : U[k].children = nodes[k].children
  <2>1. CASE Backend = "memory"
    <3>1. Replaces(U, nodes, j, m)
      BY <1>10, <2>1
    <3>2. m.children = nodes[j].children /\ NoRepair \subseteq {j}
      BY <1>4, <1>9, NobodyWeak
    <3>3. Balanced(U, h, NoRepair)
      BY <1>3, <1>5, <1>9, <3>1, <3>2, Rewritten
    <3>4. Typed(U)
      BY <1>5, <1>9, <3>1 DEF Typed, Replaces
    <3> QED
      BY <1>4, <1>9, <3>1, <3>3, <3>4 DEF Replaces
  <2>2. CASE Backend # "memory"
    BY <1>3, <1>4, <1>5, <1>10, <2>2
  <2> QED
    BY <2>1, <2>2
<1>12. i \in DOMAIN U
  BY <1>11
<1>13. PICK V : Replaces(V, U, i, n)
  BY <1>12, Replacing
<1>14. /\ DOMAIN V = DOMAIN nodes /\ V[i] = n /\ \A k \in DOMAIN nodes \ {i} : V[k] = U[k]
       /\ \A k \in DOMAIN nodes : V[k].children = nodes[k].children
  BY <1>8, <1>11, <1>13 DEF Replaces
<1>15. Balanced(V, h, weak)
  <2>1. n.children = U[i].children /\ NoRepair \subseteq {i} /\ NodeOK(n, h[i], weak)
    BY <1>8, <1>11, NobodyWeak
  <2>2. Typed(U) /\ Balanced(U, h, NoRepair) /\ i \in DOMAIN U
    BY <1>11
  <2> QED
    BY <1>13, <2>1, <2>2, Rewritten
<1>16. Leads(nodes, todo', V) /\ Removes(todo') = {} /\ DepthOK(depth, todo', h[rootId])
  <2>0. depth = h[rootId] + 1 /\ n.id \in Ids /\ m.id \in Ids /\ Shaped(n) /\ Shaped(m)
    BY <1>3, <1>5, <1>8, <1>9 DEF Rests
  <2>1. CASE Backend = "memory"
    <3>1. todo' = <<persist(n), persist(m)>> /\ Replaces(U, nodes, j, m)
      BY <1>1, <1>10, <2>1
    <3>2. DOMAIN V = DOMAIN nodes \cup {n.id, m.id} /\ V[n.id] = n /\ V[m.id] = m
      BY <1>4, <1>8, <1>9, <1>14, <3>1 DEF Replaces
    <3>3. \A k \in DOMAIN nodes \ {n.id, m.id} : V[k] = nodes[k]
      BY <1>8, <1>9, <1>14, <3>1 DEF Replaces
    <3>4. Leads(nodes, <<persist(n), persist(m)>>, V) /\ Removes(<<persist(n), persist(m)>>) = {}
      BY <2>0, <3>2, <3>3, LeadsTwo
    <3>5. DepthOK(depth, <<persist(n), persist(m)>>, h[rootId])
      BY <2>0, DepthStays
    <3> QED
      BY <3>1, <3>4, <3>5
  <2>2. CASE Backend # "memory"
    <3>1. todo' = <<persist(n)>> /\ U = nodes
      BY <1>1, <1>10, <2>2
    <3>2. DOMAIN V = DOMAIN nodes \cup {n.id} /\ V[n.id] = n
      BY <1>4, <1>8, <1>14
    <3>3. \A k \in DOMAIN nodes \ {n.id} : V[k] = nodes[k]
      BY <1>8, <1>14, <3>1
    <3>4. Leads(nodes, <<persist(n)>>, V) /\ Removes(<<persist(n)>>) = {}
      BY <2>0, <3>2, <3>3, LeadsOne
    <3>5. DepthOK(depth, <<persist(n)>>, h[rootId])
      BY <2>0, DepthStays
    <3> QED
      BY <3>1, <3>4, <3>5
  <2> QED
    BY <2>1, <2>2
<1>17. Ledger(V, todo', issued, <<>>)
  BY <1>2, <1>14, <1>16, SameLedger
<1>18. Trail(V, h, path', TRUE) /\ weak = {Final(path').visitedNode}
  <2>1. Final(PushCur).visitedNode = i
    BY <1>4, VisitedLast
  <2>2. Trail(V, h, PushCur, TRUE)
    BY <1>3, <1>14, SameTrail
  <2> QED
    BY <1>0, <1>7, <2>1, <2>2
<1> QED
  BY <1>0, <1>2, <1>3, <1>15, <1>16, <1>17, <1>18, ComputeFacts, ToBalance DEF Rests

-----------------------------------------------------------------------------
(* balanceTreeAfterDelete.                                                 *)

\* The repair is done where the node has enough values.
LEMMA Repaired ==
    ASSUME NEW W, NEW h, NEW weak, Typed(W), Balanced(W, h, weak), NEW i \in DOMAIN W,
           weak \subseteq {i}, NodeOK(W[i], h[i], NoRepair)
    PROVE  Balanced(W, h, NoRepair)
<1>1. ASSUME NEW j \in DOMAIN W PROVE NodeOK(W[j], h[j], NoRepair)
  <2>1. CASE j = i
    BY <2>1
  <2>2. CASE j # i
    <3>1. W[j] \in Node /\ W[j].id = j /\ NodeOK(W[j], h[j], weak) /\ j \notin weak
      BY <2>2, TypedNode DEF Balanced
    <3> QED
      BY <3>1, NodeStays
  <2> QED
    BY <2>1, <2>2
<1> QED
  BY <1>1 DEF Balanced

\* A node may be expected to be too small that is not.
LEMMA Doubted ==
    ASSUME NEW W, NEW h, Typed(W), Balanced(W, h, NoRepair), NEW weak
    PROVE  Balanced(W, h, weak)
<1>1. ASSUME NEW j \in DOMAIN W PROVE NodeOK(W[j], h[j], weak)
  <2>1. W[j] \in Node /\ NodeOK(W[j], h[j], NoRepair) /\ W[j].id \notin NoRepair
    BY TypedNode, NobodyWeak DEF Balanced
  <2> QED
    BY <2>1, NodeStays
<1> QED
  BY <1>1 DEF Balanced

\* The root is never too small for a repair.
LEMMA RootRepaired ==
    ASSUME NEW W, NEW h, NEW weak, Typed(W), Balanced(W, h, weak), weak = {rootId}
    PROVE  Balanced(W, h, NoRepair)
<1>1. rootId \in DOMAIN W /\ W[rootId].id = rootId /\ NodeOK(W[rootId], h[rootId], weak)
  BY DEF Typed, Balanced
<1>2. NodeOK(W[rootId], h[rootId], NoRepair)
  BY <1>1 DEF NodeOK, Least
<1>3. PICK i \in DOMAIN W : i = rootId
  BY <1>1
<1> QED
  BY <1>2, <1>3, Repaired

LEMMA BalanceRootKeeps == ASSUME IInv, Structure, faults = 0, BalanceRoot PROVE Structure'
<1>0. /\ At("balance") /\ Len(path) <= 1 /\ pc' = "done" /\ Compute
      /\ todo' = <<>> /\ fresh' = fresh
  BY DEF BalanceRoot, At, Finish, locals
<1>1. /\ fresh = <<>> /\ issued = DOMAIN nodes
      /\ \E h : /\ Rests(h) /\ Balanced(nodes, h, {Final(path).visitedNode})
                /\ Trail(nodes, h, path, TRUE)
  BY <1>0, AtBalance
<1>2. PICK h : /\ Rests(h) /\ Balanced(nodes, h, {Final(path).visitedNode})
               /\ Trail(nodes, h, path, TRUE)
  BY <1>1
<1>3. Final(path).visitedNode = rootId
  <2>1. path # <<>> /\ path[1].visitedNode = rootId /\ path \in Seq(deleteStep)
    BY <1>2, VisitedLast DEF Trail
  <2> DEFINE l == Len(path)
  <2>2. l <= 1
    BY <1>0
  <2>3. l \in Nat /\ l >= 1
    BY <2>1, Parts, PopPath DEF LocalsOK
  <2> HIDE DEF l
  <2>4. l = 1
    BY <2>2, <2>3
  <2> QED
    BY <2>1, <2>4 DEF Final, l
<1>4. Balanced(nodes, h, NoRepair)
  <2>1. PICK weak : weak = {rootId} /\ Balanced(nodes, h, weak)
    BY <1>2, <1>3
  <2>2. Typed(nodes)
    BY <1>2 DEF Rests
  <2> QED
    BY <2>1, <2>2, RootRepaired
<1>5. /\ Leads(nodes, todo', nodes) /\ Ledger(nodes, todo', issued, fresh')
      /\ DepthOK(depth, todo', h[rootId]) /\ treeDepth = depth
  BY <1>0, <1>1, <1>2, Unqueued DEF Rests
<1> QED
  BY <1>0, <1>1, <1>4, <1>5, ComputeFacts, ToRest

LEMMA BalanceLoadKeeps == ASSUME IInv, Structure, faults = 0, BalanceLoad PROVE Structure'
<1> DEFINE c == Final(path).visitedNode
<1>0. /\ At("balance") /\ Len(path) > 1 /\ pc' = "fix" /\ Compute /\ todo' = <<>>
      /\ cur' = nodes[c] /\ c \in DOMAIN nodes /\ at' = Final(path).positionInParent
      /\ path' = popLast(path) /\ fresh' = fresh
  BY DEF BalanceLoad, At, Goto, Stores
<1>1. /\ fresh = <<>> /\ issued = DOMAIN nodes
      /\ \E h : /\ Rests(h) /\ Balanced(nodes, h, {Final(path).visitedNode})
                /\ Trail(nodes, h, path, TRUE)
  BY <1>0, AtBalance
<1>2. PICK h : /\ Rests(h) /\ Balanced(nodes, h, {c})
               /\ Trail(nodes, h, path, TRUE)
  BY <1>1
<1>3. path \in Seq(deleteStep) /\ path # <<>>
  BY <1>0, VisitedLast
<1>4. path' # <<>> /\ Final(path) \in deleteStep
  BY <1>0, <1>3, PathEnd
<1>5. cur'.id = c
  BY <1>0, <1>2 DEF Rests, Typed
<1>6. PushCur' = path
  BY <1>0, <1>3, <1>5, GoingBack
<1>7. /\ Leads(nodes, todo', nodes) /\ Ledger(nodes, todo', issued, fresh')
      /\ DepthOK(depth, todo', h[rootId]) /\ treeDepth = depth
  BY <1>0, <1>1, <1>2, Unqueued DEF Rests
<1>8. /\ cur'.id \in DOMAIN nodes /\ nodes[cur'.id] = cur' /\ Balanced(nodes, h, {cur'.id})
      /\ Trail(nodes, h, PushCur', TRUE) /\ Final(PushCur').visitedNode = cur'.id
  BY <1>0, <1>2, <1>5, <1>6
<1> QED
  BY <1>0, <1>1, <1>4, <1>7, <1>8, ComputeFacts, ToFix

\* What every repair starts from.
LEMMA AtRepair ==
    ASSUME IInv, Structure, faults = 0, At("fix")
    PROVE  LET v == Final(path).visitedNode
           IN /\ fresh = <<>> /\ issued = DOMAIN nodes /\ path # <<>>
              /\ cur.id \in DOMAIN nodes \ {rootId} /\ cur = nodes[cur.id]
              /\ v \in DOMAIN nodes /\ v # cur.id /\ nodes[v].id = v /\ Parent = nodes[v]
              /\ cur.id \in Range(nodes[v].children) /\ ~nodes[v].leaf
              /\ at \in Nat /\ at + 1 \in DOMAIN nodes[v].children
              /\ nodes[v].children[at + 1] = cur.id
              /\ \E h : /\ Rests(h) /\ Balanced(nodes, h, {cur.id}) /\ Trail(nodes, h, path, TRUE)
                        /\ h[v] = h[cur.id] + 1
                        /\ NodeOK(cur, h[cur.id], {cur.id}) /\ NodeOK(nodes[v], h[v], NoRepair)
<1> DEFINE v == Final(path).visitedNode
<1>1. /\ fresh = <<>> /\ issued = DOMAIN nodes
      /\ path # <<>> /\ cur.id \in DOMAIN nodes /\ cur = nodes[cur.id]
      /\ \E h : /\ Rests(h) /\ Balanced(nodes, h, {cur.id})
                /\ Trail(nodes, h, PushCur, TRUE)
  BY AtFix
<1>2. PICK h : /\ Rests(h) /\ Balanced(nodes, h, {cur.id})
               /\ Trail(nodes, h, PushCur, TRUE)
  BY <1>1
<1>3. Typed(nodes)
  BY <1>2 DEF Rests
<1>4. PICK weak : weak = {cur.id} /\ Balanced(nodes, h, weak)
  BY <1>2
<1>5. /\ cur.id \in DOMAIN nodes \ {rootId} /\ v \in DOMAIN nodes /\ v # cur.id
      /\ cur.id \in Range(nodes[v].children) /\ h[v] = h[cur.id] + 1 /\ ~nodes[v].leaf
      /\ Trail(nodes, h, path, TRUE)
  BY <1>1, <1>2, <1>3, <1>4, ParentFacts
<1>6. at \in Nat /\ at + 1 \in DOMAIN nodes[v].children /\ nodes[v].children[at + 1] = cur.id
  BY <1>1, <1>2, <1>3, <1>4, ParentAt
<1>7. nodes[v].id = v /\ Parent = nodes[v] /\ nodes[v] \in Node
  BY <1>3, <1>5 DEF Typed, Parent
<1>8. NodeOK(cur, h[cur.id], {cur.id}) /\ NodeOK(nodes[v], h[v], weak)
  BY <1>1, <1>2, <1>4, <1>5 DEF Balanced
<1>9. NodeOK(nodes[v], h[v], NoRepair)
  <2>1. nodes[v].id \notin weak
    BY <1>4, <1>5, <1>7
  <2> QED
    BY <1>7, <1>8, <2>1, NodeStays
<1> QED
  BY <1>1, <1>2, <1>5, <1>6, <1>7, <1>8, <1>9

LEMMA FixDoneKeeps == ASSUME IInv, Structure, faults = 0, FixDone PROVE Structure'
<1>0. /\ At("fix") /\ ~Underfull(cur) /\ pc' = "done" /\ Compute
      /\ todo' = <<>> /\ fresh' = fresh
  BY DEF FixDone, At, Finish, locals
<1>1. /\ fresh = <<>> /\ issued = DOMAIN nodes
      /\ cur.id \in DOMAIN nodes \ {rootId} /\ cur = nodes[cur.id]
      /\ \E h : /\ Rests(h) /\ Balanced(nodes, h, {cur.id})
                /\ NodeOK(cur, h[cur.id], {cur.id})
  BY <1>0, AtRepair
<1>2. PICK h : /\ Rests(h) /\ Balanced(nodes, h, {cur.id}) /\ NodeOK(cur, h[cur.id], {cur.id})
  BY <1>1
<1>3. NodeOK(cur, h[cur.id], NoRepair)
  <2>1. cur \in Node /\ Len(cur.values) \in Nat
    BY Parts, NodeParts DEF LocalsOK
  <2>2. Len(cur.values) >= Least(cur, NoRepair)
    BY <1>0, <1>1, <2>1, Parameters, NobodyWeak DEF Underfull, Least
  <2> QED
    BY <1>2, <2>2 DEF NodeOK
<1>4. Balanced(nodes, h, NoRepair)
  <2>1. PICK weak : weak = {cur.id} /\ Balanced(nodes, h, weak)
    BY <1>2
  <2>2. PICK i \in DOMAIN nodes : i = cur.id /\ nodes[i] = cur
    BY <1>1
  <2>3. weak \subseteq {i} /\ NodeOK(nodes[i], h[i], NoRepair)
    BY <1>3, <2>1, <2>2
  <2>4. Typed(nodes)
    BY <1>2 DEF Rests
  <2> QED
    BY <2>1, <2>3, <2>4, Repaired
<1>5. /\ Leads(nodes, todo', nodes) /\ Ledger(nodes, todo', issued, fresh')
      /\ DepthOK(depth, todo', h[rootId]) /\ treeDepth = depth
  BY <1>0, <1>1, <1>2, Unqueued DEF Rests
<1> QED
  BY <1>0, <1>1, <1>4, <1>5, ComputeFacts, ToRest

\* The calls t, which are about to be queued, lead to U.
CallsLead(U, g, t) ==
    /\ Leads(nodes, t, U) /\ Ledger(U, t, issued, <<>>)
    /\ treeDepth = depth /\ DepthOK(depth, t, g[rootId])

\* An iteration ends at the root, or the next one goes on at the parent.
LEMMA LevelDone ==
    ASSUME IInv, faults = 0, fresh = <<>>, path # <<>>, NEW parent, NextLevel(parent),
           parent.id = Final(path).visitedNode,
           NEW U, NEW g, Typed(U), CallsLead(U, g, todo'),
           NEW weak, weak = {parent.id}, Balanced(U, g, weak), Trail(U, g, path, TRUE),
           Len(path) > 1 => U[parent.id] = parent
    PROVE  Structure'
<1>0. /\ cur' = parent /\ at' = Final(path).positionInParent /\ path' = popLast(path)
      /\ AfterLevel /\ Compute /\ fresh' = <<>>
  BY DEF NextLevel
<1>1. /\ path \in Seq(deleteStep) /\ Len(path) \in Nat /\ Len(path) >= 1
      /\ path[1].visitedNode = rootId
  BY VisitedLast, Parts, PopPath DEF LocalsOK, Trail
<1> DEFINE l == Len(path)
<1>5. l \in Nat /\ l >= 1
  BY <1>1
<1>2. /\ Leads(nodes', todo', U) /\ Ledger(U, todo', issued', fresh')
      /\ treeDepth' = depth' /\ DepthOK(depth', todo', g[rootId]) /\ faults' = 0
  BY <1>0, ComputeFacts DEF CallsLead
<1> HIDE DEF l
<1>6. l = 1 \/ l > 1
  BY <1>5
<1>3. CASE Len(path) = 1
  <2>1. pc' = "done" /\ weak = {rootId}
    BY <1>0, <1>1, <1>3 DEF AfterLevel, Finish, Final
  <2>2. Balanced(U, g, NoRepair)
    BY <2>1, RootRepaired
  <2> QED
    BY <1>0, <1>2, <2>1, <2>2, ToRest
<1>4. CASE Len(path) > 1
  <2>7. l > 1
    BY <1>4 DEF l
  <2>6. l # 1
    BY <1>5, <2>7
  <2>1. pc' = "fix"
    BY <1>0, <2>6 DEF AfterLevel, Goto, l
  <2>2. PushCur' = path
    BY <1>0, GoingBack
  <2>3. path' # <<>>
    BY <1>0, <1>1, <1>4, PathEnd
  <2>4. cur'.id \in DOMAIN U /\ U[cur'.id] = cur'
    <3>1. path[Len(path)].visitedNode \in DOMAIN U
      BY <1>1 DEF Trail
    <3> QED
      BY <1>0, <1>4, <3>1 DEF Final
  <2>5. /\ Balanced(U, g, {cur'.id}) /\ Trail(U, g, PushCur', TRUE)
        /\ Final(PushCur').visitedNode = cur'.id
    BY <1>0, <2>2
  <2> QED
    BY <1>0, <1>2, <2>1, <2>3, <2>4, <2>5, ToFix
<1> QED
  BY <1>3, <1>4, <1>6 DEF l

\* The children that move when a value is borrowed.
FirstChild(n) == IF n.leaf THEN {} ELSE {n.children[1]}
LastChild(n) == IF n.leaf THEN {} ELSE {Final(n.children)}

\* A sibling that lends keeps enough.
LEMMA LendKeeps ==
    ASSUME NEW n \in Node, NEW x, NodeOK(n, x, NoRepair), CanLend(n), n.id # rootId,
           n.leaf = cur.leaf
    PROVE  /\ NodeOK(LendFirst(n), x, NoRepair) /\ NodeOK(LendLast(n), x, NoRepair)
           /\ LendFirst(n) \in Node /\ LendLast(n) \in Node
           /\ LendFirst(n).id = n.id /\ LendLast(n).id = n.id
           /\ FirstChild(n) \subseteq Range(n.children) /\ LastChild(n) \subseteq Range(n.children)
           /\ Range(LendFirst(n).children) = Range(n.children) \ FirstChild(n)
           /\ Range(LendLast(n).children) = Range(n.children) \ LastChild(n)
<1> DEFINE S == Ids \ {rootId}
           u == popFirst(n.values)
           w == popLast(n.values)
           c == IF cur.leaf THEN n.children ELSE popFirst(n.children)
           d == IF cur.leaf THEN n.children ELSE popLast(n.children)
<1>1. /\ n.id \in Ids /\ n.values \in Seq(Tuple) /\ n.children \in Seq(S)
      /\ n.leaf \in BOOLEAN /\ Len(n.values) \in Nat /\ Len(n.children) \in Nat
  BY NodeParts
<1>2. Len(n.values) >= a /\ Len(n.values) >= 2
  BY <1>1, Parameters DEF CanLend
<1>3. /\ u \in Seq(Tuple) /\ Len(u) = Len(n.values) - 1
      /\ w \in Seq(Tuple) /\ Len(w) = Len(n.values) - 1
  <2>1. n.values # <<>> /\ 0 < Len(n.values) /\ 0 \in Nat
    BY <1>1, <1>2
  <2> QED
    BY <1>1, <2>1, PopType, PopLastType DEF popFirst
<1>4. /\ n.leaf => n.children = <<>> /\ x = 0
      /\ ~n.leaf => Len(n.children) = Len(n.values) + 1
      /\ IsInjective(n.children)
  BY DEF NodeOK, Shaped
<1>5. /\ c \in Seq(S) /\ d \in Seq(S) /\ IsInjective(c) /\ IsInjective(d)
      /\ ~n.leaf => Len(c) = Len(n.children) - 1 /\ Len(d) = Len(n.children) - 1
      /\ n.leaf => c = <<>> /\ d = <<>>
      /\ FirstChild(n) \subseteq Range(n.children) /\ LastChild(n) \subseteq Range(n.children)
      /\ Range(c) = Range(n.children) \ FirstChild(n)
      /\ Range(d) = Range(n.children) \ LastChild(n)
  <2>1. CASE n.leaf
    <3>1. c = n.children /\ d = n.children /\ FirstChild(n) = {} /\ LastChild(n) = {}
      BY <2>1 DEF FirstChild, LastChild
    <3> HIDE DEF c, d
    <3> QED
      BY <1>1, <1>4, <2>1, <3>1
  <2>2. CASE ~n.leaf
    <3>1. n.children # <<>> /\ 0 < Len(n.children) /\ 0 \in Nat /\ Len(n.children) >= 1
      BY <1>1, <1>2, <1>4, <2>2
    <3>2. c = pop(n.children, 0) /\ d = popLast(n.children)
      BY <2>2 DEF popFirst
    <3> HIDE DEF c, d
    <3>3. /\ c \in Seq(S) /\ Len(c) = Len(n.children) - 1 /\ IsInjective(c)
          /\ Range(c) = Range(n.children) \ {n.children[1]}
      BY <1>1, <1>4, <3>1, <3>2, PopType, PopElements
    <3>4. /\ d \in Seq(S) /\ Len(d) = Len(n.children) - 1 /\ IsInjective(d)
          /\ Range(d) = Range(n.children) \ {n.children[Len(n.children)]}
      BY <1>1, <1>4, <3>1, <3>2, PopLastType, PopLastElements
    <3>5. n.children[1] \in Range(n.children) /\ n.children[Len(n.children)] \in Range(n.children)
      BY <1>1, <3>1 DEF Range
    <3>6. FirstChild(n) = {n.children[1]} /\ LastChild(n) = {n.children[Len(n.children)]}
      BY <2>2 DEF FirstChild, LastChild, Final
    <3> QED
      BY <2>2, <3>3, <3>4, <3>5, <3>6
  <2> QED
    BY <1>1, <2>1, <2>2
<1> DEFINE lf == LendFirst(n)
           ll == LendLast(n)
<1>6. /\ lf \in Node /\ lf.id = n.id /\ lf.leaf = n.leaf /\ lf.values = u /\ lf.children = c
      /\ ll \in Node /\ ll.id = n.id /\ ll.leaf = n.leaf /\ ll.values = w /\ ll.children = d
  <2>1. lf = [n EXCEPT !.values = u, !.children = c] /\ ll = [n EXCEPT !.values = w, !.children = d]
    BY DEF LendFirst, LendLast
  <2> HIDE DEF lf, ll, c, d, u, w
  <2> QED
    BY <1>3, <1>5, <2>1 DEF Node
<1> HIDE DEF lf, ll, c, d, u, w
<1>7. NodeOK(lf, x, NoRepair) /\ NodeOK(ll, x, NoRepair)
  <2>1. Shaped(lf) /\ Shaped(ll)
    BY <1>1, <1>3, <1>4, <1>5, <1>6 DEF Shaped
  <2>2. Len(lf.values) >= a - 1 /\ Len(ll.values) >= a - 1
    BY <1>1, <1>2, <1>3, <1>6, Parameters
  <2> QED
    BY <1>4, <1>5, <1>6, <2>1, <2>2, HalfOK
<1> QED
  BY <1>5, <1>6, <1>7 DEF lf, ll

\* The node that borrows has enough afterwards.
LEMMA TakeKeeps ==
    ASSUME cur \in Node, NEW x, NEW weak, NodeOK(cur, x, weak), cur.id # rootId,
           NEW n \in Node, Shaped(n), n.leaf = cur.leaf,
           Range(n.children) \cap Range(cur.children) = {}, NEW t \in Tuple
    PROVE  /\ NodeOK(TakeLast(t, n), x, NoRepair) /\ NodeOK(TakeFirst(t, n), x, NoRepair)
           /\ TakeLast(t, n) \in Node /\ TakeFirst(t, n) \in Node
           /\ TakeLast(t, n).id = cur.id /\ TakeFirst(t, n).id = cur.id
           /\ Range(TakeLast(t, n).children) = Range(cur.children) \cup FirstChild(n)
           /\ Range(TakeFirst(t, n).children) = Range(cur.children) \cup LastChild(n)
<1> DEFINE S == Ids \ {rootId}
           u == Append(cur.values, t)
           w == prepend(cur.values, t)
           c == IF cur.leaf THEN cur.children ELSE Append(cur.children, n.children[1])
           d == IF cur.leaf THEN cur.children ELSE prepend(cur.children, Final(n.children))
<1>1. /\ cur.id \in Ids /\ cur.values \in Seq(Tuple) /\ cur.children \in Seq(S)
      /\ cur.leaf \in BOOLEAN /\ Len(cur.values) \in Nat /\ Len(cur.children) \in Nat
      /\ n.children \in Seq(S) /\ Len(n.children) \in Nat /\ Len(n.values) \in Nat
  BY NodeParts
<1>2. Len(cur.values) >= a - 2
  BY <1>1, Parameters DEF NodeOK, Least
<1>3. /\ u \in Seq(Tuple) /\ Len(u) = Len(cur.values) + 1
      /\ w \in Seq(Tuple) /\ Len(w) = Len(cur.values) + 1
  <2>1. cur.values \in Seq(Tuple)
    BY <1>1
  <2>2. u \in Seq(Tuple) /\ Len(u) = Len(cur.values) + 1
    BY <2>1
  <2>3. w \in Seq(Tuple) /\ Len(w) = Len(cur.values) + 1
    BY <2>1, PrependType
  <2> QED
    BY <2>2, <2>3
<1>4. /\ cur.leaf => cur.children = <<>> /\ x = 0
      /\ ~cur.leaf => Len(cur.children) = Len(cur.values) + 1
      /\ IsInjective(cur.children)
  BY DEF NodeOK, Shaped
<1>5. /\ c \in Seq(S) /\ d \in Seq(S) /\ IsInjective(c) /\ IsInjective(d)
      /\ ~cur.leaf => Len(c) = Len(cur.children) + 1 /\ Len(d) = Len(cur.children) + 1
      /\ cur.leaf => c = <<>> /\ d = <<>>
      /\ Range(c) = Range(cur.children) \cup FirstChild(n)
      /\ Range(d) = Range(cur.children) \cup LastChild(n)
  <2>1. CASE cur.leaf
    <3>1. c = cur.children /\ d = cur.children /\ FirstChild(n) = {} /\ LastChild(n) = {}
      BY <2>1 DEF FirstChild, LastChild
    <3> HIDE DEF c, d
    <3> QED
      BY <1>1, <1>4, <2>1, <3>1
  <2>2. CASE ~cur.leaf
    <3>1. Len(n.children) >= 1
      BY <1>1, <2>2 DEF Shaped
    <3>2. PICK e, f : e = n.children[1] /\ f = n.children[Len(n.children)]
      OBVIOUS
    <3>3. e \in Range(n.children) /\ f \in Range(n.children) /\ e \in S /\ f \in S
      BY <1>1, <3>1, <3>2 DEF Range
    <3>4. e \notin Range(cur.children) /\ f \notin Range(cur.children)
      BY <3>3
    <3>5. c = Append(cur.children, e) /\ d = prepend(cur.children, f)
          /\ FirstChild(n) = {e} /\ LastChild(n) = {f}
      BY <2>2, <3>2 DEF Final, FirstChild, LastChild
    <3> HIDE DEF c, d, S
    <3>a. cur.children \in Seq(S) /\ IsInjective(cur.children)
      BY <1>1, <1>4
    <3>b. c = Append(cur.children, e) /\ d = prepend(cur.children, f)
      BY <3>5
    <3>6. c \in Seq(S) /\ Len(c) = Len(cur.children) + 1
      BY <3>a, <3>b, <3>3
    <3>c. IsInjective(c) /\ Range(c) = Range(cur.children) \cup {e}
      BY <3>a, <3>b, <3>3, <3>4, AppendElements
    <3>7. d \in Seq(S) /\ Len(d) = Len(cur.children) + 1
      BY <3>a, <3>b, <3>3, PrependType
    <3>d. IsInjective(d) /\ Range(d) = Range(cur.children) \cup {f}
      BY <3>a, <3>b, <3>3, <3>4, PrependElements
    <3> QED
      BY <2>2, <3>5, <3>6, <3>c, <3>7, <3>d
  <2> QED
    BY <1>1, <2>1, <2>2
<1> DEFINE tl == TakeLast(t, n)
           tf == TakeFirst(t, n)
<1>6. /\ tl \in Node /\ tl.id = cur.id /\ tl.leaf = cur.leaf /\ tl.values = u /\ tl.children = c
      /\ tf \in Node /\ tf.id = cur.id /\ tf.leaf = cur.leaf /\ tf.values = w /\ tf.children = d
  <2>1. /\ tl = [cur EXCEPT !.values = u, !.children = c]
        /\ tf = [cur EXCEPT !.values = w, !.children = d]
    BY DEF TakeLast, TakeFirst
  <2> HIDE DEF tl, tf, c, d, u, w
  <2> QED
    BY <1>3, <1>5, <2>1 DEF Node
<1> HIDE DEF tl, tf, c, d, u, w
<1>7. NodeOK(tl, x, NoRepair) /\ NodeOK(tf, x, NoRepair)
  <2>1. Shaped(tl) /\ Shaped(tf)
    BY <1>1, <1>3, <1>4, <1>5, <1>6 DEF Shaped
  <2>2. Len(tl.values) >= a - 1 /\ Len(tf.values) >= a - 1
    BY <1>1, <1>2, <1>3, <1>6, Parameters
  <2> QED
    BY <1>4, <1>5, <1>6, <2>1, <2>2, HalfOK
<1> QED
  BY <1>5, <1>6, <1>7 DEF tl, tf

\* Children move between two nodes; a third one keeps its own.
Borrows(W, U, x, s, v, C) ==
    /\ {x, s, v} \subseteq DOMAIN W /\ x # s /\ x # v /\ s # v
    /\ DOMAIN U = DOMAIN W /\ \A j \in DOMAIN W \ {x, s, v} : U[j] = W[j]
    /\ C \subseteq Range(W[s].children)
    /\ Range(U[s].children) = Range(W[s].children) \ C
    /\ Range(U[x].children) = Range(W[x].children) \cup C
    /\ Range(U[v].children) = Range(W[v].children)

LEMMA BorrowBalance ==
    ASSUME NEW W, NEW h, NEW weak, Balanced(W, h, weak), Typed(W),
           NEW x, NEW s, NEW v, weak = {x}, h[s] = h[x],
           NEW U, NEW C, Borrows(W, U, x, s, v, C),
           \A j \in {x, s, v} : NodeOK(U[j], h[j], NoRepair)
    PROVE  Balanced(U, h, NoRepair)
<1>1. ASSUME NEW j \in DOMAIN U PROVE NodeOK(U[j], h[j], NoRepair)
  <2>1. CASE j \in {x, s, v}
    BY <2>1
  <2>2. CASE j \notin {x, s, v}
    <3>1. W[j] \in Node /\ W[j].id = j /\ NodeOK(W[j], h[j], weak) /\ j \notin weak /\ U[j] = W[j]
      BY <2>2, TypedNode DEF Balanced, Borrows
    <3> QED
      BY <3>1, NodeStays
  <2> QED
    BY <2>1, <2>2
<1> DEFINE K == ChildSets(W)
           L == ChildSets(U)
<1>2. /\ DOMAIN K = DOMAIN W /\ DOMAIN L = DOMAIN U
      /\ \A j \in DOMAIN W : K[j] = Range(W[j].children)
      /\ \A j \in DOMAIN U : L[j] = Range(U[j].children)
  BY DEF ChildSets
<1>3. Linked(K, h)
  BY DEF Balanced
<1> HIDE DEF K, L
<1>4. ChildrenMove(K, L, s, x, C)
  <2>1. /\ s \in DOMAIN K /\ x \in DOMAIN K /\ s # x /\ DOMAIN L = DOMAIN K
        /\ C \subseteq K[s] /\ L[s] = K[s] \ C /\ L[x] = K[x] \cup C
    BY <1>2 DEF Borrows
  <2>2. ASSUME NEW j \in DOMAIN K \ {s, x} PROVE L[j] = K[j]
    BY <1>2, <2>2 DEF Borrows
  <2> QED
    BY <2>1, <2>2 DEF ChildrenMove
<1>5. Linked(L, h)
  BY <1>3, <1>4, LinkedMove
<1> QED
  BY <1>1, <1>5 DEF Balanced, Borrows, L

\* The sibling of cur: another child of its parent, at the same height.
LEMMA SiblingFacts ==
    ASSUME NEW W, NEW h, NEW weak, Typed(W), Balanced(W, h, weak), NEW v \in DOMAIN W,
           NEW x, weak = {x}, NEW i \in DOMAIN W[v].children, W[v].children[i] = x,
           NEW j \in DOMAIN W[v].children, i # j, NEW s, W[v].children[j] = s
    PROVE  /\ s \in DOMAIN W \ {rootId} /\ x \in DOMAIN W \ {rootId} /\ s # x /\ s # v
           /\ s \in Range(W[v].children) /\ x \in Range(W[v].children)
           /\ h[s] = h[x] /\ h[v] = h[s] + 1 /\ W[s] \in Node /\ W[s].id = s
           /\ NodeOK(W[s], h[s], NoRepair) /\ W[s].leaf = W[x].leaf
           /\ Range(W[s].children) \cap Range(W[x].children) = {}
<1>1. IsInjective(W[v].children)
  BY DEF Balanced, NodeOK
<1>2. s # x
  BY <1>1 DEF IsInjective
<1>3. s \in Range(W[v].children) /\ x \in Range(W[v].children)
  BY DEF Range
<1>4. /\ s \in DOMAIN W \ {rootId} /\ h[v] = h[s] + 1
      /\ x \in DOMAIN W \ {rootId} /\ h[v] = h[x] + 1
  BY <1>3, ChildFacts
<1>5. h[s] \in Nat /\ h[x] \in Nat /\ h[v] \in Nat
  BY <1>4, Heights
<1>6. h[s] = h[x] /\ s # v
  <2> DEFINE hs == h[s]
             hx == h[x]
             hv == h[v]
  <2>1. hs \in Nat /\ hx \in Nat /\ hv = hs + 1 /\ hv = hx + 1
    BY <1>4, <1>5
  <2> HIDE DEF hs, hx, hv
  <2>2. hs = hx /\ hs # hv
    BY <2>1
  <2> QED
    BY <2>2 DEF hs, hx, hv
<1>7. W[s] \in Node /\ W[s].id = s /\ W[s].leaf \in BOOLEAN /\ W[x].leaf \in BOOLEAN
  BY <1>4, TypedNode
<1>8. NodeOK(W[s], h[s], NoRepair)
  <2>1. NodeOK(W[s], h[s], weak) /\ W[s].id \notin weak
    BY <1>2, <1>4, <1>7 DEF Balanced
  <2> QED
    BY <1>7, <2>1, NodeStays
<1>9. W[s].leaf = W[x].leaf
  <2>1. (W[s].leaf <=> h[s] = 0) /\ (W[x].leaf <=> h[x] = 0)
    BY <1>4, LeafHeight
  <2> QED
    BY <1>6, <1>7, <2>1
<1>10. Range(W[s].children) \cap Range(W[x].children) = {}
  <2>1. ASSUME NEW c \in Range(W[s].children), c \in Range(W[x].children) PROVE FALSE
    <3>1. /\ DOMAIN ChildSets(W) = DOMAIN W
          /\ \A j_1 \in DOMAIN W : ChildSets(W)[j_1] = Range(W[j_1].children)
      BY DEF ChildSets
    <3> QED
      BY <1>2, <1>4, <2>1, <3>1 DEF Balanced, Linked
  <2> QED
    BY <2>1
<1> QED
  BY <1>2, <1>3, <1>4, <1>6, <1>7, <1>8, <1>9, <1>10

\* cur lacks a value; s is its sibling and v their parent.
Repairs(h, v, s) ==
    /\ fresh = <<>> /\ issued = DOMAIN nodes /\ path # <<>> /\ v = Final(path).visitedNode
    /\ Rests(h) /\ Balanced(nodes, h, {cur.id}) /\ Trail(nodes, h, path, TRUE)
    /\ {cur.id, s, v} \subseteq DOMAIN nodes
    /\ cur.id # s /\ cur.id # v /\ s # v /\ s # rootId /\ cur.id # rootId
    /\ cur = nodes[cur.id] /\ Parent = nodes[v] /\ nodes[v].id = v /\ nodes[s].id = s
    /\ h[s] = h[cur.id] /\ h[v] = h[s] + 1
    /\ cur.id \in Range(nodes[v].children) /\ s \in Range(nodes[v].children)
    /\ NodeOK(cur, h[cur.id], {cur.id}) /\ NodeOK(nodes[s], h[s], NoRepair)
    /\ NodeOK(nodes[v], h[v], NoRepair) /\ ~nodes[v].leaf
    /\ nodes[s].leaf = cur.leaf /\ Range(nodes[s].children) \cap Range(cur.children) = {}
    /\ at \in Nat /\ at + 1 \in DOMAIN Parent.children /\ Parent.children[at + 1] = cur.id

LEMMA RepairStarts ==
    ASSUME IInv, Structure, faults = 0, NEW m \in Nat, m # at, Fixing(m)
    PROVE  /\ m + 1 \in DOMAIN Parent.children
           /\ \E h : Repairs(h, Final(path).visitedNode, Parent.children[m + 1])
<1> DEFINE v == Final(path).visitedNode
           s == Parent.children[m + 1]
<1>1. At("fix") /\ m + 1 \in DOMAIN Parent.children
  BY DEF Fixing, Child
<1>2. /\ fresh = <<>> /\ issued = DOMAIN nodes /\ path # <<>>
      /\ cur.id \in DOMAIN nodes \ {rootId} /\ cur = nodes[cur.id]
      /\ v \in DOMAIN nodes /\ v # cur.id /\ nodes[v].id = v /\ Parent = nodes[v]
      /\ cur.id \in Range(nodes[v].children) /\ ~nodes[v].leaf
      /\ at \in Nat /\ at + 1 \in DOMAIN nodes[v].children
      /\ nodes[v].children[at + 1] = cur.id
      /\ \E h : /\ Rests(h) /\ Balanced(nodes, h, {cur.id}) /\ Trail(nodes, h, path, TRUE)
                /\ h[v] = h[cur.id] + 1
                /\ NodeOK(cur, h[cur.id], {cur.id}) /\ NodeOK(nodes[v], h[v], NoRepair)
  BY <1>1, AtRepair
<1>3. PICK h : /\ Rests(h) /\ Balanced(nodes, h, {cur.id}) /\ Trail(nodes, h, path, TRUE)
               /\ h[v] = h[cur.id] + 1
               /\ NodeOK(cur, h[cur.id], {cur.id}) /\ NodeOK(nodes[v], h[v], NoRepair)
  BY <1>2
<1>4. PICK x, weak, i, j : /\ x = cur.id /\ weak = {x} /\ Balanced(nodes, h, weak)
                           /\ i = at + 1 /\ j = m + 1
  BY <1>3
<1>5. /\ i \in DOMAIN nodes[v].children /\ nodes[v].children[i] = x
      /\ j \in DOMAIN nodes[v].children /\ i # j /\ nodes[v].children[j] = s
  BY <1>1, <1>2, <1>4
<1>6. Typed(nodes) /\ v \in DOMAIN nodes
  BY <1>2, <1>3 DEF Rests
<1> HIDE DEF v, s
<1>7. /\ s \in DOMAIN nodes \ {rootId} /\ x \in DOMAIN nodes \ {rootId} /\ s # x /\ s # v
      /\ s \in Range(nodes[v].children) /\ x \in Range(nodes[v].children)
      /\ h[s] = h[x] /\ h[v] = h[s] + 1 /\ nodes[s] \in Node /\ nodes[s].id = s
      /\ NodeOK(nodes[s], h[s], NoRepair) /\ nodes[s].leaf = nodes[x].leaf
      /\ Range(nodes[s].children) \cap Range(nodes[x].children) = {}
  BY <1>4, <1>5, <1>6, SiblingFacts, SMTT(30)
<1>8. Repairs(h, v, s)
  BY <1>2, <1>3, <1>4, <1>7 DEF Repairs, v
<1> QED
  BY <1>1, <1>8 DEF v, s

\* The three nodes after a value was borrowed.
Borrowed(h, v, s, lent, parent, taken, C) ==
    /\ lent \in Node /\ lent.id = s /\ NodeOK(lent, h[s], NoRepair)
    /\ taken \in Node /\ taken.id = cur.id /\ NodeOK(taken, h[cur.id], NoRepair)
    /\ parent \in Node /\ parent.id = v /\ NodeOK(parent, h[v], NoRepair)
    /\ parent.children = nodes[v].children
    /\ C \subseteq Range(nodes[s].children)
    /\ Range(lent.children) = Range(nodes[s].children) \ C
    /\ Range(taken.children) = Range(cur.children) \cup C

LEMMA BorrowKeeps ==
    ASSUME IInv, faults = 0, NEW h, NEW v, NEW s, Repairs(h, v, s),
           NEW lent, NEW parent, NEW taken, NEW C, Borrowed(h, v, s, lent, parent, taken, C),
           todo' = <<persist(lent), persist(parent), persist(taken)>>, NextLevel(parent)
    PROVE  Structure'
<1> DEFINE x == cur.id
           t == <<persist(lent), persist(parent), persist(taken)>>
<1>1. /\ {x, s, v} \subseteq DOMAIN nodes /\ x # s /\ x # v /\ s # v /\ nodes[x] = cur
      /\ h[s] = h[x] /\ h[v] = h[s] + 1 /\ Typed(nodes) /\ Rests(h)
      /\ issued = DOMAIN nodes /\ fresh = <<>> /\ path # <<>> /\ v = Final(path).visitedNode
      /\ Trail(nodes, h, path, TRUE) /\ treeDepth = depth /\ depth = h[rootId] + 1
  BY DEF Repairs, Rests
<1>2. PICK weak : weak = {x} /\ Balanced(nodes, h, weak)
  BY DEF Repairs
<1>3. /\ lent \in Node /\ lent.id = s /\ NodeOK(lent, h[s], NoRepair)
      /\ taken \in Node /\ taken.id = x /\ NodeOK(taken, h[x], NoRepair)
      /\ parent \in Node /\ parent.id = v /\ NodeOK(parent, h[v], NoRepair)
      /\ parent.children = nodes[v].children
      /\ C \subseteq Range(nodes[s].children)
      /\ Range(lent.children) = Range(nodes[s].children) \ C
      /\ Range(taken.children) = Range(nodes[x].children) \cup C
  BY <1>1 DEF Borrowed
<1>4. NatHeights(nodes, h)
  BY <1>1, <1>2, Heights DEF NatHeights, Rests, Typed
<1> HIDE DEF x
<1>5. PICK U : U = [j \in DOMAIN nodes |-> IF j = s THEN lent ELSE IF j = v THEN parent
                                           ELSE IF j = x THEN taken ELSE nodes[j]]
  OBVIOUS
<1>6. /\ DOMAIN U = DOMAIN nodes /\ U[s] = lent /\ U[v] = parent /\ U[x] = taken
      /\ \A j \in DOMAIN nodes \ {x, s, v} : U[j] = nodes[j]
  BY <1>1, <1>5
<1>7. Borrows(nodes, U, x, s, v, C)
  BY <1>1, <1>3, <1>6 DEF Borrows
<1>8. \A j \in {x, s, v} : NodeOK(U[j], h[j], NoRepair)
  BY <1>3, <1>6
<1>9. Balanced(U, h, NoRepair)
  BY <1>1, <1>2, <1>7, <1>8, BorrowBalance
<1>10. Typed(U)
  <2>1. ASSUME NEW j \in DOMAIN U PROVE U[j] \in Node /\ U[j].id = j
    <3>1. CASE j \in {x, s, v}
      BY <1>3, <1>6, <3>1
    <3>2. CASE j \notin {x, s, v}
      BY <1>1, <1>6, <3>2 DEF Typed
    <3> QED
      BY <3>1, <3>2
  <2> QED
    BY <1>1, <1>6, <2>1 DEF Typed
<1>11. Trail(U, h, path, TRUE)
  <2>1. SameAbove(nodes, h, U, h, v)
    <3>1. ASSUME NEW i \in DOMAIN nodes, h[i] > h[v]
          PROVE  i \in DOMAIN U /\ U[i].children = nodes[i].children
      <4> DEFINE hi == h[i]
                 hv == h[v]
                 hs == h[s]
      <4>1. hi \in Nat /\ hs \in Nat /\ hv = hs + 1 /\ hi > hv /\ h[x] = hs
        BY <1>1, <1>4, <3>1 DEF NatHeights
      <4> HIDE DEF hi, hv, hs
      <4>2. hi # hv /\ hi # hs
        BY <4>1
      <4>3. i \notin {x, s, v}
        BY <4>1, <4>2 DEF hi, hv, hs
      <4> QED
        BY <1>6, <4>3
    <3> QED
      BY <1>1, <1>6, <3>1 DEF SameAbove
  <2>2. path \in Seq(deleteStep)
    BY VisitedLast
  <2> QED
    BY <1>1, <1>4, <2>1, <2>2, TrailAbove
<1>12. Leads(nodes, t, U) /\ Removes(t) = {}
  <2>1. /\ lent.id \in Ids /\ parent.id \in Ids /\ taken.id \in Ids
        /\ Shaped(lent) /\ Shaped(parent) /\ Shaped(taken)
    BY <1>3 DEF NodeOK, Node
  <2>2. /\ DOMAIN U = DOMAIN nodes \cup {lent.id, parent.id, taken.id}
        /\ U[lent.id] = lent /\ U[parent.id] = parent /\ U[taken.id] = taken
    BY <1>1, <1>3, <1>6
  <2>3. \A j \in DOMAIN nodes \ {lent.id, parent.id, taken.id} : U[j] = nodes[j]
    BY <1>3, <1>6
  <2> QED
    BY <2>1, <2>2, <2>3, LeadsThree
<1>13. CallsLead(U, h, t)
  <2>1. Ledger(U, t, issued, <<>>)
    BY <1>1, <1>6, <1>12, SameLedger
  <2>2. DepthOK(depth, t, h[rootId])
    BY <1>1, DepthStays
  <2> QED
    BY <1>1, <1>12, <2>1, <2>2 DEF CallsLead
<1>14. CallsLead(U, h, todo')
  BY <1>13
<1>15. PICK doubt : doubt = {parent.id} /\ Balanced(U, h, doubt)
  BY <1>9, <1>10, Doubted
<1>16. parent.id = Final(path).visitedNode /\ U[parent.id] = parent
  BY <1>1, <1>3, <1>6
<1> HIDE DEF t
<1> QED
  BY <1>1, <1>10, <1>11, <1>14, <1>15, <1>16, LevelDone

\* The parent with another value in the place of one of its values.
LEMMA SwapKeeps ==
    ASSUME NEW n \in Node, NEW x, NodeOK(n, x, NoRepair), NEW p \in Nat, p < Len(n.values),
           NEW e \in Tuple
    PROVE  LET m == [n EXCEPT !.values = swap(n.values, p, e)]
           IN /\ m \in Node /\ m.id = n.id /\ m.children = n.children
              /\ NodeOK(m, x, NoRepair)
<1> DEFINE w == swap(n.values, p, e)
<1>1. n.values \in Seq(Tuple)
  BY NodeParts
<1>2. w \in Seq(Tuple) /\ Len(w) = Len(n.values)
  BY <1>1, SwapTuples
<1>3. Len(w) >= Least(n, NoRepair)
  BY <1>2 DEF NodeOK
<1> HIDE DEF w
<1> QED
  BY <1>2, <1>3, ValuesOK DEF w

LEMMA BorrowRightKeeps == ASSUME IInv, Structure, faults = 0, BorrowRight PROVE Structure'
<1> DEFINE v == Final(path).visitedNode
           s == Parent.children[2]
           sib == nodes[s]
           parent == [Parent EXCEPT !.values = swap(Parent.values, 0, sib.values[1])]
           lent == LendFirst(sib)
           taken == TakeLast(Parent.values[1], sib)
           C == FirstChild(sib)
<1>0. /\ at = 0 /\ Fixing(1) /\ CanLend(sib) /\ Parent.values # <<>>
      /\ todo' = <<persist(lent), persist(parent), persist(taken)>> /\ NextLevel(parent)
  BY DEF BorrowRight, Sibling
<1>1. \E h : Repairs(h, v, s)
  <2>1. PICK m \in Nat : m = 1
    OBVIOUS
  <2>2. m # at /\ Fixing(m) /\ Parent.children[m + 1] = s
    BY <1>0, <2>1
  <2> QED
    BY <2>2, RepairStarts
<1>2. PICK h : Repairs(h, v, s)
  BY <1>1
<1> HIDE DEF v, s
<1>3. /\ Typed(nodes) /\ {cur.id, s, v} \subseteq DOMAIN nodes /\ Parent = nodes[v]
      /\ nodes[v].id = v /\ sib.id = s /\ s # rootId /\ cur.id # rootId /\ cur = nodes[cur.id]
      /\ NodeOK(cur, h[cur.id], {cur.id}) /\ NodeOK(sib, h[s], NoRepair)
      /\ NodeOK(nodes[v], h[v], NoRepair) /\ sib.leaf = cur.leaf
      /\ Range(sib.children) \cap Range(cur.children) = {}
  BY <1>2 DEF Repairs, Rests
<1>4. sib \in Node /\ nodes[v] \in Node /\ cur \in Node
  BY <1>3, TypedNode
<1> HIDE DEF sib
<1>5. /\ lent \in Node /\ lent.id = s /\ NodeOK(lent, h[s], NoRepair)
      /\ C \subseteq Range(sib.children) /\ Range(lent.children) = Range(sib.children) \ C
  BY <1>0, <1>3, <1>4, LendKeeps
<1>6. sib.values[1] \in Tuple /\ Parent.values[1] \in Tuple /\ 0 < Len(Parent.values)
  <2>1. sib.values \in Seq(Tuple) /\ Parent.values \in Seq(Tuple) /\ Len(sib.values) >= 1
    BY <1>0, <1>3, <1>4, NodeParts, Parameters DEF CanLend
  <2> QED
    BY <1>0, <2>1
<1>7. /\ parent \in Node /\ parent.id = v /\ NodeOK(parent, h[v], NoRepair)
      /\ parent.children = nodes[v].children
  <2>1. PICK p \in Nat, e \in Tuple : p = 0 /\ e = sib.values[1]
    BY <1>6
  <2>2. p < Len(nodes[v].values) /\ parent = [nodes[v] EXCEPT !.values = swap(nodes[v].values, p, e)]
    BY <1>3, <1>6, <2>1
  <2> HIDE DEF parent
  <2> QED
    BY <1>3, <1>4, <2>2, SwapKeeps
<1>8. /\ taken \in Node /\ taken.id = cur.id /\ NodeOK(taken, h[cur.id], NoRepair)
      /\ Range(taken.children) = Range(cur.children) \cup C
  <2>1. PICK weak : NodeOK(cur, h[cur.id], weak)
    BY <1>3
  <2>3. PICK e \in Tuple : e = Parent.values[1]
    BY <1>6
  <2>2. Shaped(sib)
    BY <1>3 DEF NodeOK
  <2> QED
    BY <1>3, <1>4, <2>1, <2>2, <2>3, TakeKeeps
<1> HIDE DEF lent, parent, taken, C
<1>9. Borrowed(h, v, s, lent, parent, taken, C)
  BY <1>5, <1>7, <1>8 DEF Borrowed, sib
<1> QED
  BY <1>0, <1>2, <1>9, BorrowKeeps

LEMMA BorrowLeftKeeps == ASSUME IInv, Structure, faults = 0, BorrowLeft PROVE Structure'
<1> DEFINE v == Final(path).visitedNode
           s == Parent.children[at - 1 + 1]
           sib == nodes[s]
           parent == [Parent EXCEPT !.values = swap(Parent.values, at - 1, Final(sib.values))]
           lent == LendLast(sib)
           taken == TakeFirst(Parent.values[at], sib)
           C == LastChild(sib)
<1>0. /\ at > 0 /\ Fixing(at - 1) /\ CanLend(sib) /\ Len(Parent.values) >= at
      /\ todo' = <<persist(lent), persist(parent), persist(taken)>> /\ NextLevel(parent)
  BY DEF BorrowLeft, Sibling
<1>1. /\ \E h : Repairs(h, v, s)
      /\ at - 1 \in Nat /\ at \in Nat /\ at >= 1
  <2>1. at \in Nat
    BY Parts DEF LocalsOK
  <2>2. at - 1 \in Nat /\ at - 1 # at /\ at >= 1
    BY <1>0, <2>1
  <2>3. PICK m \in Nat : m = at - 1
    BY <2>2
  <2>4. m # at /\ Fixing(m) /\ Parent.children[m + 1] = s
    BY <1>0, <2>2, <2>3
  <2>5. \E h : Repairs(h, v, s)
    BY <2>4, RepairStarts
  <2> QED
    BY <2>1, <2>2, <2>5
<1>2. PICK h : Repairs(h, v, s)
  BY <1>1
<1> HIDE DEF v, s
<1>3. /\ Typed(nodes) /\ {cur.id, s, v} \subseteq DOMAIN nodes /\ Parent = nodes[v]
      /\ nodes[v].id = v /\ sib.id = s /\ s # rootId /\ cur.id # rootId /\ cur = nodes[cur.id]
      /\ NodeOK(cur, h[cur.id], {cur.id}) /\ NodeOK(sib, h[s], NoRepair)
      /\ NodeOK(nodes[v], h[v], NoRepair) /\ sib.leaf = cur.leaf
      /\ Range(sib.children) \cap Range(cur.children) = {}
  BY <1>2 DEF Repairs, Rests
<1>4. sib \in Node /\ nodes[v] \in Node /\ cur \in Node
  BY <1>3, TypedNode
<1> HIDE DEF sib
<1>5. /\ lent \in Node /\ lent.id = s /\ NodeOK(lent, h[s], NoRepair)
      /\ C \subseteq Range(sib.children) /\ Range(lent.children) = Range(sib.children) \ C
  BY <1>0, <1>3, <1>4, LendKeeps
<1>6. Final(sib.values) \in Tuple /\ Parent.values[at] \in Tuple /\ at - 1 < Len(Parent.values)
  <2>1. sib.values \in Seq(Tuple) /\ Parent.values \in Seq(Tuple) /\ Len(sib.values) >= 1
    BY <1>0, <1>3, <1>4, NodeParts, Parameters DEF CanLend
  <2>2. at - 1 < Len(Parent.values) /\ at \in 1 .. Len(Parent.values)
    BY <1>0, <1>1, <2>1
  <2>3. Final(sib.values) \in Tuple
    BY <2>1 DEF Final
  <2> QED
    BY <2>1, <2>2, <2>3
<1>7. /\ parent \in Node /\ parent.id = v /\ NodeOK(parent, h[v], NoRepair)
      /\ parent.children = nodes[v].children
  <2>1. PICK p \in Nat, e \in Tuple : p = at - 1 /\ e = Final(sib.values)
    BY <1>1, <1>6
  <2>2. p < Len(nodes[v].values) /\ parent = [nodes[v] EXCEPT !.values = swap(nodes[v].values, p, e)]
    BY <1>3, <1>6, <2>1
  <2> HIDE DEF parent
  <2> QED
    BY <1>3, <1>4, <2>2, SwapKeeps
<1>8. /\ taken \in Node /\ taken.id = cur.id /\ NodeOK(taken, h[cur.id], NoRepair)
      /\ Range(taken.children) = Range(cur.children) \cup C
  <2>1. PICK weak : NodeOK(cur, h[cur.id], weak)
    BY <1>3
  <2>3. PICK e \in Tuple : e = Parent.values[at]
    BY <1>6
  <2>2. Shaped(sib)
    BY <1>3 DEF NodeOK
  <2> QED
    BY <1>3, <1>4, <2>1, <2>2, <2>3, TakeKeeps
<1> HIDE DEF lent, parent, taken, C
<1>9. Borrowed(h, v, s, lent, parent, taken, C)
  BY <1>5, <1>7, <1>8 DEF Borrowed, sib
<1> QED
  BY <1>0, <1>2, <1>9, BorrowKeeps

\* Two nodes become one: x was too small, p may be now.
MergesInto(W, U, p, left, right) ==
    /\ {p, left, right} \subseteq DOMAIN W /\ left # right /\ p # left /\ p # right
    /\ left \in Range(W[p].children) /\ right \in Range(W[p].children) /\ right # rootId
    /\ DOMAIN U = DOMAIN W \ {right} /\ \A j \in DOMAIN W \ {left, right, p} : U[j] = W[j]
    /\ Range(U[left].children) = Range(W[left].children) \cup Range(W[right].children)
    /\ Range(U[p].children) = Range(W[p].children) \ {right}

LEMMA MergeBalance ==
    ASSUME NEW W, NEW h, NEW weak, Balanced(W, h, weak), Typed(W),
           NEW p, NEW left, NEW right, weak \subseteq {left, right},
           NEW U, MergesInto(W, U, p, left, right), NEW other,
           \A j \in {p, left} : NodeOK(U[j], h[j], other)
    PROVE  Balanced(U, h, other)
<1>1. ASSUME NEW j \in DOMAIN U PROVE NodeOK(U[j], h[j], other)
  <2>1. CASE j \in {p, left}
    BY <2>1
  <2>2. CASE j \notin {p, left}
    <3>1. W[j] \in Node /\ W[j].id = j /\ NodeOK(W[j], h[j], weak) /\ j \notin weak /\ U[j] = W[j]
      BY <2>2, TypedNode DEF Balanced, MergesInto
    <3> QED
      BY <3>1, NodeStays
  <2> QED
    BY <2>1, <2>2
<1> DEFINE K == ChildSets(W)
           L == ChildSets(U)
<1>2. /\ DOMAIN K = DOMAIN W /\ DOMAIN L = DOMAIN U
      /\ \A j \in DOMAIN W : K[j] = Range(W[j].children)
      /\ \A j \in DOMAIN U : L[j] = Range(U[j].children)
  BY DEF ChildSets
<1>3. Linked(K, h) /\ \A i \in DOMAIN W : h[i] \in Nat
  BY Heights DEF Balanced
<1> HIDE DEF K, L
<1>4. Joins(K, L, p, left, right)
  <2>1. /\ p \in DOMAIN K /\ left \in K[p] /\ right \in K[p] /\ left # right
        /\ DOMAIN L = DOMAIN K \ {right}
        /\ L[left] = K[left] \cup K[right] /\ L[p] = K[p] \ {right}
    BY <1>2 DEF MergesInto
  <2>2. ASSUME NEW j \in DOMAIN K \ {left, right, p} PROVE L[j] = K[j]
    BY <1>2, <2>2 DEF MergesInto
  <2> QED
    BY <2>1, <2>2 DEF Joins
<1>5. Linked(L, h)
  BY <1>2, <1>3, <1>4, LinkedMerge
<1> QED
  BY <1>1, <1>5 DEF Balanced, MergesInto, L

\* Both children of the root become the root.
MergesRoot(W, U, left, right) ==
    /\ {left, right} \subseteq DOMAIN W /\ left # right /\ left # rootId /\ right # rootId
    /\ rootId \in DOMAIN W /\ Range(W[rootId].children) = {left, right}
    /\ DOMAIN U = DOMAIN W \ {left, right} /\ \A j \in DOMAIN W \ {left, right, rootId} : U[j] = W[j]
    /\ Range(U[rootId].children) = Range(W[left].children) \cup Range(W[right].children)

LEMMA CollapseBalance ==
    ASSUME NEW W, NEW h, NEW weak, Balanced(W, h, weak), Typed(W),
           NEW left, NEW right, weak \subseteq {left, right},
           NEW U, MergesRoot(W, U, left, right),
           NEW g \in [Ids -> Nat], RootSinks(DOMAIN W, h, g, left),
           NodeOK(U[rootId], g[rootId], NoRepair)
    PROVE  Balanced(U, g, NoRepair)
<1>1. ASSUME NEW j \in DOMAIN U PROVE NodeOK(U[j], g[j], NoRepair)
  <2>1. CASE j = rootId
    BY <2>1
  <2>2. CASE j # rootId
    <3>1. /\ W[j] \in Node /\ W[j].id = j /\ NodeOK(W[j], h[j], weak) /\ j \notin weak /\ U[j] = W[j]
          /\ g[j] = h[j]
      BY <2>2, TypedNode DEF Balanced, MergesRoot, RootSinks
    <3> QED
      BY <3>1, NodeStays
  <2> QED
    BY <2>1, <2>2
<1> DEFINE K == ChildSets(W)
           L == ChildSets(U)
<1>2. /\ DOMAIN K = DOMAIN W /\ DOMAIN L = DOMAIN U
      /\ \A j \in DOMAIN W : K[j] = Range(W[j].children)
      /\ \A j \in DOMAIN U : L[j] = Range(U[j].children)
  BY DEF ChildSets
<1>3. Linked(K, h) /\ \A i \in DOMAIN W : h[i] \in Nat
  BY Heights DEF Balanced
<1> HIDE DEF K, L
<1>4. RootJoins(K, L, left, right)
  <2>1. /\ rootId \in DOMAIN K /\ left # right /\ K[rootId] = {left, right}
        /\ DOMAIN L = DOMAIN K \ {left, right} /\ L[rootId] = K[left] \cup K[right]
    BY <1>2 DEF MergesRoot
  <2>2. ASSUME NEW j \in DOMAIN K \ {left, right, rootId} PROVE L[j] = K[j]
    BY <1>2, <2>2 DEF MergesRoot
  <2> QED
    BY <2>1, <2>2 DEF RootJoins
<1>5. Linked(L, g)
  BY <1>2, <1>3, <1>4, LinkedCollapse
<1> QED
  BY <1>1, <1>5 DEF Balanced, MergesRoot, L

\* The node that two neighbours and the value between them make.
LEMMA MergedShape ==
    ASSUME NEW n \in Node, NEW o \in Node, NEW e \in Tuple, n.leaf = o.leaf,
           Shaped(n), Shaped(o), IsInjective(n.children), IsInjective(o.children),
           Range(n.children) \cap Range(o.children) = {}
    PROVE  LET m == [n EXCEPT !.values = n.values \o <<e>> \o o.values,
                              !.children = n.children \o o.children]
           IN /\ m \in Node /\ m.id = n.id /\ m.leaf = n.leaf /\ Shaped(m)
              /\ IsInjective(m.children)
              /\ Range(m.children) = Range(n.children) \cup Range(o.children)
              /\ Len(m.values) = Len(n.values) + 1 + Len(o.values)
<1> DEFINE S == Ids \ {rootId}
           w == n.values \o <<e>> \o o.values
           c == n.children \o o.children
           m == [n EXCEPT !.values = w, !.children = c]
<1>1. /\ n.values \in Seq(Tuple) /\ n.children \in Seq(S) /\ n.leaf \in BOOLEAN
      /\ o.values \in Seq(Tuple) /\ o.children \in Seq(S)
      /\ Len(n.values) \in Nat /\ Len(o.values) \in Nat
      /\ Len(n.children) \in Nat /\ Len(o.children) \in Nat
  BY NodeParts
<1> HIDE DEF S
<1>2. w \in Seq(Tuple) /\ Len(w) = Len(n.values) + 1 + Len(o.values)
  BY <1>1, JoinedAround
<1>3. c \in Seq(S) /\ Len(c) = Len(n.children) + Len(o.children)
  BY <1>1, Joined
<1>4. Range(c) = Range(n.children) \cup Range(o.children) /\ IsInjective(c)
  BY <1>1, JoinedElements
<1> HIDE DEF w, c
<1>5. m \in Node /\ m.id = n.id /\ m.leaf = n.leaf /\ m.values = w /\ m.children = c
  BY <1>2, <1>3 DEF Node, S
<1> HIDE DEF m
<1>6. Shaped(m)
  <2>1. CASE n.leaf
    <3>4. n.children = <<>> /\ o.children = <<>>
      BY <2>1 DEF Shaped
    <3>5. Len(n.children) = 0 /\ Len(o.children) = 0
      BY <3>4
    <3>1. Len(c) = 0
      BY <1>3, <3>5
    <3>2. c = <<>>
      BY <1>3, <3>1
    <3>3. m.leaf /\ m.children = <<>>
      BY <1>5, <2>1, <3>2
    <3> QED
      BY <3>3 DEF Shaped
  <2>2. CASE ~n.leaf
    <3>4. Len(n.children) = Len(n.values) + 1 /\ Len(o.children) = Len(o.values) + 1
      BY <2>2 DEF Shaped
    <3> DEFINE p == Len(n.values)
               q == Len(o.values)
               l == Len(w)
    <3>5. Len(c) = (p + 1) + (q + 1) /\ l = p + 1 + q /\ p \in Nat /\ q \in Nat
      BY <1>1, <1>2, <1>3, <3>4
    <3> HIDE DEF p, q, l
    <3>6. (p + 1) + (q + 1) = l + 1
      BY <3>5
    <3>1. Len(c) = Len(w) + 1
      BY <3>5, <3>6 DEF l
    <3>3. ~m.leaf /\ Len(m.children) = Len(m.values) + 1
      BY <1>5, <2>2, <3>1
    <3> QED
      BY <3>3 DEF Shaped
  <2> QED
    BY <2>1, <2>2
<1> QED
  BY <1>2, <1>4, <1>5, <1>6 DEF m, w, c

\* What a merge leaves of the parent.
LEMMA ParentShrinks ==
    ASSUME NEW n \in Node, NEW x, NodeOK(n, x, NoRepair), ~n.leaf,
           NEW i \in Nat, i < Len(n.values), i + 1 < Len(n.children)
    PROVE  LET m == [n EXCEPT !.values = pop(n.values, i), !.children = pop(n.children, i + 1)]
           IN /\ m \in Node /\ m.id = n.id /\ m.leaf = n.leaf /\ Shaped(m)
              /\ IsInjective(m.children)
              /\ Range(m.children) = Range(n.children) \ {n.children[i + 2]}
              /\ Len(m.values) = Len(n.values) - 1
              /\ \A weak : n.id \in weak /\ (n.id = rootId => m.values # <<>>) => NodeOK(m, x, weak)
<1> DEFINE S == Ids \ {rootId}
           w == pop(n.values, i)
           c == pop(n.children, i + 1)
           m == [n EXCEPT !.values = w, !.children = c]
<1>1. /\ n.values \in Seq(Tuple) /\ n.children \in Seq(S) /\ n.leaf \in BOOLEAN
      /\ Len(n.values) \in Nat /\ Len(n.children) \in Nat
      /\ IsInjective(n.children) /\ Len(n.children) = Len(n.values) + 1
      /\ Len(n.values) >= Least(n, NoRepair)
  BY NodeParts DEF NodeOK, Shaped
<1> HIDE DEF S
<1>2. w \in Seq(Tuple) /\ Len(w) = Len(n.values) - 1
  BY <1>1, PopType
<1>3. i + 1 \in Nat /\ i + 1 + 1 = i + 2
  OBVIOUS
<1>4. c \in Seq(S) /\ Len(c) = Len(n.children) - 1
  BY <1>1, <1>3, PopType
<1>5. Range(c) = Range(n.children) \ {n.children[i + 1 + 1]} /\ IsInjective(c)
  BY <1>1, <1>3, PopElements
<1> HIDE DEF w, c
<1>6. m \in Node /\ m.id = n.id /\ m.leaf = n.leaf /\ m.values = w /\ m.children = c
  BY <1>2, <1>4 DEF Node, S
<1> HIDE DEF m
<1>7. Shaped(m)
  BY <1>1, <1>2, <1>4, <1>6 DEF Shaped
<1>8. ASSUME NEW weak, n.id \in weak, n.id = rootId => m.values # <<>>
      PROVE  NodeOK(m, x, weak)
  <2>1. Len(m.values) >= Least(m, weak)
    <3>1. CASE n.id = rootId
      <4>1. Least(m, weak) = 1
        BY <1>6, <3>1 DEF Least
      <4>2. w # <<>>
        BY <1>6, <1>8, <3>1
      <4>3. Len(w) >= 1
        BY <1>2, <4>2
      <4> QED
        BY <1>6, <4>1, <4>3
    <3>2. CASE n.id # rootId
      <4>1. Least(m, weak) = a - 2 /\ Least(n, NoRepair) = a - 1
        BY <1>6, <1>8, <3>2, NobodyWeak DEF Least
      <4>2. Len(n.values) >= a - 1 /\ Len(w) = Len(n.values) - 1
        BY <1>1, <1>2, <4>1
      <4>3. Len(w) >= a - 2
        BY <1>1, <4>2, Parameters
      <4> QED
        BY <1>6, <4>1, <4>3
    <3> QED
      BY <3>1, <3>2
  <2> QED
    BY <1>5, <1>6, <1>7, <2>1 DEF NodeOK
<1> QED
  BY <1>2, <1>3, <1>5, <1>6, <1>7, <1>8 DEF m, w, c

\* The neighbours l and r, one of them cur, and what a merge makes of them and of v.
Merges(h, v, s, l, r, parent, merged) ==
    /\ l # r /\ {l, r} = {cur.id, s}
    /\ merged \in Node /\ merged.id = l /\ Shaped(merged) /\ IsInjective(merged.children)
    /\ merged.leaf => h[l] = 0
    /\ Len(merged.values) >= a - 1
    /\ Range(merged.children) = Range(nodes[l].children) \cup Range(nodes[r].children)
    /\ parent \in Node /\ parent.id = v
    /\ Range(parent.children) = Range(nodes[v].children) \ {r}

LEMMA JoinKeeps ==
    ASSUME IInv, faults = 0, NEW h, NEW v, NEW s, Repairs(h, v, s),
           NEW l, NEW r, NEW parent, NEW merged, Merges(h, v, s, l, r, parent, merged),
           NEW other, other = {v}, NodeOK(parent, h[v], other),
           todo' = <<persist(parent), remove(r), persist(merged)>>, NextLevel(parent)
    PROVE  Structure'
<1> DEFINE t == <<persist(parent), remove(r), persist(merged)>>
<1>1. /\ {l, r, v} \subseteq DOMAIN nodes /\ l # r /\ v # l /\ v # r /\ l # rootId /\ r # rootId
      /\ l \in Range(nodes[v].children) /\ r \in Range(nodes[v].children)
      /\ h[l] = h[r] /\ h[v] = h[l] + 1 /\ Typed(nodes) /\ Rests(h)
      /\ issued = DOMAIN nodes /\ fresh = <<>> /\ path # <<>> /\ v = Final(path).visitedNode
      /\ Trail(nodes, h, path, TRUE) /\ treeDepth = depth /\ depth = h[rootId] + 1
  <2>1. l \in {cur.id, s} /\ r \in {cur.id, s} /\ l # r
    BY DEF Merges
  <2> QED
    BY <2>1 DEF Repairs, Rests
<1>2. PICK weak : weak \subseteq {l, r} /\ Balanced(nodes, h, weak)
  <2>1. cur.id \in {l, r} /\ Balanced(nodes, h, {cur.id})
    BY DEF Merges, Repairs
  <2> QED
    BY <2>1
<1>3. /\ merged \in Node /\ merged.id = l /\ Shaped(merged) /\ NodeOK(merged, h[l], NoRepair)
      /\ Range(merged.children) = Range(nodes[l].children) \cup Range(nodes[r].children)
      /\ parent \in Node /\ parent.id = v /\ Shaped(parent)
      /\ Range(parent.children) = Range(nodes[v].children) \ {r}
  <2>1. /\ merged \in Node /\ merged.id = l /\ Shaped(merged) /\ IsInjective(merged.children)
        /\ merged.leaf => h[l] = 0
        /\ Len(merged.values) >= a - 1
        /\ Range(merged.children) = Range(nodes[l].children) \cup Range(nodes[r].children)
        /\ parent \in Node /\ parent.id = v
        /\ Range(parent.children) = Range(nodes[v].children) \ {r}
    BY DEF Merges
  <2>2. NodeOK(merged, h[l], NoRepair)
    BY <1>1, <2>1, HalfOK
  <2> QED
    BY <2>1, <2>2 DEF NodeOK
<1>4. NatHeights(nodes, h)
  BY <1>1, <1>2, Heights DEF NatHeights, Rests, Typed
<1>5. PICK U : U = [j \in DOMAIN nodes \ {r} |-> IF j = l THEN merged ELSE IF j = v THEN parent
                                                 ELSE nodes[j]]
  OBVIOUS
<1>6. /\ DOMAIN U = DOMAIN nodes \ {r} /\ U[l] = merged /\ U[v] = parent
      /\ \A j \in DOMAIN nodes \ {l, r, v} : U[j] = nodes[j]
  BY <1>1, <1>5
<1>7. MergesInto(nodes, U, v, l, r)
  BY <1>1, <1>3, <1>6 DEF MergesInto
<1>8. \A j \in {v, l} : NodeOK(U[j], h[j], other)
  <2>1. merged.id \notin NoRepair
    BY NobodyWeak
  <2>2. NodeOK(merged, h[l], other)
    BY <1>3, <2>1, NodeStays
  <2> QED
    BY <1>6, <2>2
<1>9. Balanced(U, h, other)
  BY <1>1, <1>2, <1>7, <1>8, MergeBalance
<1>10. Typed(U)
  <2>1. ASSUME NEW j \in DOMAIN U PROVE U[j] \in Node /\ U[j].id = j
    <3>1. CASE j \in {l, v}
      BY <1>3, <1>6, <3>1
    <3>2. CASE j \notin {l, v}
      BY <1>1, <1>6, <3>2 DEF Typed
    <3> QED
      BY <3>1, <3>2
  <2> QED
    BY <1>1, <1>6, <2>1 DEF Typed
<1>11. Trail(U, h, path, TRUE)
  <2>1. SameAbove(nodes, h, U, h, v)
    <3>1. ASSUME NEW i \in DOMAIN nodes, h[i] > h[v]
          PROVE  i \in DOMAIN U /\ U[i].children = nodes[i].children
      <4> DEFINE hi == h[i]
                 hv == h[v]
                 hs == h[l]
      <4>1. hi \in Nat /\ hs \in Nat /\ hv = hs + 1 /\ hi > hv /\ h[r] = hs
        BY <1>1, <1>4, <3>1 DEF NatHeights
      <4> HIDE DEF hi, hv, hs
      <4>2. hi # hv /\ hi # hs
        BY <4>1
      <4>3. i \notin {l, r, v}
        BY <4>1, <4>2 DEF hi, hv, hs
      <4> QED
        BY <1>6, <4>3
    <3> QED
      BY <1>1, <1>6, <3>1 DEF SameAbove
  <2>2. path \in Seq(deleteStep)
    BY VisitedLast
  <2> QED
    BY <1>1, <1>4, <2>1, <2>2, TrailAbove
<1>12. Leads(nodes, t, U) /\ Removes(t) = {r}
  <2>1. /\ parent.id \in Ids /\ merged.id \in Ids /\ r \in Ids
        /\ Shaped(parent) /\ Shaped(merged) /\ r # parent.id /\ r # merged.id /\ r \in DOMAIN nodes
    BY <1>1, <1>3 DEF Node, Typed
  <2>2. /\ DOMAIN U = (DOMAIN nodes \cup {parent.id, merged.id}) \ {r}
        /\ U[parent.id] = parent /\ U[merged.id] = merged
    BY <1>1, <1>3, <1>6
  <2>3. \A j \in DOMAIN nodes \ {parent.id, merged.id, r} : U[j] = nodes[j]
    BY <1>3, <1>6
  <2> QED
    BY <2>1, <2>2, <2>3, LeadsToMerge
<1>13. CallsLead(U, h, t)
  <2>1. Ledger(U, t, issued, <<>>)
    <3>1. DOMAIN U \cup Removes(t) = DOMAIN nodes
      BY <1>1, <1>6, <1>12
    <3> QED
      BY <1>1, <3>1, LessLedger
  <2>2. DepthOK(depth, t, h[rootId])
    BY <1>1, DepthStays
  <2> QED
    BY <1>1, <1>12, <2>1, <2>2 DEF CallsLead
<1>14. CallsLead(U, h, todo')
  BY <1>13
<1>15. other = {parent.id}
  BY <1>3
<1>16. parent.id = Final(path).visitedNode /\ U[parent.id] = parent
  BY <1>1, <1>3, <1>6
<1> HIDE DEF t
<1> QED
  BY <1>1, <1>9, <1>10, <1>11, <1>14, <1>15, <1>16, LevelDone

LEMMA CollapseKeeps ==
    ASSUME IInv, faults = 0, NEW h, NEW v, NEW s, Repairs(h, v, s),
           NEW l, NEW r, NEW parent, NEW merged, Merges(h, v, s, l, r, parent, merged),
           Len(path) = 1, Range(nodes[v].children) = {l, r},
           todo' = <<remove(l), updateDepth(treeDepth - 1), remove(r),
                     persist([merged EXCEPT !.id = parent.id])>>,
           NextLevel(parent)
    PROVE  Structure'
<1> DEFINE top == [merged EXCEPT !.id = parent.id]
           t == <<remove(l), updateDepth(treeDepth - 1), remove(r), persist(top)>>
<1>1. /\ {l, r, v} \subseteq DOMAIN nodes /\ l # r /\ v # l /\ v # r /\ l # rootId /\ r # rootId
      /\ h[l] = h[r] /\ h[v] = h[l] + 1 /\ Typed(nodes) /\ Rests(h)
      /\ issued = DOMAIN nodes /\ fresh = <<>> /\ path # <<>> /\ v = Final(path).visitedNode
      /\ Trail(nodes, h, path, TRUE) /\ treeDepth = depth /\ depth = h[rootId] + 1
      /\ h \in [Ids -> Nat]
  <2>1. l \in {cur.id, s} /\ r \in {cur.id, s} /\ l # r
    BY DEF Merges
  <2> QED
    BY <2>1 DEF Repairs, Rests
<1>2. PICK weak : weak \subseteq {l, r} /\ Balanced(nodes, h, weak)
  <2>1. cur.id \in {l, r} /\ Balanced(nodes, h, {cur.id})
    BY DEF Merges, Repairs
  <2> QED
    BY <2>1
<1>3. v = rootId /\ path[1].visitedNode = rootId
  BY <1>1 DEF Trail, Final
<1>4. /\ merged \in Node /\ Shaped(merged) /\ IsInjective(merged.children)
      /\ merged.leaf => h[l] = 0
      /\ Len(merged.values) >= a - 1 /\ Len(merged.values) \in Nat
      /\ Range(merged.children) = Range(nodes[l].children) \cup Range(nodes[r].children)
      /\ parent.id = rootId
  BY <1>3, NodeParts DEF Merges
<1>5. /\ top \in Node /\ top.id = rootId /\ top.leaf = merged.leaf
      /\ top.values = merged.values /\ top.children = merged.children
  BY <1>4, RootAssumption DEF Node
<1> HIDE DEF top
<1>6. NodeOK(top, h[l], NoRepair) /\ Shaped(top)
  <2>1. Shaped(top)
    BY <1>4, <1>5 DEF Shaped
  <2>2. Least(top, NoRepair) \in {0, 1}
    BY <1>5 DEF Least
  <2>3. Len(top.values) >= Least(top, NoRepair)
    BY <1>4, <1>5, <2>2, Parameters
  <2> QED
    BY <1>4, <1>5, <2>1, <2>3 DEF NodeOK
<1>7. PICK U : U = [j \in DOMAIN nodes \ {l, r} |-> IF j = rootId THEN top ELSE nodes[j]]
  OBVIOUS
<1>8. /\ DOMAIN U = DOMAIN nodes \ {l, r} /\ U[rootId] = top
      /\ \A j \in DOMAIN nodes \ {l, r, rootId} : U[j] = nodes[j]
  BY <1>1, <1>3, <1>7
<1>9. PICK g : g = [j \in Ids |-> IF j = rootId THEN h[l] ELSE h[j]]
  OBVIOUS
<1>10. /\ g \in [Ids -> Nat] /\ g[rootId] = h[l] /\ RootSinks(DOMAIN nodes, h, g, l)
       /\ h[l] \in Nat
  <2>1. h[l] \in Nat
    BY <1>1 DEF Typed
  <2> QED
    BY <1>1, <1>9, <2>1, RootAssumption DEF RootSinks, Typed
<1>11. MergesRoot(nodes, U, l, r)
  <2>1. Range(U[rootId].children) = Range(nodes[l].children) \cup Range(nodes[r].children)
    BY <1>4, <1>5, <1>8
  <2>2. Range(nodes[rootId].children) = {l, r}
    BY <1>3
  <2> QED
    BY <1>1, <1>3, <1>8, <2>1, <2>2 DEF MergesRoot
<1>12. Balanced(U, g, NoRepair)
  <2>1. NodeOK(U[rootId], g[rootId], NoRepair)
    BY <1>6, <1>8, <1>10
  <2> QED
    BY <1>1, <1>2, <1>10, <1>11, <2>1, CollapseBalance
<1>13. Typed(U)
  <2>1. ASSUME NEW j \in DOMAIN U PROVE U[j] \in Node /\ U[j].id = j
    <3>1. CASE j = rootId
      BY <1>5, <1>8, <3>1
    <3>2. CASE j # rootId
      BY <1>1, <1>8, <3>2 DEF Typed
    <3> QED
      BY <3>1, <3>2
  <2> QED
    BY <1>1, <1>8, <2>1 DEF Typed
<1>14. Trail(U, g, path, TRUE)
  <2>1. path \in Seq(deleteStep)
    BY VisitedLast
  <2>2. PICK e : e = path[1]
    OBVIOUS
  <2>3. path = <<e>> /\ e.visitedNode = rootId
    BY <1>3, <2>1, <2>2
  <2>4. rootId \in DOMAIN U /\ g[rootId] \in Nat
    BY <1>10, <1>13 DEF Typed
  <2> QED
    BY <2>3, <2>4, TrailRoot
<1>15. Leads(nodes, t, U) /\ Removes(t) = {l, r}
  <2>1. /\ top.id \in Ids /\ l \in Ids /\ r \in Ids /\ Shaped(top) /\ l # top.id /\ r # top.id
        /\ l # r /\ l \in DOMAIN nodes /\ r \in DOMAIN nodes
    BY <1>1, <1>5, <1>6, RootAssumption DEF Typed
  <2>2. DOMAIN U = (DOMAIN nodes \cup {top.id}) \ {l, r} /\ U[top.id] = top
    BY <1>1, <1>3, <1>5, <1>8
  <2>3. \A j \in DOMAIN nodes \ {top.id, l, r} : U[j] = nodes[j]
    BY <1>5, <1>8
  <2> QED
    BY <2>1, <2>2, <2>3, LeadsToCollapse
<1>16. CallsLead(U, g, t)
  <2>1. Ledger(U, t, issued, <<>>)
    <3>1. DOMAIN U \cup Removes(t) = DOMAIN nodes
      BY <1>1, <1>8, <1>15
    <3> QED
      BY <1>1, <3>1, LessLedger
  <2>2. treeDepth - 1 = g[rootId] + 1
    BY <1>1, <1>3, <1>10
  <2>3. DepthOK(depth, t, g[rootId])
    BY <2>2, DepthSet
  <2> QED
    BY <1>1, <1>15, <2>1, <2>3 DEF CallsLead
<1>17. CallsLead(U, g, todo')
  BY <1>16 DEF top
<1>18. PICK doubt : doubt = {parent.id} /\ Balanced(U, g, doubt)
  BY <1>12, <1>13, Doubted
<1>19. parent.id = Final(path).visitedNode /\ ~(Len(path) > 1)
  BY <1>1, <1>3, <1>4
<1> HIDE DEF t
<1> QED
  BY <1>1, <1>13, <1>14, <1>17, <1>18, <1>19, LevelDone

\* merge of the neighbours at positions i and i + 1.
LEMMA MergeKeeps ==
    ASSUME IInv, faults = 0, NEW h, NEW v, NEW s, Repairs(h, v, s),
           NEW i \in Nat, NEW l, NEW r, l # r, {l, r} = {cur.id, s},
           Parent.children[i + 1] = l, Parent.children[i + 2] = r,
           merge(i, nodes[l], nodes[r])
    PROVE  Structure'
<1> DEFINE left == nodes[l]
           right == nodes[r]
           e == Parent.values[i + 1]
           parent == [Parent EXCEPT !.values = pop(Parent.values, i),
                                    !.children = pop(Parent.children, i + 1)]
           merged == [left EXCEPT !.values = left.values \o <<e>> \o right.values,
                                  !.children = left.children \o right.children]
<1>0. /\ Len(Parent.values) > i /\ Len(Parent.children) > i + 1
      /\ todo' = IF Len(path) = 1 /\ parent.values = <<>>
                   THEN CollapseCalls(parent, left, right, merged)
                   ELSE MergeCalls(parent, left, right, merged)
      /\ NextLevel(parent)
  BY DEF merge
<1>1. /\ {l, r, v} \subseteq DOMAIN nodes /\ Typed(nodes) /\ Parent = nodes[v] /\ nodes[v].id = v
      /\ NodeOK(nodes[v], h[v], NoRepair) /\ ~nodes[v].leaf
      /\ v = Final(path).visitedNode /\ path # <<>>
      /\ Shaped(left) /\ Shaped(right) /\ IsInjective(left.children) /\ IsInjective(right.children)
      /\ left.leaf = right.leaf /\ Range(left.children) \cap Range(right.children) = {}
      /\ left.leaf => h[l] = 0
  <2>1. /\ {cur.id, s, v} \subseteq DOMAIN nodes /\ Typed(nodes) /\ Parent = nodes[v]
        /\ nodes[v].id = v
        /\ NodeOK(nodes[v], h[v], NoRepair) /\ ~nodes[v].leaf /\ cur = nodes[cur.id]
        /\ v = Final(path).visitedNode /\ path # <<>>
        /\ NodeOK(cur, h[cur.id], {cur.id}) /\ NodeOK(nodes[s], h[s], NoRepair)
        /\ nodes[s].leaf = cur.leaf /\ Range(nodes[s].children) \cap Range(cur.children) = {}
    BY DEF Repairs, Rests
  <2>2. \A j \in {cur.id, s} : /\ Shaped(nodes[j]) /\ IsInjective(nodes[j].children)
                               /\ nodes[j].leaf => h[j] = 0
    BY <2>1 DEF NodeOK
  <2>3. (l = cur.id /\ r = s) \/ (l = s /\ r = cur.id)
    OBVIOUS
  <2> QED
    BY <2>1, <2>2, <2>3
<1>2. /\ left \in Node /\ right \in Node /\ nodes[v] \in Node /\ left.id = l /\ right.id = r
  BY <1>1, TypedNode
<1>3. e \in Tuple
  <2>1. Parent.values \in Seq(Tuple)
    BY <1>1, <1>2, NodeParts
  <2> QED
    BY <1>0, <2>1
<1> HIDE DEF left, right, e
<1>4. /\ merged \in Node /\ merged.id = l /\ merged.leaf = left.leaf /\ Shaped(merged)
      /\ IsInjective(merged.children)
      /\ Range(merged.children) = Range(left.children) \cup Range(right.children)
      /\ Len(merged.values) = Len(left.values) + 1 + Len(right.values)
  <2>1. left \in Node /\ right \in Node /\ e \in Tuple /\ left.leaf = right.leaf
    BY <1>1, <1>2, <1>3
  <2>2. /\ Shaped(left) /\ Shaped(right) /\ IsInjective(left.children)
        /\ IsInjective(right.children) /\ Range(left.children) \cap Range(right.children) = {}
    BY <1>1
  <2>3. /\ merged \in Node /\ merged.id = left.id /\ merged.leaf = left.leaf /\ Shaped(merged)
        /\ IsInjective(merged.children)
        /\ Range(merged.children) = Range(left.children) \cup Range(right.children)
        /\ Len(merged.values) = Len(left.values) + 1 + Len(right.values)
    BY <2>1, <2>2, MergedShape
  <2> QED
    BY <1>2, <2>3
<1>5. /\ parent \in Node /\ parent.id = v /\ Shaped(parent)
      /\ IsInjective(parent.children)
      /\ Range(parent.children) = Range(nodes[v].children) \ {r}
      /\ \A weak : v \in weak /\ (v = rootId => parent.values # <<>>) => NodeOK(parent, h[v], weak)
      /\ Len(parent.values) = Len(Parent.values) - 1
  <2>1. i < Len(nodes[v].values) /\ i + 1 < Len(nodes[v].children)
        /\ nodes[v].children[i + 2] = r
        /\ parent = [nodes[v] EXCEPT !.values = pop(nodes[v].values, i),
                                     !.children = pop(nodes[v].children, i + 1)]
    BY <1>0, <1>1
  <2>2. nodes[v] \in Node /\ NodeOK(nodes[v], h[v], NoRepair) /\ ~nodes[v].leaf /\ nodes[v].id = v
    BY <1>1, <1>2
  <2>7. PICK n \in Node : n = nodes[v]
    BY <2>2
  <2>8. PICK x : x = h[v]
    OBVIOUS
  <2>3. n = nodes[v] /\ x = h[v]
    BY <2>7, <2>8
  <2>4. NodeOK(n, x, NoRepair) /\ ~n.leaf /\ i < Len(n.values) /\ i + 1 < Len(n.children)
    BY <2>1, <2>2, <2>3
  <2>5. /\ n.id = v /\ n.children[i + 2] = r /\ n.children = nodes[v].children
        /\ n.values = Parent.values /\ h[v] = x
        /\ parent = [n EXCEPT !.values = pop(n.values, i), !.children = pop(n.children, i + 1)]
    BY <1>1, <2>1, <2>2, <2>3
  <2> HIDE DEF parent
  <2>6. /\ parent \in Node /\ parent.id = n.id /\ Shaped(parent)
        /\ IsInjective(parent.children)
        /\ Range(parent.children) = Range(n.children) \ {n.children[i + 2]}
        /\ Len(parent.values) = Len(n.values) - 1
        /\ \A weak : n.id \in weak /\ (n.id = rootId => parent.values # <<>>)
                        => NodeOK(parent, x, weak)
    BY <2>4, <2>5, ParentShrinks
  <2> QED
    BY <2>5, <2>6
<1> HIDE DEF parent, merged
<1>6. Len(merged.values) >= a - 1
  <2>1. NodeOK(nodes[s], h[s], NoRepair) /\ nodes[s].id = s /\ s # rootId
    BY DEF Repairs
  <2>2. Len(nodes[s].values) >= a - 1
    BY <2>1, NobodyWeak DEF NodeOK, Least
  <2>3. Len(left.values) >= a - 1 \/ Len(right.values) >= a - 1
    BY <2>2 DEF left, right
  <2> DEFINE p == Len(left.values)
             q == Len(right.values)
  <2>4. p \in Nat /\ q \in Nat /\ (p >= a - 1 \/ q >= a - 1) /\ Len(merged.values) = p + 1 + q
    BY <1>2, <1>4, <2>3, NodeParts
  <2> HIDE DEF p, q
  <2> QED
    BY <2>4, Parameters
<1>7. Merges(h, v, s, l, r, parent, merged)
  BY <1>1, <1>2, <1>4, <1>5, <1>6 DEF Merges, left, right
<1>8. CASE Len(path) = 1 /\ parent.values = <<>>
  <2>1. todo' = <<remove(l), updateDepth(treeDepth - 1), remove(r),
                  persist([merged EXCEPT !.id = parent.id])>>
    BY <1>0, <1>2, <1>8 DEF CollapseCalls
  <2>2. Range(nodes[v].children) = {l, r}
    <3>1. nodes[v].children \in Seq(Ids \ {rootId}) /\ nodes[v].values \in Seq(Tuple)
      BY <1>2, NodeParts
    <3> DEFINE n == Len(nodes[v].values)
               k == Len(nodes[v].children)
    <3>2. n \in Nat /\ k \in Nat /\ n > i /\ n - 1 = 0 /\ k = n + 1
      BY <1>0, <1>1, <1>5, <1>8, <3>1 DEF NodeOK, Shaped
    <3> HIDE DEF n, k
    <3>3. k = 2 /\ i = 0
      BY <3>2
    <3>4. DOMAIN nodes[v].children = {1, 2}
      BY <3>1, <3>3 DEF k
    <3>5. nodes[v].children[1] = l /\ nodes[v].children[2] = r
      BY <1>1, <3>3
    <3> QED
      BY <3>4, <3>5 DEF Range
  <2> QED
    BY <1>0, <1>7, <1>8, <2>1, <2>2, CollapseKeeps
<1>9. CASE ~(Len(path) = 1 /\ parent.values = <<>>)
  <2>1. todo' = <<persist(parent), remove(r), persist(merged)>>
    BY <1>0, <1>2, <1>9 DEF MergeCalls
  <2>2. v = rootId => parent.values # <<>>
    <3>1. PathOK(path)
      BY Parts DEF LocalsOK
    <3> DEFINE n == Len(path)
    <3>2. n \in Nat /\ n >= 1 /\ (n > 1 => v # rootId) /\ ~(n = 1 /\ parent.values = <<>>)
      BY <1>1, <1>9, <3>1, PopPath
    <3> HIDE DEF n
    <3>3. n = 1 \/ n > 1
      BY <3>2
    <3> QED
      BY <3>2, <3>3
  <2>4. PICK other : other = {v}
    OBVIOUS
  <2>3. other = {v} /\ NodeOK(parent, h[v], other)
    BY <1>5, <2>2, <2>4
  <2>5. NextLevel(parent)
    BY <1>0
  <2> QED
    BY <1>7, <2>1, <2>3, <2>5, JoinKeeps
<1> QED
  BY <1>8, <1>9

LEMMA MergeRightKeeps == ASSUME IInv, Structure, faults = 0, MergeRight PROVE Structure'
<1> DEFINE v == Final(path).visitedNode
           s == Parent.children[2]
<1>0. at = 0 /\ Fixing(1) /\ merge(0, cur, nodes[s])
  BY DEF MergeRight, Sibling
<1>1. PICK m \in Nat, i \in Nat : m = 1 /\ i = 0
  OBVIOUS
<1>2. \E h : Repairs(h, v, s)
  <2>2. m # at /\ Fixing(m) /\ Parent.children[m + 1] = s
    BY <1>0, <1>1
  <2> QED
    BY <2>2, RepairStarts
<1>3. PICK h : Repairs(h, v, s)
  BY <1>2
<1> HIDE DEF v, s
<1>4. PICK l : l = cur.id
  OBVIOUS
<1>5. cur = nodes[l] /\ l # s /\ Parent.children[at + 1] = l
  BY <1>3, <1>4 DEF Repairs
<1>6. Parent.children[i + 1] = l /\ Parent.children[i + 2] = s /\ {l, s} = {cur.id, s}
  <2>1. i + 1 = at + 1 /\ i + 2 = 2
    BY <1>0, <1>1
  <2> QED
    BY <1>4, <1>5, <2>1 DEF s
<1>7. merge(i, nodes[l], nodes[s])
  BY <1>0, <1>1, <1>5
<1> QED
  BY <1>3, <1>5, <1>6, <1>7, MergeKeeps

LEMMA MergeLeftKeeps == ASSUME IInv, Structure, faults = 0, MergeLeft PROVE Structure'
<1> DEFINE v == Final(path).visitedNode
           s == Parent.children[at - 1 + 1]
<1>0. at > 0 /\ Fixing(at - 1) /\ merge(at - 1, nodes[s], cur) /\ at \in Nat
  BY Parts DEF MergeLeft, Sibling, LocalsOK
<1>1. PICK m \in Nat : m = at - 1
  BY <1>0
<1>2. \E h : Repairs(h, v, s)
  <2>2. m # at /\ Fixing(m) /\ Parent.children[m + 1] = s
    BY <1>0, <1>1
  <2> QED
    BY <2>2, RepairStarts
<1>3. PICK h : Repairs(h, v, s)
  BY <1>2
<1> HIDE DEF v, s
<1>4. PICK r : r = cur.id
  OBVIOUS
<1>5. cur = nodes[r] /\ s # r /\ Parent.children[at + 1] = r
  BY <1>3, <1>4 DEF Repairs
<1>6. Parent.children[m + 1] = s /\ Parent.children[m + 2] = r /\ {s, r} = {cur.id, s}
  <2>1. m + 2 = at + 1 /\ m + 1 = at - 1 + 1
    BY <1>0, <1>1
  <2> QED
    BY <1>4, <1>5, <2>1 DEF s
<1>7. merge(m, nodes[s], nodes[r])
  BY <1>0, <1>1, <1>5
<1> QED
  BY <1>3, <1>5, <1>6, <1>7, MergeKeeps

LEMMA BalanceKeeps == ASSUME IInv, Structure, faults = 0, Balance PROVE Structure'
BY BalanceRootKeeps, BalanceLoadKeeps, FixDoneKeeps, BorrowRightKeeps, BorrowLeftKeeps,
   MergeRightKeeps, MergeLeftKeeps DEF Balance

-----------------------------------------------------------------------------
(* The storage calls, and what ends an operation early.                    *)

\* The storage keeps all of a node that is Shaped and has room.
LEMMA StoredWhole ==
    ASSUME NEW n, FitNode(n), Shaped(n)
    PROVE  Stored(n) = n
<1>1. /\ n \in Node /\ Len(n.values) < b /\ n.values \in Seq(Tuple) /\ n.children \in Seq(Ids \ {rootId})
      /\ n.leaf \in BOOLEAN /\ Len(n.values) \in Nat /\ Len(n.children) \in Nat
  BY NodeParts DEF FitNode
<1>2. ASSUME NEW S, NEW s \in Seq(S), NEW k \in Nat, Len(s) <= k PROVE Prefix(s, k) = s
  <2>1. Prefix(s, k) = SubSeq(s, 1, Len(s))
    <3>1. Len(s) = k \/ Len(s) < k
      BY <1>2
    <3> QED
      BY <3>1 DEF Prefix
  <2> QED
    BY <2>1
<1>3. Prefix(n.values, b - 1) = n.values
  <2>1. b - 1 \in Nat /\ Len(n.values) <= b - 1
    BY <1>1, Parameters
  <2> QED
    BY <1>1, <1>2, <2>1
<1>4. Prefix(n.children, b) = n.children /\ n.leaf = (n.children = <<>>)
  <2>1. CASE n.leaf
    <3>1. n.children = <<>>
      BY <2>1 DEF Shaped
    <3>2. Len(n.children) = 0
      BY <3>1
    <3>3. Len(n.children) <= b /\ b \in Nat
      BY <3>2, Parameters
    <3> QED
      BY <1>1, <1>2, <2>1, <3>1, <3>3
  <2>2. CASE ~n.leaf
    <3>1. Len(n.children) = Len(n.values) + 1
      BY <2>2 DEF Shaped
    <3>2. Len(n.children) <= b /\ b \in Nat /\ Len(n.children) >= 1
      BY <1>1, <3>1, Parameters
    <3>3. n.children # <<>>
      BY <3>2
    <3> QED
      BY <1>1, <1>2, <2>2, <3>2, <3>3
  <2> QED
    BY <1>1, <2>1, <2>2
<1>5. [n EXCEPT !.values = n.values, !.children = n.children, !.leaf = n.leaf] = n
  BY <1>1 DEF Node
<1> QED
  BY <1>3, <1>4, <1>5 DEF Stored

\* The first of the queued calls.
LEMMA QueueParts ==
    ASSUME NEW t, FitTodo(t), t # <<>>
    PROVE  LET c == Head(t)
               u == Tail(t)
           IN /\ 1 \in DOMAIN t /\ t[1] = c
              /\ \A k \in DOMAIN u : k + 1 \in DOMAIN t /\ u[k] = t[k + 1] /\ k + 1 # 1
              /\ \A j \in DOMAIN t : j = 1 \/ (j - 1 \in DOMAIN u /\ t[j] = u[j - 1])
              /\ c.call = "Persist" => FitNode(c.node) /\ c.node.id \in Ids
              /\ c.call = "Remove" => c.id \in Ids
<1> DEFINE u == Tail(t)
<1>1. t \in Seq(StorageCalls) /\ FitCall(Head(t))
  BY DEF FitTodo
<1>2. Len(t) \in Nat /\ Len(t) >= 1 /\ Head(t) = t[1] /\ DOMAIN t = 1 .. Len(t)
  BY <1>1, HeadTailProperties
<1>3. u \in Seq(StorageCalls) /\ Len(u) = Len(t) - 1 /\ \A k \in 1 .. Len(u) : u[k] = t[k + 1]
  BY <1>1, HeadTailProperties
<1>4. DOMAIN u = 1 .. Len(t) - 1
  BY <1>3
<1> HIDE DEF u
<1>5. \A k \in DOMAIN u : k + 1 \in DOMAIN t /\ u[k] = t[k + 1] /\ k + 1 # 1
  BY <1>2, <1>3, <1>4
<1>6. \A j \in DOMAIN t : j = 1 \/ (j - 1 \in DOMAIN u /\ t[j] = u[j - 1])
  <2> TAKE j \in DOMAIN t
  <2>1. j \in Int /\ (j = 1 \/ j - 1 \in 1 .. Len(u)) /\ (j - 1) + 1 = j
    BY <1>2, <1>3
  <2> QED
    BY <1>3, <1>4, <2>1
<1>7. Head(t).call = "Persist" => FitNode(Head(t).node) /\ Head(t).node.id \in Ids
  BY <1>1, CallParts, NodeParts DEF FitNode
<1>8. Head(t).call = "Remove" => Head(t).id \in Ids
  BY <1>1 DEF FitCall, StorageCalls
<1> QED
  BY <1>2, <1>5, <1>6, <1>7, <1>8 DEF u

\* What is persisted, removed and set first, and what later.
LEMMA QueueSets ==
    ASSUME NEW t, FitTodo(t), t # <<>>
    PROVE  /\ Head(t).call = "Persist" =>
                 Persists(t) = Persists(Tail(t)) \cup {Head(t).node.id} /\ Removes(t) = Removes(Tail(t))
           /\ Head(t).call = "Remove" =>
                 Persists(t) = Persists(Tail(t)) /\ Removes(t) = Removes(Tail(t)) \cup {Head(t).id}
           /\ Head(t).call = "SetDepth" =>
                 Persists(t) = Persists(Tail(t)) /\ Removes(t) = Removes(Tail(t))
<1> DEFINE c == Head(t)
           u == Tail(t)
<1>1. /\ 1 \in DOMAIN t /\ t[1] = c
      /\ \A k \in DOMAIN u : k + 1 \in DOMAIN t /\ u[k] = t[k + 1] /\ k + 1 # 1
      /\ \A j \in DOMAIN t : j = 1 \/ (j - 1 \in DOMAIN u /\ t[j] = u[j - 1])
      /\ c.call = "Persist" => c.node.id \in Ids
      /\ c.call = "Remove" => c.id \in Ids
  BY QueueParts
<1> HIDE DEF c, u
<1>2. ASSUME NEW i, i \in Persists(u) PROVE i \in Persists(t)
  BY <1>1, <1>2 DEF Persists
<1>3. ASSUME NEW i, i \in Persists(t)
      PROVE  i \in Persists(u) \/ (c.call = "Persist" /\ c.node.id = i)
  BY <1>1, <1>3 DEF Persists
<1>4. c.call = "Persist" => c.node.id \in Persists(t)
  BY <1>1 DEF Persists
<1>5. ASSUME NEW i, i \in Removes(u) PROVE i \in Removes(t)
  BY <1>1, <1>5 DEF Removes
<1>6. ASSUME NEW i, i \in Removes(t)
      PROVE  i \in Removes(u) \/ (c.call = "Remove" /\ c.id = i)
  BY <1>1, <1>6 DEF Removes
<1>7. c.call = "Remove" => c.id \in Removes(t)
  BY <1>1 DEF Removes
<1>8. ASSUME c.call = "Persist"
      PROVE  Persists(t) = Persists(u) \cup {c.node.id} /\ Removes(t) = Removes(u)
  BY <1>2, <1>3, <1>4, <1>5, <1>6, <1>8
<1>9. ASSUME c.call = "Remove"
      PROVE  Persists(t) = Persists(u) /\ Removes(t) = Removes(u) \cup {c.id}
  BY <1>2, <1>3, <1>5, <1>6, <1>7, <1>9
<1>10. ASSUME c.call = "SetDepth"
       PROVE  Persists(t) = Persists(u) /\ Removes(t) = Removes(u)
  BY <1>2, <1>3, <1>5, <1>6, <1>10
<1> QED
  BY <1>8, <1>9, <1>10 DEF c, u

\* The parts of Leads that do not depend on the nodes.
LEMMA QueueLater ==
    ASSUME NEW t, FitTodo(t), t # <<>>, NEW N, NEW V, Leads(N, t, V)
    PROVE  LET u == Tail(t)
           IN /\ \A k \in DOMAIN u : u[k].call = "Persist" =>
                    /\ u[k].node.id \in DOMAIN V /\ V[u[k].node.id] = u[k].node
                    /\ Shaped(u[k].node)
              /\ \A j, k \in DOMAIN u :
                    u[j].call = "Remove" /\ u[k].call = "Remove" /\ u[j].id = u[k].id => j = k
              /\ Head(t).call = "Persist" =>
                    /\ Head(t).node.id \in DOMAIN V /\ V[Head(t).node.id] = Head(t).node
                    /\ Shaped(Head(t).node)
              /\ Head(t).call = "Remove" => Head(t).id \notin Removes(u)
<1> DEFINE c == Head(t)
           u == Tail(t)
<1>1. /\ 1 \in DOMAIN t /\ t[1] = c
      /\ \A k \in DOMAIN u : k + 1 \in DOMAIN t /\ u[k] = t[k + 1] /\ k + 1 # 1
  BY QueueParts
<1>2. DOMAIN u \subseteq Int
  <2>1. u \in Seq(StorageCalls)
    BY HeadTailProperties DEF FitTodo
  <2> QED
    BY <2>1
<1> HIDE DEF c, u
<1>3. \A k \in DOMAIN t : t[k].call = "Persist" =>
         t[k].node.id \in DOMAIN V /\ V[t[k].node.id] = t[k].node /\ Shaped(t[k].node)
  BY DEF Leads
<1>4. \A j, k \in DOMAIN t : t[j].call = "Remove" /\ t[k].call = "Remove" /\ t[j].id = t[k].id => j = k
  BY DEF Leads
<1>5. \A k \in DOMAIN u : u[k].call = "Persist" =>
         u[k].node.id \in DOMAIN V /\ V[u[k].node.id] = u[k].node /\ Shaped(u[k].node)
  BY <1>1, <1>3
<1>6. ASSUME NEW j \in DOMAIN u, NEW k \in DOMAIN u,
             u[j].call = "Remove", u[k].call = "Remove", u[j].id = u[k].id
      PROVE  j = k
  <2>1. j + 1 = k + 1
    BY <1>1, <1>4, <1>6
  <2> QED
    BY <1>2, <2>1
<1>7. c.call = "Persist" => c.node.id \in DOMAIN V /\ V[c.node.id] = c.node /\ Shaped(c.node)
  BY <1>1, <1>3
<1>8. ASSUME c.call = "Remove", c.id \in Removes(u) PROVE FALSE
  <2>1. PICK k \in DOMAIN u : u[k].call = "Remove" /\ u[k].id = c.id
    BY <1>8 DEF Removes
  <2>2. k + 1 \in DOMAIN t /\ t[k + 1].call = "Remove" /\ t[k + 1].id = t[1].id /\ k + 1 # 1
    BY <1>1, <2>1
  <2>3. 1 \in DOMAIN t /\ t[1].call = "Remove"
    BY <1>1, <1>8
  <2> QED
    BY <1>4, <2>2, <2>3
<1> QED
  BY <1>5, <1>6, <1>7, <1>8 DEF c, u

\* A call done brings the storage nearer to the nodes that the operation wants.
LEMMA CallDone ==
    ASSUME faults' = 0, todo # <<>>, pc # "panic", UNCHANGED <<pc, locals>>,
           NEW V, NEW h, Sound(V, h),
           Leads(nodes', todo', V), Ledger(V, todo', issued', fresh),
           treeDepth' = depth', DepthOK(depth', todo', h[rootId])
    PROVE  Structure'
<1>1. pc' = pc /\ cur' = cur /\ path' = path /\ at' = at /\ target' = target /\ fresh' = fresh
  BY DEF locals
<1>2. Current(V)'
  BY <1>1 DEF Sound, Current
<1>3. /\ Grown(V)' = Grown(V) /\ Visited' = Visited
      /\ PushCur' = PushCur
  BY <1>1 DEF Grown, Visited, PushCur
<1>4. Weak' = Weak
  BY <1>1, <1>3 DEF Weak
<1>5. pc' \notin {"error", "panic"}
  BY <1>1 DEF Sound, Current
<1>6. Balanced(Grown(V)', h, Weak')
  BY <1>3, <1>4 DEF Sound
<1>7. pc' \in {"insert", "grow", "delete", "pop", "balance", "fix"} =>
         Trail(Grown(V)', h, Visited', pc' \notin {"insert", "grow"})
  BY <1>1, <1>3 DEF Sound
<1>8. Ledger(V, todo', issued', fresh')
  BY <1>1
<1> QED
  BY <1>2, <1>5, <1>6, <1>7, <1>8, ToAny

\* What is left to be done leads where it led.
CallLeads ==
    \E V, h : /\ Sound(V, h) /\ Leads(nodes', todo', V) /\ Ledger(V, todo', issued', fresh)
             /\ treeDepth' = depth' /\ DepthOK(depth', todo', h[rootId])

\* What a call starts from.
LEMMA AtCall ==
    ASSUME IInv, Structure, faults = 0, todo # <<>>
    PROVE  /\ FitTodo(todo) /\ pc # "panic"
           /\ \E V, h : /\ Sound(V, h) /\ Leads(nodes, todo, V) /\ Ledger(V, todo, issued, fresh)
                        /\ treeDepth = depth /\ DepthOK(depth, todo, h[rootId])
<1>1. FitTodo(todo) /\ pc # "panic"
  BY Parts DEF Structure
<1>2. PICK V, h : Sound(V, h)
  BY <1>1 DEF Structure
<1>3. /\ Leads(nodes, todo, V) /\ Ledger(V, todo, issued, fresh)
      /\ treeDepth = depth /\ DepthOK(depth, todo, h[rootId])
  BY <1>2 DEF Sound
<1> QED
  BY <1>1, <1>2, <1>3

\* Only SetDepth changes what is known of the depth.
LEMMA DepthLater ==
    ASSUME NEW t, FitTodo(t), t # <<>>, NEW d, NEW top, DepthOK(d, t, top)
    PROVE  /\ Head(t).call # "SetDepth" => DepthOK(d, Tail(t), top)
           /\ Head(t).call = "SetDepth" => DepthOK(Head(t).depth, Tail(t), top)
<1> DEFINE c == Head(t)
           u == Tail(t)
<1>1. /\ 1 \in DOMAIN t /\ t[1] = c
      /\ \A k \in DOMAIN u : k + 1 \in DOMAIN t /\ u[k] = t[k + 1] /\ k + 1 # 1
      /\ \A j \in DOMAIN t : j = 1 \/ (j - 1 \in DOMAIN u /\ t[j] = u[j - 1])
  BY QueueParts
<1> HIDE DEF c, u
<1>2. \A k \in DOMAIN u : u[k].call = "SetDepth" => u[k].depth = top + 1
  BY <1>1 DEF DepthOK
<1>3. c.call = "SetDepth" => c.depth = top + 1
  BY <1>1 DEF DepthOK
<1>4. ASSUME c.call # "SetDepth", \A k \in DOMAIN u : u[k].call # "SetDepth" PROVE d = top + 1
  <2>1. \A j \in DOMAIN t : t[j].call # "SetDepth"
    BY <1>1, <1>4
  <2> QED
    BY <2>1 DEF DepthOK
<1> QED
  BY <1>2, <1>3, <1>4 DEF DepthOK, c, u

LEMMA CallPersistLeads == ASSUME IInv, Structure, faults = 0, CallPersist PROVE CallLeads
<1> DEFINE n == Head(todo).node
           u == Tail(todo)
<1>0. /\ todo # <<>> /\ Head(todo).call = "Persist" /\ nodes' = Put(n.id, Stored(n))
      /\ todo' = u /\ UNCHANGED <<pc, locals>> /\ issued' = issued /\ depth' = depth
      /\ treeDepth' = treeDepth /\ faults' = 0
  BY DEF CallPersist, Pending
<1>1. FitTodo(todo) /\ pc # "panic"
  BY <1>0, AtCall
<1>2. PICK V, h : /\ Sound(V, h) /\ Leads(nodes, todo, V) /\ Ledger(V, todo, issued, fresh)
                  /\ treeDepth = depth /\ DepthOK(depth, todo, h[rootId])
  BY <1>0, AtCall
<1>3. FitNode(n) /\ n.id \in Ids
  BY <1>0, <1>1, QueueParts
<1>4. Persists(todo) = Persists(u) \cup {n.id} /\ Removes(todo) = Removes(u)
  BY <1>0, <1>1, QueueSets
<1>5. /\ \A k \in DOMAIN u : u[k].call = "Persist" =>
            /\ u[k].node.id \in DOMAIN V /\ V[u[k].node.id] = u[k].node /\ Shaped(u[k].node)
      /\ \A j, k \in DOMAIN u :
            u[j].call = "Remove" /\ u[k].call = "Remove" /\ u[j].id = u[k].id => j = k
      /\ n.id \in DOMAIN V /\ V[n.id] = n /\ Shaped(n)
  BY <1>0, <1>1, <1>2, QueueLater
<1>6. Stored(n) = n
  BY <1>3, <1>5, StoredWhole
<1> HIDE DEF u, n
<1>7. /\ DOMAIN nodes' = DOMAIN nodes \cup {n.id} /\ nodes'[n.id] = n
      /\ \A i \in DOMAIN nodes \ {n.id} : nodes'[i] = nodes[i]
  BY <1>0, <1>6 DEF Put
<1>8. Leads(nodes', u, V)
  <2>1. /\ DOMAIN V = (DOMAIN nodes \cup Persists(todo)) \ Removes(todo)
        /\ \A i \in DOMAIN V \ Persists(todo) : V[i] = nodes[i]
        /\ Removes(todo) \subseteq DOMAIN nodes
    BY <1>2 DEF Leads
  <2>2. DOMAIN V = (DOMAIN nodes' \cup Persists(u)) \ Removes(u)
    BY <1>4, <1>7, <2>1
  <2>3. ASSUME NEW i \in DOMAIN V \ Persists(u) PROVE V[i] = nodes'[i]
    <3>1. CASE i = n.id
      BY <1>5, <1>7, <3>1
    <3>2. CASE i # n.id
      <4>1. i \notin Persists(todo) /\ i \in DOMAIN nodes
        BY <1>4, <2>1, <2>3, <3>2
      <4> QED
        BY <1>7, <2>1, <2>3, <3>2, <4>1
    <3> QED
      BY <3>1, <3>2
  <2>4. Removes(u) \subseteq DOMAIN nodes'
    BY <1>4, <1>7, <2>1
  <2> QED
    BY <1>5, <2>2, <2>3, <2>4 DEF Leads
<1>9. Ledger(V, u, issued', fresh)
  BY <1>0, <1>2, <1>4 DEF Ledger
<1>10. DepthOK(depth', u, h[rootId])
  BY <1>0, <1>1, <1>2, DepthLater DEF u
<1>11. /\ Leads(nodes', todo', V) /\ Ledger(V, todo', issued', fresh)
       /\ treeDepth' = depth' /\ DepthOK(depth', todo', h[rootId])
  BY <1>0, <1>2, <1>8, <1>9, <1>10
<1> QED
  BY <1>2, <1>11 DEF CallLeads

LEMMA CallRemoveLeads == ASSUME IInv, Structure, faults = 0, CallRemove PROVE CallLeads
<1> DEFINE d == Head(todo).id
           u == Tail(todo)
<1>0. /\ todo # <<>> /\ Head(todo).call = "Remove" /\ nodes' = Drop(d)
      /\ todo' = u /\ UNCHANGED <<pc, locals>> /\ issued' = issued \ {d} /\ depth' = depth
      /\ treeDepth' = treeDepth /\ faults' = 0
  BY DEF CallRemove, Pending
<1>1. FitTodo(todo) /\ pc # "panic"
  BY <1>0, AtCall
<1>2. PICK V, h : /\ Sound(V, h) /\ Leads(nodes, todo, V) /\ Ledger(V, todo, issued, fresh)
                  /\ treeDepth = depth /\ DepthOK(depth, todo, h[rootId])
  BY <1>0, AtCall
<1>3. d \in Ids
  BY <1>0, <1>1, QueueParts
<1>4. Persists(todo) = Persists(u) /\ Removes(todo) = Removes(u) \cup {d}
  BY <1>0, <1>1, QueueSets
<1>5. /\ \A k \in DOMAIN u : u[k].call = "Persist" =>
            /\ u[k].node.id \in DOMAIN V /\ V[u[k].node.id] = u[k].node /\ Shaped(u[k].node)
      /\ \A j, k \in DOMAIN u :
            u[j].call = "Remove" /\ u[k].call = "Remove" /\ u[j].id = u[k].id => j = k
      /\ d \notin Removes(u)
  BY <1>0, <1>1, <1>2, QueueLater
<1>6. Persists(u) \subseteq DOMAIN V
  BY <1>5 DEF Persists
<1> HIDE DEF u, d
<1>7. DOMAIN nodes' = DOMAIN nodes \ {d} /\ \A i \in DOMAIN nodes' : nodes'[i] = nodes[i]
  BY <1>0 DEF Drop
<1>8. /\ DOMAIN V = (DOMAIN nodes \cup Persists(todo)) \ Removes(todo)
      /\ \A i \in DOMAIN V \ Persists(todo) : V[i] = nodes[i]
      /\ Removes(todo) \subseteq DOMAIN nodes
  BY <1>2 DEF Leads
<1>9. Leads(nodes', u, V)
  <2>1. d \notin DOMAIN V /\ d \notin Persists(u)
    BY <1>4, <1>6, <1>8
  <2>2. DOMAIN V = (DOMAIN nodes' \cup Persists(u)) \ Removes(u)
    BY <1>4, <1>7, <1>8, <2>1
  <2>3. ASSUME NEW i \in DOMAIN V \ Persists(u) PROVE V[i] = nodes'[i]
    BY <1>4, <1>7, <1>8, <2>2, <2>3
  <2>4. Removes(u) \subseteq DOMAIN nodes'
    BY <1>4, <1>5, <1>7, <1>8
  <2> QED
    BY <1>5, <2>2, <2>3, <2>4 DEF Leads
<1>10. Ledger(V, u, issued', fresh)
  <2>1. /\ issued = DOMAIN V \cup Removes(todo) \cup Range(fresh)
        /\ Range(fresh) \cap (DOMAIN V \cup Removes(todo)) = {} /\ IsInjective(fresh)
    BY <1>2 DEF Ledger
  <2>2. d \notin DOMAIN V /\ d \notin Removes(u) /\ d \notin Range(fresh)
    BY <1>4, <1>5, <1>8, <2>1
  <2> QED
    BY <1>0, <1>4, <2>1, <2>2 DEF Ledger
<1>11. DepthOK(depth', u, h[rootId])
  BY <1>0, <1>1, <1>2, DepthLater DEF u
<1>12. /\ Leads(nodes', todo', V) /\ Ledger(V, todo', issued', fresh)
       /\ treeDepth' = depth' /\ DepthOK(depth', todo', h[rootId])
  BY <1>0, <1>2, <1>9, <1>10, <1>11
<1> QED
  BY <1>2, <1>12 DEF CallLeads

LEMMA CallSetDepthLeads == ASSUME IInv, Structure, faults = 0, CallSetDepth PROVE CallLeads
<1> DEFINE u == Tail(todo)
<1>0. /\ todo # <<>> /\ Head(todo).call = "SetDepth" /\ nodes' = nodes
      /\ todo' = u /\ UNCHANGED <<pc, locals>> /\ issued' = issued /\ depth' = Head(todo).depth
      /\ treeDepth' = Head(todo).depth /\ faults' = 0
  BY DEF CallSetDepth, Pending
<1>1. FitTodo(todo) /\ pc # "panic"
  BY <1>0, AtCall
<1>2. PICK V, h : /\ Sound(V, h) /\ Leads(nodes, todo, V) /\ Ledger(V, todo, issued, fresh)
                  /\ treeDepth = depth /\ DepthOK(depth, todo, h[rootId])
  BY <1>0, AtCall
<1>3. Persists(todo) = Persists(u) /\ Removes(todo) = Removes(u)
  BY <1>0, <1>1, QueueSets
<1>4. /\ \A k \in DOMAIN u : u[k].call = "Persist" =>
            /\ u[k].node.id \in DOMAIN V /\ V[u[k].node.id] = u[k].node /\ Shaped(u[k].node)
      /\ \A j, k \in DOMAIN u :
            u[j].call = "Remove" /\ u[k].call = "Remove" /\ u[j].id = u[k].id => j = k
  BY <1>0, <1>1, <1>2, QueueLater
<1>5. DepthOK(depth', u, h[rootId])
  BY <1>0, <1>1, <1>2, DepthLater
<1> HIDE DEF u
<1>6. Leads(nodes', u, V)
  BY <1>0, <1>2, <1>3, <1>4 DEF Leads
<1>7. Ledger(V, u, issued', fresh)
  BY <1>0, <1>2, <1>3 DEF Ledger
<1>8. /\ Leads(nodes', todo', V) /\ Ledger(V, todo', issued', fresh)
      /\ treeDepth' = depth' /\ DepthOK(depth', todo', h[rootId])
  BY <1>0, <1>5, <1>6, <1>7
<1> QED
  BY <1>2, <1>8 DEF CallLeads

LEMMA StorageCallKeeps == ASSUME IInv, Structure, faults = 0, StorageCall PROVE Structure'
<1>1. /\ todo # <<>> /\ UNCHANGED <<pc, locals>> /\ faults' = 0
  BY DEF StorageCall, CallPersist, CallRemove, CallSetDepth, Pending
<1>2. pc # "panic"
  BY <1>1, AtCall
<1>3. CallLeads
  BY CallPersistLeads, CallRemoveLeads, CallSetDepthLeads DEF StorageCall
<1>4. fresh' = fresh
  BY <1>1 DEF locals
<1>5. PICK V, h : /\ Sound(V, h) /\ Leads(nodes', todo', V) /\ Ledger(V, todo', issued', fresh)
                  /\ treeDepth' = depth' /\ DepthOK(depth', todo', h[rootId])
  BY <1>3 DEF CallLeads
<1> QED
  BY <1>1, <1>2, <1>5, CallDone

\* Every node that is loaded is stored.
LEMMA LoadsStored ==
    ASSUME IInv, Structure, faults = 0, NEW c, Loads(c)
    PROVE  Stores(c)
<1>1. CASE /\ At("get") \/ At("insert") \/ At("delete")
           /\ \E p \in find(cur.values, req.key) : c \in Child(cur, p)
  <2>1. /\ cur.id \in DOMAIN nodes /\ cur = nodes[cur.id]
        /\ \E h : Rests(h) /\ Balanced(nodes, h, NoRepair)
    <3>1. CASE At("get")
      BY <3>1, AtRest DEF At
    <3>2. CASE At("insert") \/ At("delete")
      BY <3>2, AtDescent DEF At
    <3> QED
      BY <1>1, <3>1, <3>2
  <2>2. PICK h : Rests(h) /\ Balanced(nodes, h, NoRepair)
    BY <2>1
  <2>3. PICK i \in DOMAIN nodes : cur = nodes[i]
    BY <2>1
  <2>4. PICK p \in find(cur.values, req.key) : c \in Child(cur, p)
    BY <1>1
  <2>5. p \in Int
    <3>1. cur \in Node
      BY Parts DEF LocalsOK
    <3>2. Len(cur.values) \in Nat
      BY <3>1, NodeParts
    <3> QED
      BY <3>2 DEF find
  <2>6. c \in Child(nodes[i], p) /\ Typed(nodes)
    BY <2>2, <2>3, <2>4 DEF Rests
  <2> QED
    BY <2>2, <2>5, <2>6, ChildAt DEF Stores
<1>2. CASE At("pop") /\ c \in Child(cur, Len(cur.children) - 1)
  <2>1. /\ cur.id \in DOMAIN nodes /\ cur = nodes[cur.id]
        /\ \E h : Rests(h) /\ Balanced(nodes, h, NoRepair)
    BY <1>2, AtDescent DEF At
  <2>2. PICK h : Rests(h) /\ Balanced(nodes, h, NoRepair)
    BY <2>1
  <2>3. PICK i \in DOMAIN nodes : cur = nodes[i]
    BY <2>1
  <2>4. Len(cur.children) - 1 \in Int
    <3>1. cur \in Node
      BY Parts DEF LocalsOK
    <3>2. Len(cur.children) \in Nat
      BY <3>1, NodeParts
    <3> QED
      BY <3>2
  <2>5. PICK p \in Int : p = Len(cur.children) - 1
    BY <2>4
  <2>6. c \in Child(nodes[i], p) /\ Typed(nodes)
    BY <1>2, <2>2, <2>3, <2>5 DEF Rests
  <2> QED
    BY <2>2, <2>6, ChildAt DEF Stores
<1>3. CASE At("balance") /\ c = Final(path).visitedNode
  <2>1. \E h : Trail(nodes, h, path, TRUE)
    BY <1>3, AtBalance
  <2>2. \A k \in DOMAIN path : path[k].visitedNode \in DOMAIN nodes
    BY <2>1 DEF Trail
  <2>3. path # <<>> /\ path \in Seq(deleteStep)
    BY <2>1, VisitedLast DEF Trail
  <2> QED
    BY <1>3, <2>2, <2>3 DEF Final, Stores
<1>4. CASE At("fix") /\ (c = Final(path).visitedNode \/ \E s \in {1, at - 1} : c \in Child(Parent, s))
  <2> DEFINE v == Final(path).visitedNode
  <2>1. /\ v \in DOMAIN nodes /\ Parent = nodes[v] /\ at \in Nat
        /\ \E h : Rests(h) /\ Balanced(nodes, h, {cur.id})
    BY <1>4, AtRepair
  <2>2. PICK h, weak : Rests(h) /\ Balanced(nodes, h, weak)
    BY <2>1
  <2> HIDE DEF v
  <2>3. CASE c = v
    BY <2>1, <2>3 DEF Stores
  <2>4. CASE \E s \in {1, at - 1} : c \in Child(Parent, s)
    <3>1. PICK s \in {1, at - 1} : c \in Child(Parent, s)
      BY <2>4
    <3>2. PICK i \in DOMAIN nodes : Parent = nodes[i]
      BY <2>1
    <3>3. s \in Int /\ c \in Child(nodes[i], s) /\ Typed(nodes)
      BY <2>1, <2>2, <3>1, <3>2 DEF Rests
    <3> QED
      BY <2>2, <3>3, ChildAt DEF Stores
  <2> QED
    BY <1>4, <2>3, <2>4 DEF v
<1>5. CASE At("grow") /\ path # <<>> /\ c = Final(path).visitedNode
  <2>1. \E h, W : /\ W = [nodes EXCEPT ![cur.id] = cur] /\ Typed(W)
                  /\ Rests(h) /\ Balanced(W, h, NoRepair) /\ Trail(W, h, PushCur, FALSE)
    BY <1>5, AtGrow
  <2>2. PICK h, W : /\ DOMAIN W = DOMAIN nodes /\ Typed(W)
                    /\ Balanced(W, h, NoRepair) /\ Trail(W, h, PushCur, FALSE)
    BY <2>1
  <2>3. PICK exact \in BOOLEAN : Trail(W, h, PushCur, exact)
    BY <2>2
  <2>4. c \in DOMAIN W
    BY <1>5, <2>2, <2>3, ParentFacts
  <2> QED
    BY <2>2, <2>4 DEF Stores
<1> QED
  BY <1>1, <1>2, <1>3, <1>4, <1>5 DEF Loads

\* The operation ends with an error or a panic and queues nothing.
LEMMA EarlyEnd == ASSUME IInv, Structure, faults = 0, LoadMissing \/ Panic \/ Fail PROVE Structure'
<1>1. ~LoadMissing
  BY LoadsStored DEF LoadMissing
<1>2. CASE Panic
  BY <1>2 DEF Panic, Abort, Structure
<1>3. CASE Fail
  <2>1. faults' = 1 /\ pc' = "error" /\ todo' = <<>>
    BY <1>3 DEF Fail, Abort
  <2> QED
    BY <2>1 DEF Structure
<1> QED
  BY <1>1, <1>2, <1>3

\* After a failed call nothing is queued again: the operations only read.
LEMMA FaultyKeeps == ASSUME IInv, Structure, faults > 0, Next PROVE Structure'
<1>1. todo = <<>> /\ pc \in {"idle", "get", "done", "error", "panic"} /\ faults \in Nat
  BY Parts DEF Structure, HistoryOK
<1>2. /\ ~Insert /\ ~Delete /\ ~Balance /\ ~StorageCall /\ ~InsertCall /\ ~DeleteCall
  <2>1. ~Insert
    BY <1>1 DEF Insert, InsertReplace, InsertLeaf, InsertDescend, InsertPersist, InsertNewId,
                InsertSplit, InsertSplitRoot, At
  <2>2. ~Delete
    BY <1>1 DEF Delete, DeleteLeaf, DeleteInner, DeleteAbsent, DeleteDescend, PopDescend, PopLeaf, At
  <2>3. ~Balance
    BY <1>1 DEF Balance, BalanceRoot, BalanceLoad, FixDone, BorrowRight, BorrowLeft, MergeRight,
                MergeLeft, Fixing, At
  <2>4. ~StorageCall
    BY <1>1 DEF StorageCall, CallPersist, CallRemove, CallSetDepth, Pending
  <2>5. ~InsertCall /\ ~DeleteCall
    BY <1>1 DEF InsertCall, DeleteCall, Call
  <2> QED
    BY <2>1, <2>2, <2>3, <2>4, <2>5
<1>3. ASSUME todo' = <<>>, pc' \in {"idle", "get", "done", "error", "panic"},
             faults' = faults \/ faults' = faults + 1
      PROVE  Structure'
  <2>1. faults' # 0
    BY <1>1, <1>3
  <2> QED
    BY <1>3, <2>1 DEF Structure
<1>4. CASE GetCall
  <2>1. todo' = todo /\ pc' = "get" /\ faults' = faults
    BY <1>4 DEF GetCall, Call, Goto
  <2> QED
    BY <1>1, <1>3, <2>1
<1>5. CASE Get
  <2>1. todo' = todo /\ pc' \in {"get", "done"} /\ faults' = faults
    BY <1>5 DEF Get, GetFound, GetNotFound, GetDescend, Goto, Finish, Compute
  <2> QED
    BY <1>1, <1>3, <2>1
<1>6. CASE Return
  <2>1. todo' = todo /\ pc' = "idle" /\ faults' = faults
    BY <1>6 DEF Return
  <2> QED
    BY <1>1, <1>3, <2>1
<1>7. CASE LoadMissing \/ Panic \/ Fail
  <2>1. todo' = <<>> /\ pc' \in {"error", "panic"} /\ (faults' = faults \/ faults' = faults + 1)
    BY <1>7 DEF LoadMissing, Panic, Fail, Abort
  <2> QED
    BY <1>3, <2>1
<1> QED
  BY <1>2, <1>4, <1>5, <1>6, <1>7 DEF Next, Step

\* A stutter.
LEMMA StructureStays == ASSUME IInv, Structure, UNCHANGED vars PROVE Structure'
<1>1. /\ nodes' = nodes /\ issued' = issued /\ depth' = depth /\ treeDepth' = treeDepth /\ pc' = pc
      /\ cur' = cur /\ path' = path /\ at' = at /\ target' = target /\ fresh' = fresh
      /\ todo' = todo /\ faults' = faults
  BY DEF vars
<1>2. ASSUME NEW V, NEW h, Sound(V, h) PROVE Sound(V, h)'
  <2>1. /\ Leads(nodes', todo', V) /\ Ledger(V, todo', issued', fresh')
        /\ treeDepth' = depth' /\ DepthOK(depth', todo', h[rootId])
    BY <1>1, <1>2 DEF Sound
  <2>2. Current(V)'
    BY <1>1, <1>2 DEF Sound, Current
  <2>3. Grown(V)' = Grown(V) /\ Visited' = Visited /\ PushCur' = PushCur
    BY <1>1 DEF Grown, Visited, PushCur
  <2>4. Weak' = Weak
    BY <1>1, <2>3 DEF Weak
  <2>5. Balanced(Grown(V)', h, Weak')
    BY <1>2, <2>3, <2>4 DEF Sound
  <2>6. pc' \in {"insert", "grow", "delete", "pop", "balance", "fix"} =>
           Trail(Grown(V)', h, Visited', pc' \notin {"insert", "grow"})
    BY <1>1, <1>2, <2>3 DEF Sound
  <2> QED
    BY <2>1, <2>2, <2>5, <2>6 DEF Sound
<1> QED
  BY <1>1, <1>2 DEF Structure

-----------------------------------------------------------------------------
(* Every step keeps the structure.                                         *)

LEMMA CallsKeep ==
    ASSUME IInv, Structure, faults = 0, GetCall \/ InsertCall \/ DeleteCall PROVE Structure'
<1>1. PICK r \in Request, l \in {"get", "insert", "delete"} : Call(r, l)
  BY DEF GetCall, InsertCall, DeleteCall
<1> QED
  BY <1>1, CallKeeps

LEMMA InsertKeeps == ASSUME IInv, Structure, faults = 0, Insert PROVE Structure'
BY InsertReplaceKeeps, InsertLeafKeeps, InsertDescendKeeps, InsertPersistKeeps, InsertNewIdKeeps,
   InsertSplitKeeps, InsertSplitRootKeeps DEF Insert

LEMMA DeleteKeeps == ASSUME IInv, Structure, faults = 0, Delete PROVE Structure'
BY DeleteLeafKeeps, DeleteInnerKeeps, DeleteAbsentKeeps, DeleteDescendKeeps, PopDescendKeeps,
   PopLeafKeeps DEF Delete

LEMMA StructureStep == IInv /\ Structure /\ [Next]_vars => Structure'
<1> SUFFICES ASSUME IInv, Structure, [Next]_vars PROVE Structure'
  OBVIOUS
<1>1. faults = 0 \/ faults > 0
  BY Parts DEF HistoryOK
<1>2. CASE UNCHANGED vars
  BY <1>2, StructureStays
<1>3. CASE Next /\ faults > 0
  BY <1>3, FaultyKeeps
<1>4. CASE Next /\ faults = 0
  <2>1. CASE GetCall \/ InsertCall \/ DeleteCall
    BY <1>4, <2>1, CallsKeep
  <2>2. CASE Get \/ Insert \/ Delete \/ Balance
    BY <1>4, <2>2, GetKeeps, InsertKeeps, DeleteKeeps, BalanceKeeps
  <2>3. CASE StorageCall \/ Return
    BY <1>4, <2>3, StorageCallKeeps, ReturnKeeps
  <2>4. CASE LoadMissing \/ Panic \/ Fail
    BY <1>4, <2>4, EarlyEnd
  <2> QED
    BY <1>4, <2>1, <2>2, <2>3, <2>4 DEF Next, Step
<1> QED
  BY <1>1, <1>2, <1>3, <1>4

\* While no storage call fails: what is stored, once the queued calls are done, is a
\* balanced (a,b)-tree, at every step of every operation; every issued id is a
\* node's; and the depth the storage keeps is the height of the tree.
THEOREM TreeKeepsStructure == Spec => [](IInv /\ Structure)
<1>1. IInv /\ Structure /\ [Next]_vars => Structure'
  BY StructureStep
<1>2. Init => Structure
  BY StructureInit
<1> QED
  BY <1>1, <1>2, TreeKeepsInvariant, PTL DEF Spec

\* Every node that Get, Insert and Delete load is still stored, whatever the order
\* of the calls before: without a failing storage call no operation returns an
\* error.
THEOREM TreeAnswersNoError == Spec => []ErrorFree
<1>1. IInv /\ Structure => ErrorFree
  BY DEF Structure, Sound, Current, ErrorFree
<1> QED
  BY <1>1, TreeKeepsStructure, PTL

-----------------------------------------------------------------------------
(* Indices and the stack.                                                  *)

\* The node an operation stands at has the shape of a node of an (a,b)-tree.
LEMMA CurShaped ==
    ASSUME IInv, Structure, faults = 0, todo = <<>>, pc \in {"get", "insert", "delete", "pop"}
    PROVE  /\ cur \in Node /\ Shaped(cur) /\ Len(cur.values) \in Nat
           /\ cur.id # rootId => Len(cur.values) >= 1
<1>1. /\ cur.id \in DOMAIN nodes /\ cur = nodes[cur.id]
      /\ \E h : Rests(h) /\ Balanced(nodes, h, NoRepair)
  <2>1. CASE pc = "get"
    BY <2>1, AtRest
  <2>2. CASE pc \in {"insert", "delete", "pop"}
    BY <2>2, AtDescent
  <2> QED
    BY <2>1, <2>2
<1>2. PICK h : Rests(h) /\ Balanced(nodes, h, NoRepair)
  BY <1>1
<1>3. NodeOK(cur, h[cur.id], NoRepair)
  BY <1>1, <1>2 DEF Balanced
<1>4. cur \in Node
  BY Parts DEF LocalsOK
<1>5. Len(cur.values) \in Nat
  BY <1>4, NodeParts
<1>6. cur.id # rootId => Len(cur.values) >= 1
  <2>1. Len(cur.values) >= Least(cur, NoRepair)
    BY <1>3 DEF NodeOK
  <2>2. cur.id # rootId => Least(cur, NoRepair) = a - 1
    BY DEF Least, NoRepair
  <2> QED
    BY <1>5, <2>1, <2>2, Parameters
<1> QED
  BY <1>3, <1>4, <1>5, <1>6 DEF NodeOK

\* The descents find a child at each position of a value, and one behind the last.
LEMMA ChildThere ==
    ASSUME NEW n \in Node, Shaped(n), ~n.leaf, NEW p \in 0 .. Len(n.values)
    PROVE  Child(n, p) # {}
<1>1. n.children \in Seq(Ids \ {rootId}) /\ Len(n.values) \in Nat
  BY NodeParts
<1>2. Len(n.children) = Len(n.values) + 1
  BY DEF Shaped
<1>3. p + 1 \in DOMAIN n.children
  BY <1>1, <1>2
<1>4. n.children[p + 1] \in Child(n, p)
  BY <1>3 DEF Child
<1> QED
  BY <1>4

LEMMA DescendsInRange ==
    ASSUME IInv, Structure, faults = 0, At("get") \/ At("insert") \/ At("delete"), ~cur.leaf,
           NEW p \in find(cur.values, req.key)
    PROVE  Child(cur, p) # {}
<1>1. cur \in Node /\ Shaped(cur)
  BY CurShaped DEF At
<1>2. p \in 0 .. Len(cur.values)
  BY DEF find
<1> QED
  BY <1>1, <1>2, ChildThere

\* popLargest ends in a leaf that is not the root, so has a value.
LEMMA PopsInRange ==
    ASSUME IInv, Structure, faults = 0, At("pop")
    PROVE  IF cur.leaf THEN cur.values # <<>> ELSE cur.children # <<>>
<1>1. cur \in Node /\ Shaped(cur) /\ Len(cur.values) \in Nat
      /\ (cur.id # rootId => Len(cur.values) >= 1)
  BY CurShaped DEF At
<1>2. path # <<>> /\ cur.id # rootId
  <2>1. path # <<>>
    BY AtDescent DEF At
  <2> QED
    BY <2>1, Parts DEF LocalsOK, At
<1>3. cur.values # <<>>
  <2>1. Len(cur.values) # 0
    BY <1>1, <1>2
  <2> QED
    BY <2>1
<1>4. ~cur.leaf => cur.children # <<>>
  <2>1. cur.children \in Seq(Ids \ {rootId})
    BY <1>1, NodeParts
  <2>2. ~cur.leaf => Len(cur.children) # 0
    BY <1>1 DEF Shaped
  <2> QED
    BY <2>1, <2>2
<1> QED
  BY <1>3, <1>4

\* A node is split with b values and, unless it is a leaf, b + 1 children: for an odd
\* b both halves are where splitFullNode looks for them.
LEMMA SplitsInRange ==
    ASSUME IInv, Structure, faults = 0, b % 2 = 1, At("grow"), fresh # <<>>
    PROVE  SplitInRange(cur)
<1>1. /\ Full(cur) /\ cur.id \in DOMAIN nodes
      /\ \E h, W : /\ W = [nodes EXCEPT ![cur.id] = cur] /\ Typed(W)
                   /\ Balanced(W, h, NoRepair)
  BY AtGrow
<1>2. PICK h, W : W = [nodes EXCEPT ![cur.id] = cur] /\ Balanced(W, h, NoRepair)
  BY <1>1
<1>3. NodeOK(cur, h[cur.id], NoRepair)
  <2>1. cur.id \in DOMAIN W /\ W[cur.id] = cur
    BY <1>1, <1>2
  <2> QED
    BY <1>2, <2>1 DEF Balanced
<1>4. cur \in Node /\ Len(cur.values) <= b
  BY Parts DEF LocalsOK
<1>5. Len(cur.values) \in Nat /\ Len(cur.children) \in Nat
  BY <1>4, NodeParts
<1>6. Len(cur.values) = b
  BY <1>1, <1>4, <1>5, Parameters DEF Full
<1>7. ~cur.leaf => Len(cur.children) = b + 1
  BY <1>3, <1>6 DEF NodeOK, Shaped
<1>8. b > 2 * middleIndex
  BY Parameters DEF middleIndex
<1> QED
  BY <1>6, <1>7, <1>8, Parameters DEF SplitInRange

\* prependBefore finds the node that was split among the children of its parent.
LEMMA LastThere ==
    ASSUME NEW S, NEW s \in Seq(S), IsInjective(s), NEW e \in Range(s)
    PROVE  lastOf(s, e) # {}
<1>1. PICK i \in DOMAIN s : s[i] = e
  BY DEF Range
<1>2. \A j \in DOMAIN s : j > i => s[j] # e
  BY <1>1 DEF IsInjective
<1>3. i \in lastOf(s, e)
  BY <1>1, <1>2 DEF lastOf
<1> QED
  BY <1>3

LEMMA TargetFound ==
    ASSUME IInv, Structure, faults = 0, At("grow"), path # <<>>
    PROVE  lastOf(Parent.children, cur.id) # {}
<1> DEFINE v == Final(path).visitedNode
<1>1. /\ cur.id \in DOMAIN nodes
      /\ \E h, W : /\ W = [nodes EXCEPT ![cur.id] = cur] /\ Typed(W)
                   /\ Balanced(W, h, NoRepair) /\ Trail(W, h, PushCur, FALSE)
  BY AtGrow
<1>2. PICK h, W : /\ W = [nodes EXCEPT ![cur.id] = cur] /\ Typed(W)
                  /\ Balanced(W, h, NoRepair) /\ Trail(W, h, PushCur, FALSE)
  BY <1>1
<1>3. Balanced(W, h, NoRepair) /\ Trail(W, h, PushCur, FALSE) /\ Typed(W)
  BY <1>2
<1>4. PICK weak : weak = NoRepair
  OBVIOUS
<1>10. PICK exact \in BOOLEAN : exact = FALSE
  OBVIOUS
<1>5. Balanced(W, h, weak) /\ Trail(W, h, PushCur, exact)
  BY <1>3, <1>4, <1>10
<1>6. v \in DOMAIN W /\ v # cur.id /\ cur.id \in Range(W[v].children)
  BY <1>3, <1>5, ParentFacts
<1>7. W[v] = Parent
  BY <1>1, <1>2, <1>6 DEF Parent
<1> HIDE DEF v
<1>8. IsInjective(W[v].children)
  BY <1>3, <1>6 DEF Balanced, NodeOK
<1>9. W[v].children \in Seq(Ids \ {rootId})
  BY <1>3, <1>6, TypedNode
<1> QED
  BY <1>6, <1>7, <1>8, <1>9, LastThere

\* cur is a child of an inner node with at least two children.
LEMMA RepairsInRange ==
    ASSUME IInv, Structure, faults = 0, At("fix")
    PROVE  LET s == IF at = 0 THEN 1 ELSE at - 1
               middle == IF at = 0 THEN 0 ELSE at - 1
           IN /\ path # <<>> /\ s \in Nat /\ s # at
              /\ s + 1 \in DOMAIN Parent.children
              /\ middle < Len(Parent.values) /\ middle + 1 < Len(Parent.children)
<1> DEFINE v == Final(path).visitedNode
<1>1. /\ path # <<>> /\ v \in DOMAIN nodes /\ Parent = nodes[v] /\ ~nodes[v].leaf
      /\ at \in Nat /\ at + 1 \in DOMAIN nodes[v].children
      /\ \E h : Rests(h) /\ NodeOK(nodes[v], h[v], NoRepair)
  BY AtRepair
<1>2. PICK h : Rests(h) /\ NodeOK(nodes[v], h[v], NoRepair)
  BY <1>1
<1> HIDE DEF v
<1>3. Parent \in Node /\ NodeOK(Parent, h[v], NoRepair) /\ ~Parent.leaf
  BY <1>1, <1>2, TypedNode DEF Rests
<1>4. Shaped(Parent) /\ Len(Parent.values) >= Least(Parent, NoRepair)
  BY <1>3 DEF NodeOK
<1>5. Least(Parent, NoRepair) = 1 \/ Least(Parent, NoRepair) = a - 1
  BY <1>3 DEF Least, NoRepair
<1>6. Parent.children \in Seq(Ids \ {rootId}) /\ Len(Parent.values) \in Nat
  BY <1>3, NodeParts
<1> DEFINE m == Len(Parent.values)
           l == Least(Parent, NoRepair)
<1>7. m \in Nat /\ m >= 1
  <2>1. m \in Nat /\ m >= l /\ (l = 1 \/ l = a - 1)
    BY <1>4, <1>5, <1>6
  <2> HIDE DEF m, l
  <2> QED
    BY <2>1, Parameters
<1>8. Len(Parent.children) = m + 1
  BY <1>3, <1>4 DEF Shaped
<1>9. at \in Nat /\ at + 1 \in DOMAIN Parent.children
  BY <1>1
<1>10. at \in 0 .. m
  BY <1>6, <1>7, <1>8, <1>9
<1>11. DOMAIN Parent.children = 1 .. m + 1
  BY <1>6, <1>8
<1> HIDE DEF m, l
<1> QED
  BY <1>1, <1>7, <1>8, <1>10, <1>11 DEF m

\* A sibling is a leaf exactly when cur is one.
LEMMA SiblingMoves ==
    ASSUME IInv, Structure, faults = 0, At("fix"), Underfull(cur), ParentStored, ~cur.leaf,
           NEW s \in Nat, s # at, NEW c \in Child(Parent, s), Stores(c)
    PROVE  nodes[c].children # <<>>
<1>1. Fixing(s)
  BY DEF Fixing
<1>2. c = Parent.children[s + 1]
  BY DEF Child
<1>3. PICK h : Repairs(h, Final(path).visitedNode, c)
  BY <1>1, <1>2, RepairStarts
<1>4. nodes[c].leaf = cur.leaf /\ NodeOK(nodes[c], h[c], NoRepair) /\ Typed(nodes) /\ c \in DOMAIN nodes
  BY <1>3 DEF Repairs, Rests
<1>5. ~nodes[c].leaf /\ Shaped(nodes[c])
  BY <1>4 DEF NodeOK
<1>6. Len(nodes[c].values) \in Nat /\ Len(nodes[c].children) = Len(nodes[c].values) + 1
      /\ nodes[c].children \in Seq(Ids \ {rootId})
  BY <1>4, <1>5, TypedNode DEF Shaped
<1>7. Len(nodes[c].children) # 0
  BY <1>6
<1> QED
  BY <1>6, <1>7

LEMMA NoIndexError ==
    ASSUME IInv, Structure, faults = 0, b % 2 = 1
    PROVE  ~IndexError
<1> SUFFICES ASSUME IndexError PROVE FALSE
  OBVIOUS
<1>1. CASE /\ At("get") \/ At("insert") \/ At("delete")
           /\ ~cur.leaf
           /\ \E p \in find(cur.values, req.key) : Child(cur, p) = {}
  BY <1>1, DescendsInRange
<1>2. CASE At("pop") /\ IF cur.leaf THEN cur.values = <<>> ELSE cur.children = <<>>
  BY <1>2, PopsInRange
<1>3. CASE At("grow") /\ fresh # <<>> /\ ~SplitInRange(cur)
  BY <1>3, SplitsInRange
<1>4. CASE At("grow") /\ path # <<>> /\ lastOf(Parent.children, cur.id) = {}
  BY <1>4, TargetFound
<1>5. CASE At("fix") /\ path = <<>>
  BY <1>5, RepairsInRange
<1> DEFINE s == IF at = 0 THEN 1 ELSE at - 1
           middle == IF at = 0 THEN 0 ELSE at - 1
<1>6. CASE At("fix") /\ (Child(Parent, s) = {} \/ middle >= Len(Parent.values)
                          \/ middle + 1 >= Len(Parent.children))
  <2>1. /\ s \in Nat /\ s + 1 \in DOMAIN Parent.children
        /\ middle < Len(Parent.values) /\ middle + 1 < Len(Parent.children)
    BY <1>6, RepairsInRange
  <2>2. Parent.children[s + 1] \in Child(Parent, s)
    BY <2>1 DEF Child
  <2>3. middle \in Int /\ Len(Parent.values) \in Nat /\ Len(Parent.children) \in Nat
    <3>1. at \in Nat
      BY Parts DEF LocalsOK
    <3>2. PICK h : Final(path).visitedNode \in DOMAIN nodes /\ Parent = nodes[Final(path).visitedNode]
                   /\ Rests(h)
      BY <1>6, AtRepair
    <3> QED
      BY <3>1, <3>2, TypedNode DEF Rests
  <2> HIDE DEF s, middle
  <2> QED
    BY <1>6, <2>1, <2>2, <2>3
<1>7. CASE /\ At("fix") /\ Underfull(cur) /\ ParentStored
           /\ \E c \in Child(Parent, s) : Stores(c) /\ ~cur.leaf /\ nodes[c].children = <<>>
  <2>1. s \in Nat /\ s # at
    BY <1>7, RepairsInRange
  <2> HIDE DEF s
  <2> QED
    BY <1>7, <2>1, SiblingMoves
<1> QED
  BY <1>1, <1>2, <1>3, <1>4, <1>5, <1>6, <1>7 DEF IndexError

\* No other step ends in a panic.
LEMMA OnlyPanics ==
    ASSUME IInv, pc # "panic", [Next]_vars, pc' = "panic"
    PROVE  Panic
<1>1. ~(GetCall \/ InsertCall \/ DeleteCall \/ Return \/ Get \/ UNCHANGED vars)
  BY DEF GetCall, InsertCall, DeleteCall, Call, Return, Get, GetFound, GetNotFound, GetDescend,
         Goto, Finish, vars
<1>2. ~Insert
  BY DEF Insert, InsertReplace, InsertLeaf, InsertDescend, InsertPersist, InsertNewId, InsertSplit,
         InsertSplitRoot, Goto, Finish
<1>3. ~Delete
  BY DEF Delete, DeleteLeaf, DeleteInner, DeleteAbsent, DeleteDescend, PopDescend, PopLeaf,
         Goto, Finish
<1>4. ~Balance
  BY DEF Balance, BalanceRoot, BalanceLoad, FixDone, BorrowRight, BorrowLeft, MergeRight, MergeLeft,
         merge, NextLevel, AfterLevel, Goto, Finish
<1>5. ~StorageCall
  BY DEF StorageCall, CallPersist, CallRemove, CallSetDepth
<1>6. ~LoadMissing /\ ~Fail
  BY DEF LoadMissing, Fail, Abort
<1> QED
  BY <1>1, <1>2, <1>3, <1>4, <1>5, <1>6 DEF Next, Step

\* Only a failing call counts.
LEMMA FaultsStay == ASSUME Next, ~Fail PROVE faults' = faults
<1>1. ASSUME Compute PROVE faults' = faults
  BY <1>1 DEF Compute
<1>2. CASE GetCall \/ InsertCall \/ DeleteCall \/ Return \/ Get \/ StorageCall \/ LoadMissing \/ Panic
  BY <1>1, <1>2 DEF GetCall, InsertCall, DeleteCall, Call, Return, Get, GetFound, GetNotFound,
         GetDescend, StorageCall, CallPersist, CallRemove, CallSetDepth, LoadMissing, Panic
<1>3. CASE Insert
  BY <1>1, <1>3 DEF Insert, InsertReplace, InsertLeaf, InsertDescend, InsertPersist, InsertNewId,
         InsertSplit, InsertSplitRoot
<1>4. CASE Delete
  BY <1>1, <1>4 DEF Delete, DeleteLeaf, DeleteInner, DeleteAbsent, DeleteDescend, PopDescend, PopLeaf
<1>5. CASE Balance
  BY <1>1, <1>5 DEF Balance, BalanceRoot, BalanceLoad, FixDone, BorrowRight, BorrowLeft, MergeRight,
         MergeLeft, merge, NextLevel
<1> QED
  BY <1>2, <1>3, <1>4, <1>5 DEF Next, Step

\* For every odd b that NewTree accepts: without a failing storage call no operation
\* indexes outside a slice, pops an empty stack or misses the target of
\* prependBefore.  (With an even b splitFullNode indexes past the end of the values.)
THEOREM TreeNeverPanics == ASSUME b % 2 = 1 PROVE Spec => []PanicFree
<1>1. Init => PanicFree
  BY DEF Init, Idle, PanicFree
<1>2. IInv /\ Structure /\ PanicFree /\ [Next]_vars => PanicFree'
  <2> SUFFICES ASSUME IInv, Structure, PanicFree, [Next]_vars, faults' = 0, pc' = "panic"
               PROVE  FALSE
    BY DEF PanicFree
  <2>1. faults = 0
    <3>1. CASE UNCHANGED vars
      BY <3>1 DEF vars
    <3>2. CASE Next /\ ~Fail
      BY <3>2, FaultsStay
    <3>3. CASE Fail
      BY <3>3 DEF Fail, Abort
    <3> QED
      BY <3>1, <3>2, <3>3
  <2>2. pc # "panic"
    BY <2>1 DEF PanicFree
  <2>3. Panic
    BY <2>2, OnlyPanics
  <2> QED
    BY <2>1, <2>3, NoIndexError DEF Panic
<1> QED
  BY <1>1, <1>2, TreeKeepsStructure, PTL DEF Spec

-----------------------------------------------------------------------------
(* The rules of the storage.                                               *)

\* Nothing is persisted under an id that was removed or never handed out, and only
\* stored nodes are removed.
LEMMA CallAllowed ==
    ASSUME IInv, Structure, faults = 0, todo # <<>>
    PROVE  /\ Pending("Persist") => Head(todo).node.id \in issued
           /\ Pending("Remove") => Stores(Head(todo).id) /\ Head(todo).id # rootId
<1>1. /\ FitTodo(todo)
      /\ \E V, h : Leads(nodes, todo, V) /\ Ledger(V, todo, issued, fresh)
  BY AtCall
<1>2. PICK V, h : Leads(nodes, todo, V) /\ Ledger(V, todo, issued, fresh)
  BY <1>1
<1>3. CASE Pending("Persist")
  <2>1. Head(todo).node.id \in DOMAIN V
    BY <1>1, <1>2, <1>3, QueueLater DEF Pending
  <2> QED
    BY <1>2, <1>3, <2>1 DEF Ledger, Pending
<1>4. CASE Pending("Remove")
  <2>1. Head(todo).id \in Removes(todo)
    <3>1. Removes(todo) = Removes(Tail(todo)) \cup {Head(todo).id}
      BY <1>1, <1>4, QueueSets DEF Pending
    <3> QED
      BY <3>1
  <2>2. Stores(Head(todo).id)
    BY <1>2, <2>1 DEF Leads, Stores
  <2>3. Head(todo).id # rootId
    BY <1>1, <1>4, FirstCall, CallParts DEF Pending
  <2> QED
    BY <1>4, <2>2, <2>3 DEF Pending
<1> QED
  BY <1>3, <1>4 DEF Pending

\* A step of the operation's own code, but for NewId, calls no storage.
LEMMA ComputesOnly ==
    ASSUME \/ GetCall \/ InsertCall \/ DeleteCall \/ Return \/ Get \/ Delete \/ Balance
           \/ InsertReplace \/ InsertLeaf \/ InsertDescend \/ InsertPersist \/ InsertSplit
           \/ InsertSplitRoot \/ LoadMissing \/ Panic
    PROVE  UNCHANGED storageVars
<1>1. ASSUME Compute PROVE UNCHANGED storageVars
  BY <1>1 DEF Compute, storageVars
<1>2. CASE GetCall \/ InsertCall \/ DeleteCall \/ Return \/ Get \/ LoadMissing \/ Panic
  BY <1>1, <1>2 DEF GetCall, InsertCall, DeleteCall, Call, Return, Get, GetFound, GetNotFound,
         GetDescend, LoadMissing, Panic, storageVars
<1>3. CASE \/ InsertReplace \/ InsertLeaf \/ InsertDescend \/ InsertPersist \/ InsertSplit
           \/ InsertSplitRoot
  BY <1>1, <1>3 DEF InsertReplace, InsertLeaf, InsertDescend, InsertPersist,
         InsertSplit, InsertSplitRoot
<1>4. CASE Delete
  BY <1>1, <1>4 DEF Delete, DeleteLeaf, DeleteInner, DeleteAbsent, DeleteDescend, PopDescend, PopLeaf
<1>5. CASE Balance
  BY <1>1, <1>5 DEF Balance, BalanceRoot, BalanceLoad, FixDone, BorrowRight, BorrowLeft, MergeRight,
         MergeLeft, merge, NextLevel
<1> QED
  BY <1>2, <1>3, <1>4, <1>5

\* What Persist puts in the place of a node is the node that Tree handed over.
LEMMA PersistAllowed ==
    ASSUME NEW n, n.id \in issued, nodes' = Put(n.id, Stored(n)), UNCHANGED <<issued, depth>>
    PROVE  \E id \in DOMAIN nodes' : Persist(id, nodes'[id])
<1> DEFINE i == n.id
           m == Stored(n)
<1>1. nodes' = Put(i, m) /\ i \in issued
  OBVIOUS
<1> HIDE DEF i, m
<1>2. i \in DOMAIN nodes' /\ nodes'[i] = m
  BY <1>1 DEF Put
<1>3. Persist(i, nodes'[i])
  BY <1>1, <1>2 DEF Persist
<1> QED
  BY <1>2, <1>3

LEMMA StorageStep ==
    ASSUME IInv, Structure, MaxFaults = 0, [Next]_vars
    PROVE  [StorageNext]_storageVars
<1>1. faults = 0 /\ ~Fail
  BY Parts DEF HistoryOK, Fail
<1>2. CASE UNCHANGED vars
  BY <1>2 DEF vars, storageVars
<1>3. CASE InsertNewId
  <2>1. PICK id \in NextIds(issued) : issued' = issued \cup {id}
    BY <1>3 DEF InsertNewId
  <2>2. id \in Ids \ issued
    BY <2>1, NextIdsAssumption, Parts DEF StorageOK
  <2>3. NewId(id)
    BY <1>3, <2>1, <2>2 DEF InsertNewId, NewId
  <2> QED
    BY <2>2, <2>3 DEF StorageNext
<1>4. CASE CallPersist
  <2>1. Head(todo).node.id \in issued
    BY <1>1, <1>4, CallAllowed DEF CallPersist, Pending
  <2>2. \E id \in DOMAIN nodes' : Persist(id, nodes'[id])
    BY <1>4, <2>1, PersistAllowed DEF CallPersist
  <2> QED
    BY <2>2 DEF StorageNext
<1>5. CASE CallRemove
  <2>1. Stores(Head(todo).id) /\ Head(todo).id # rootId
    BY <1>1, <1>5, CallAllowed DEF CallRemove, Pending
  <2>2. Remove(Head(todo).id)
    BY <1>5, <2>1 DEF CallRemove, Remove
  <2> QED
    BY <2>1, <2>2 DEF StorageNext, Stores
<1>6. CASE CallSetDepth
  BY <1>6 DEF CallSetDepth, SetDepth, StorageNext
<1> QED
  BY <1>1, <1>2, <1>3, <1>4, <1>5, <1>6, ComputesOnly DEF Next, Step, Insert, StorageCall

\* Tree may be used with any implementation of NodeStorage whose calls succeed: it
\* persists only under ids that are the root's or came from NewId and were not
\* removed since, removes only stored nodes, each once, and never the root.
THEOREM TreeRespectsStorage == ASSUME MaxFaults = 0 PROVE Spec => RespectsStorage
<1>1. Init => StorageInit
  BY DEF Init
<1>2. IInv /\ Structure /\ [Next]_vars => [StorageNext]_storageVars
  BY StorageStep
<1> QED
  BY <1>1, <1>2, TreeKeepsStructure, PTL DEF Spec, RespectsStorage, StorageSpec

-----------------------------------------------------------------------------
(* The children fit the blocks of the file.                                *)

QueueNarrow == \A k \in DOMAIN todo : todo[k].call = "Persist" => Len(todo[k].node.children) <= b
NodesNarrow == \A i \in DOMAIN nodes : Len(nodes[i].children) <= b

\* A node that is to be persisted has at most one child more than values.
LEMMA QueueFits == ASSUME IInv, Structure PROVE QueueNarrow
<1>1. CASE todo = <<>>
  BY <1>1 DEF QueueNarrow
<1>2. CASE todo # <<>>
  <2>1. faults = 0
    <3>1. faults \in Nat /\ ~(faults > 0)
      BY <1>2, Parts DEF Structure, HistoryOK
    <3> QED
      BY <3>1
  <2>2. FitTodo(todo) /\ \E V : Leads(nodes, todo, V)
    BY <1>2, <2>1, AtCall
  <2>3. PICK V : Leads(nodes, todo, V)
    BY <2>2
  <2>4. ASSUME NEW k \in DOMAIN todo, todo[k].call = "Persist"
        PROVE  Len(todo[k].node.children) <= b
    <3> DEFINE n == todo[k].node
    <3>1. FitNode(n) /\ Shaped(n)
      BY <2>2, <2>3, <2>4, CallParts DEF FitTodo, Leads
    <3>2. Len(n.values) \in Nat /\ Len(n.values) < b
      BY <3>1, NodeParts DEF FitNode
    <3>3. Len(n.children) = 0 \/ Len(n.children) = Len(n.values) + 1
      BY <3>1 DEF Shaped
    <3> HIDE DEF n
    <3>4. Len(n.children) <= b
      BY <3>2, <3>3, Parameters
    <3> QED
      BY <3>4 DEF n
  <2> QED
    BY <2>4 DEF QueueNarrow
<1> QED
  BY <1>1, <1>2

\* The file keeps no more than b children; in memory a node is kept as it is.
LEMMA StoredNarrow ==
    ASSUME NEW n \in Node, Backend = "file" \/ Len(n.children) <= b
    PROVE  Len(Stored(n).children) <= b
<1>1. n.children \in Seq(Ids \ {rootId}) /\ Len(n.children) \in Nat
  BY NodeParts
<1>2. CASE Backend = "memory"
  BY <1>2, BackendAssumption DEF Stored
<1>3. CASE Backend = "file"
  <2>1. Stored(n).children = Prefix(n.children, b)
    BY <1>3 DEF Stored, Node
  <2>2. Len(Prefix(n.children, b)) <= b
    <3> DEFINE l == IF Len(n.children) < b THEN Len(n.children) ELSE b
    <3>1. l \in 0 .. Len(n.children) /\ l <= b
      BY <1>1, Parameters
    <3>2. Prefix(n.children, b) = SubSeq(n.children, 1, l)
      BY DEF Prefix
    <3> HIDE DEF l
    <3>3. Len(SubSeq(n.children, 1, l)) = l
      BY <1>1, <3>1
    <3> QED
      BY <3>1, <3>2, <3>3
  <2> QED
    BY <2>1, <2>2
<1> QED
  BY <1>2, <1>3, BackendAssumption

LEMMA PutNarrow ==
    ASSUME NodesNarrow, NEW i, NEW n, Len(n.children) <= b, nodes' = Put(i, n)
    PROVE  NodesNarrow'
<1>1. \A j \in DOMAIN nodes' : nodes'[j] = n \/ (j \in DOMAIN nodes /\ nodes'[j] = nodes[j])
  BY DEF Put
<1> QED
  BY <1>1 DEF NodesNarrow

LEMMA DropNarrow ==
    ASSUME NodesNarrow, NEW i, nodes' = Drop(i)
    PROVE  NodesNarrow'
<1>1. \A j \in DOMAIN nodes' : j \in DOMAIN nodes /\ nodes'[j] = nodes[j]
  BY DEF Drop
<1> QED
  BY <1>1 DEF NodesNarrow

\* What is left of a Persist that fails is read back through the same Get.
LEMMA TornNarrow ==
    ASSUME IInv, NodesNarrow, Backend = "file", NEW n \in Node, TornPersist(n)
    PROVE  NodesNarrow'
<1> DEFINE old == IF Stores(n.id) THEN nodes[n.id]
                  ELSE [n EXCEPT !.values = <<>>, !.children = stale[n.id]]
           half == [n EXCEPT !.children = old.children]
<1>1. nodes' = nodes \/ nodes' = Put(n.id, Stored(old)) \/ nodes' = Put(n.id, Stored(half))
  BY DEF TornPersist
<1>2. n.id \in Ids /\ <<>> \in Seq(Tuple) /\ stale[n.id] \in Seq(Ids \ {rootId})
  BY NodeParts, EmptySeq, Parts DEF StorageOK
<1>3. old \in Node
  <2>1. CASE Stores(n.id)
    BY <2>1, Parts DEF StorageOK, FitNodes, FitNode, Stores
  <2>2. CASE ~Stores(n.id)
    BY <1>2, <2>2 DEF Node
  <2> QED
    BY <2>1, <2>2
<1> HIDE DEF old
<1>4. half \in Node
  BY <1>3 DEF Node
<1> HIDE DEF half
<1>5. Len(Stored(old).children) <= b /\ Len(Stored(half).children) <= b
  BY <1>3, <1>4, StoredNarrow
<1>6. CASE nodes' = nodes
  BY <1>6 DEF NodesNarrow
<1> QED
  BY <1>1, <1>5, <1>6, PutNarrow

LEMMA NarrowStep == IInv /\ Structure /\ NodesNarrow /\ [Next]_vars => NodesNarrow'
<1> SUFFICES ASSUME IInv, Structure, NodesNarrow, [Next]_vars PROVE NodesNarrow'
  OBVIOUS
<1>1. ASSUME nodes' = nodes PROVE NodesNarrow'
  BY <1>1 DEF NodesNarrow
<1>2. CASE UNCHANGED vars
  BY <1>1, <1>2 DEF vars
<1>3. CASE InsertNewId
  BY <1>1, <1>3 DEF InsertNewId
<1>4. CASE CallPersist
  <2> DEFINE n == Head(todo).node
  <2>1. FitTodo(todo) /\ todo # <<>> /\ Head(todo).call = "Persist" /\ nodes' = Put(n.id, Stored(n))
    BY <1>4, Parts DEF CallPersist, Pending
  <2>2. 1 \in DOMAIN todo /\ todo[1] = Head(todo) /\ FitNode(n)
    BY <2>1, QueueParts
  <2>3. Len(n.children) <= b /\ n \in Node
    BY <2>1, <2>2, QueueFits DEF QueueNarrow, FitNode
  <2> HIDE DEF n
  <2>4. Len(Stored(n).children) <= b
    BY <2>3, StoredNarrow
  <2> QED
    BY <2>1, <2>4, PutNarrow
<1>5. CASE CallRemove
  BY <1>5, DropNarrow DEF CallRemove
<1>6. CASE CallSetDepth
  BY <1>1, <1>6 DEF CallSetDepth
<1>7. CASE Fail
  <2>1. Backend = "file"
    BY <1>7, BackendAssumption, Parts DEF Fail, HistoryOK
  <2>2. CASE Pending("Persist") /\ TornPersist(Head(todo).node)
    <3>1. FitTodo(todo) /\ todo # <<>> /\ Head(todo).call = "Persist"
      BY <2>2, Parts DEF Pending
    <3>2. Head(todo).node \in Node
      BY <3>1, QueueParts DEF FitNode
    <3> QED
      BY <2>1, <2>2, <3>2, TornNarrow
  <2>3. CASE nodes' = nodes
    BY <1>1, <2>3
  <2>4. CASE nodes' = Drop(Head(todo).id)
    BY <2>4, DropNarrow
  <2> QED
    BY <1>7, <2>2, <2>3, <2>4 DEF Fail, storageVars
<1>8. CASE UNCHANGED storageVars
  BY <1>1, <1>8 DEF storageVars
<1> QED
  BY <1>2, <1>3, <1>4, <1>5, <1>6, <1>7, <1>8, ComputesOnly DEF Next, Step, Insert, StorageCall

\* For every a and b that NewTree accepts, and whichever storage calls fail, no
\* node that is stored or about to be has more than b children: the file's block
\* holds them all, and Persist never cuts a subtree off.
THEOREM ChildrenFitBlocks == Spec => []ChildrenFit
<1>1. Init => NodesNarrow
  <2> SUFFICES ASSUME Init PROVE NodesNarrow
    OBVIOUS
  <2>1. \A i \in DOMAIN nodes : nodes[i].children = <<>>
    BY DEF Init, StorageInit, createNewNode
  <2>2. Len(<<>>) <= b
    BY Parameters
  <2> QED
    BY <2>1, <2>2 DEF NodesNarrow
<1>2. IInv /\ Structure /\ NodesNarrow /\ [Next]_vars => NodesNarrow'
  BY NarrowStep
<1>3. IInv /\ Structure /\ NodesNarrow => ChildrenFit
  BY QueueFits DEF QueueNarrow, NodesNarrow, ChildrenFit
<1> QED
  BY <1>1, <1>2, <1>3, TreeKeepsStructure, PTL DEF Spec

-----------------------------------------------------------------------------
(* Between operations.                                                     *)

\* Every node but the root is the child of one node, at one position.
LEMMA OnceEach ==
    ASSUME NEW h, Rests(h), Balanced(nodes, h, NoRepair)
    PROVE  EachNodeOnce
<1> DEFINE K == ChildSets(nodes)
<1>1. DOMAIN K = DOMAIN nodes /\ \A i \in DOMAIN nodes : K[i] = Range(nodes[i].children)
  BY DEF ChildSets
<1>2. Linked(K, h) /\ \A i \in DOMAIN nodes : IsInjective(nodes[i].children)
  BY DEF Balanced, NodeOK
<1> HIDE DEF K
<1>3. ASSUME NEW i \in DOMAIN nodes, i # rootId
      PROVE  \E p \in DOMAIN nodes : \E n \in DOMAIN nodes[p].children : nodes[p].children[n] = i
  <2>1. PICK p \in DOMAIN nodes : i \in Range(nodes[p].children)
    BY <1>1, <1>2, <1>3 DEF Linked
  <2> QED
    BY <2>1 DEF Range
<1>4. ASSUME NEW p \in DOMAIN nodes, NEW q \in DOMAIN nodes,
             NEW m \in DOMAIN nodes[p].children, NEW n \in DOMAIN nodes[q].children,
             nodes[p].children[m] = nodes[q].children[n]
      PROVE  p = q /\ m = n
  <2>1. PICK c : c = nodes[p].children[m] /\ c = nodes[q].children[n]
    BY <1>4
  <2>2. c \in Range(nodes[p].children) /\ c \in Range(nodes[q].children)
    BY <2>1 DEF Range
  <2>3. p = q
    BY <1>1, <1>2, <2>2 DEF Linked
  <2>4. IsInjective(nodes[p].children)
    BY <1>2
  <2>5. n \in DOMAIN nodes[p].children /\ nodes[p].children[m] = nodes[p].children[n]
    BY <1>4, <2>3
  <2>6. m = n
    BY <2>4, <2>5 DEF IsInjective
  <2> QED
    BY <2>3, <2>6
<1> QED
  BY <1>3, <1>4 DEF EachNodeOnce

\* However long the tree is used without a failing storage call: no id and no node
\* leaks, and tree and storage agree on the depth.
THEOREM TreeLosesNothing == Spec => []NothingLost
<1>1. IInv /\ Structure => NothingLost
  <2> SUFFICES ASSUME IInv, Structure, pc = "idle", faults = 0
               PROVE  treeDepth = depth /\ issued = DOMAIN nodes /\ EachNodeOnce
    BY DEF NothingLost
  <2>1. todo = <<>>
    BY DEF Structure, Sound, Current
  <2>2. issued = DOMAIN nodes /\ \E h : Rests(h) /\ Balanced(nodes, h, NoRepair)
    BY <2>1, AtRest
  <2>3. PICK h : Rests(h) /\ Balanced(nodes, h, NoRepair)
    BY <2>2
  <2> QED
    BY <2>2, <2>3, OnceEach DEF Rests
<1> QED
  BY <1>1, TreeKeepsStructure, PTL

\* What checkNode of TreeChecker asks of a node and its children, but for the order
\* of the keys; the level of each node is given by a function instead of a walk.
NodeFitsLevel(i, level) ==
    /\ nodes[i].leaf <=> level[i] = depth
    /\ nodes[i].leaf => nodes[i].children = <<>>
    /\ ~nodes[i].leaf => Len(nodes[i].children) = Len(nodes[i].values) + 1
    /\ Len(nodes[i].values) < b
    /\ i # rootId => Len(nodes[i].values) >= a - 1
    /\ \A c \in Range(nodes[i].children) : c \in DOMAIN nodes /\ level[c] = level[i] + 1

HeightBalanced ==
    pc = "idle" /\ faults = 0 =>
        \E level \in [DOMAIN nodes -> Int] :
            level[rootId] = 1 /\ \A i \in DOMAIN nodes : NodeFitsLevel(i, level)

\* For every a and b that NewTree accepts: between operations all leaves are at the
\* depth the storage keeps, every node but the root has at least a - 1 and at most
\* b - 1 values, and an inner node one child more than values.
THEOREM TreeStaysBalanced == Spec => []HeightBalanced
<1>1. IInv /\ Structure => HeightBalanced
  <2> SUFFICES ASSUME IInv, Structure, pc = "idle", faults = 0
               PROVE  \E level \in [DOMAIN nodes -> Int] :
                         level[rootId] = 1 /\ \A i \in DOMAIN nodes : NodeFitsLevel(i, level)
    BY DEF HeightBalanced
  <2>1. todo = <<>>
    BY DEF Structure, Sound, Current
  <2>2. PICK h : Rests(h) /\ Balanced(nodes, h, NoRepair)
    BY <2>1, AtRest
  <2>3. PICK weak : weak = NoRepair
    OBVIOUS
  <2>4. Typed(nodes) /\ Balanced(nodes, h, weak) /\ depth = h[rootId] + 1
    BY <2>2, <2>3 DEF Rests
  <2>5. rootId \in DOMAIN nodes /\ \A i \in DOMAIN nodes : h[i] \in Nat
    BY <2>4, Heights DEF Typed
  <2> DEFINE level == [i \in DOMAIN nodes |-> depth - h[i]]
  <2>6. level \in [DOMAIN nodes -> Int] /\ level[rootId] = 1
    BY <2>4, <2>5
  <2>7. ASSUME NEW i \in DOMAIN nodes PROVE NodeFitsLevel(i, level)
    <3>1. NodeOK(nodes[i], h[i], NoRepair) /\ nodes[i] \in Node /\ nodes[i].id = i
      BY <2>2, <2>4, TypedNode DEF Balanced
    <3>2. nodes[i].leaf <=> level[i] = depth
      <4>1. nodes[i].leaf <=> h[i] = 0
        BY <2>4, LeafHeight
      <4> QED
        BY <2>4, <2>5, <4>1
    <3>3. /\ nodes[i].leaf => nodes[i].children = <<>>
          /\ ~nodes[i].leaf => Len(nodes[i].children) = Len(nodes[i].values) + 1
      BY <3>1 DEF NodeOK, Shaped
    <3>4. Len(nodes[i].values) < b
      BY Parts DEF StorageOK, FitNodes, FitNode
    <3>5. i # rootId => Len(nodes[i].values) >= a - 1
      BY <3>1 DEF NodeOK, Least, NoRepair
    <3>6. ASSUME NEW c \in Range(nodes[i].children)
          PROVE  c \in DOMAIN nodes /\ level[c] = level[i] + 1
      <4>1. c \in DOMAIN nodes /\ h[i] = h[c] + 1
        BY <2>4, ChildFacts
      <4> QED
        BY <2>4, <2>5, <4>1
    <3> HIDE DEF level
    <3> QED
      BY <3>2, <3>3, <3>4, <3>5, <3>6 DEF NodeFitsLevel
  <2> QED
    BY <2>6, <2>7
<1> QED
  BY <1>1, TreeKeepsStructure, PTL
=============================================================================
