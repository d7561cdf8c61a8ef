--------------------------- MODULE TreeOrderProofs ---------------------------
(***************************************************************************)
(* The order of the keys while no storage call has failed: what is stored, *)
(* once the queued calls are done, is a search tree.  It follows that no   *)
(* key is ever stored twice, also between two calls and after a failed one.*)
(***************************************************************************)
EXTENDS SearchTreeProofs

-----------------------------------------------------------------------------
(* What the queued calls lead to.                                          *)

\* N with the nodes of n's, and without those of the ids R.
Becomes(N, V, P, R) ==
    DOMAIN V = (DOMAIN N \cup P) \ R /\ \A i \in DOMAIN V \ P : i \in DOMAIN N /\ V[i] = N[i]

LEMMA LedBecomes ==
    ASSUME NEW N, NEW t, NEW V, Leads(N, t, V)
    PROVE  Becomes(N, V, Persists(t), Removes(t))
BY DEF Leads, Becomes

LEMMA LedNowhere ==
    ASSUME NEW N, NEW V, Leads(N, <<>>, V)
    PROVE  DOMAIN V = DOMAIN N /\ \A i \in DOMAIN N : V[i] = N[i]
<1>1. Persists(<<>>) = {} /\ Removes(<<>>) = {}
  BY DEF Persists, Removes
<1> QED
  BY <1>1 DEF Leads

LEMMA LedOne ==
    ASSUME NEW N, NEW V, NEW n, n.id \in Ids, Leads(N, <<persist(n)>>, V)
    PROVE  V[n.id] = n /\ Becomes(N, V, {n.id}, {})
<1> DEFINE t == <<persist(n)>>
<1>1. DOMAIN t = {1} /\ t[1].call = "Persist" /\ t[1].node = n
  BY CallShapes
<1> HIDE DEF t
<1>2. Persists(t) = {n.id} /\ Removes(t) = {}
  BY <1>1 DEF Persists, Removes
<1>3. Leads(N, t, V)
  BY DEF t
<1>4. V[n.id] = n
  BY <1>1, <1>3 DEF Leads
<1> QED
  BY <1>2, <1>3, <1>4, LedBecomes

LEMMA LedTwo ==
    ASSUME NEW N, NEW V, NEW n, NEW m, n.id \in Ids, m.id \in Ids,
           Leads(N, <<persist(n), persist(m)>>, V)
    PROVE  V[n.id] = n /\ V[m.id] = m /\ Becomes(N, V, {n.id, m.id}, {})
<1> DEFINE t == <<persist(n), persist(m)>>
<1>1. /\ DOMAIN t = {1, 2} /\ t[1].call = "Persist" /\ t[1].node = n
      /\ t[2].call = "Persist" /\ t[2].node = m
  BY CallShapes
<1> HIDE DEF t
<1>2. Persists(t) = {n.id, m.id} /\ Removes(t) = {}
  BY <1>1 DEF Persists, Removes
<1>3. Leads(N, t, V)
  BY DEF t
<1>4. V[n.id] = n /\ V[m.id] = m
  BY <1>1, <1>3 DEF Leads
<1> QED
  BY <1>2, <1>3, <1>4, LedBecomes

LEMMA LedThree ==
    ASSUME NEW N, NEW V, NEW n, NEW m, NEW o, n.id \in Ids, m.id \in Ids, o.id \in Ids,
           Leads(N, <<persist(n), persist(m), persist(o)>>, V)
    PROVE  V[n.id] = n /\ V[m.id] = m /\ V[o.id] = o /\ Becomes(N, V, {n.id, m.id, o.id}, {})
<1> DEFINE t == <<persist(n), persist(m), persist(o)>>
<1>1. /\ DOMAIN t = {1, 2, 3} /\ t[1].call = "Persist" /\ t[1].node = n
      /\ t[2].call = "Persist" /\ t[2].node = m /\ t[3].call = "Persist" /\ t[3].node = o
  BY CallShapes
<1> HIDE DEF t
<1>2. Persists(t) = {n.id, m.id, o.id} /\ Removes(t) = {}
  BY <1>1 DEF Persists, Removes
<1>3. Leads(N, t, V)
  BY DEF t
<1>4. V[n.id] = n /\ V[m.id] = m /\ V[o.id] = o
  BY <1>1, <1>3 DEF Leads
<1> QED
  BY <1>2, <1>3, <1>4, LedBecomes

LEMMA LedSplitRoot ==
    ASSUME NEW N, NEW V, NEW n, NEW m, NEW o, NEW d, n.id \in Ids, m.id \in Ids, o.id \in Ids,
           Leads(N, <<persist(n), persist(m), persist(o), updateDepth(d)>>, V)
    PROVE  V[n.id] = n /\ V[m.id] = m /\ V[o.id] = o /\ Becomes(N, V, {n.id, m.id, o.id}, {})
<1> DEFINE t == <<persist(n), persist(m), persist(o), updateDepth(d)>>
<1>1. /\ DOMAIN t = {1, 2, 3, 4} /\ t[1].call = "Persist" /\ t[1].node = n
      /\ t[2].call = "Persist" /\ t[2].node = m /\ t[3].call = "Persist" /\ t[3].node = o
      /\ t[4].call = "SetDepth"
  BY CallShapes
<1> HIDE DEF t
<1>2. Persists(t) = {n.id, m.id, o.id} /\ Removes(t) = {}
  BY <1>1 DEF Persists, Removes
<1>3. Leads(N, t, V)
  BY DEF t
<1>4. V[n.id] = n /\ V[m.id] = m /\ V[o.id] = o
  BY <1>1, <1>3 DEF Leads
<1> QED
  BY <1>2, <1>3, <1>4, LedBecomes

LEMMA LedMerge ==
    ASSUME NEW N, NEW V, NEW n, NEW m, NEW i, n.id \in Ids, m.id \in Ids, i \in Ids,
           Leads(N, <<persist(n), remove(i), persist(m)>>, V)
    PROVE  V[n.id] = n /\ V[m.id] = m /\ Becomes(N, V, {n.id, m.id}, {i})
<1> DEFINE t == <<persist(n), remove(i), persist(m)>>
<1>1. /\ DOMAIN t = {1, 2, 3} /\ t[1].call = "Persist" /\ t[1].node = n
      /\ t[2].call = "Remove" /\ t[2].id = i /\ t[3].call = "Persist" /\ t[3].node = m
  BY CallShapes
<1> HIDE DEF t
<1>2. Persists(t) = {n.id, m.id} /\ Removes(t) = {i}
  BY <1>1 DEF Persists, Removes
<1>3. Leads(N, t, V)
  BY DEF t
<1>4. V[n.id] = n /\ V[m.id] = m
  BY <1>1, <1>3 DEF Leads
<1> QED
  BY <1>2, <1>3, <1>4, LedBecomes

LEMMA LedCollapse ==
    ASSUME NEW N, NEW V, NEW n, NEW i, NEW j, n.id \in Ids, i \in Ids, j \in Ids, NEW d,
           Leads(N, <<remove(i), updateDepth(d), remove(j), persist(n)>>, V)
    PROVE  V[n.id] = n /\ Becomes(N, V, {n.id}, {i, j})
<1> DEFINE t == <<remove(i), updateDepth(d), remove(j), persist(n)>>
<1>1. /\ DOMAIN t = {1, 2, 3, 4} /\ t[1].call = "Remove" /\ t[1].id = i
      /\ t[2].call = "SetDepth"
      /\ t[3].call = "Remove" /\ t[3].id = j /\ t[4].call = "Persist" /\ t[4].node = n
  BY CallShapes
<1> HIDE DEF t
<1>2. Persists(t) = {n.id} /\ Removes(t) = {i, j}
  BY <1>1 DEF Persists, Removes
<1>3. Leads(N, t, V)
  BY DEF t
<1>4. V[n.id] = n
  BY <1>1, <1>3 DEF Leads
<1> QED
  BY <1>2, <1>3, <1>4, LedBecomes

CollapseQueue(t, n, i, j, d) == t = <<remove(i), updateDepth(d), remove(j), persist(n)>>
MergeQueue(t, n, i, m) == t = <<persist(n), remove(i), persist(m)>>
Collapsed(N, V, n, i, j) == V[n.id] = n /\ Becomes(N, V, {n.id}, {i, j})
Merged(N, V, n, i, m) == V[n.id] = n /\ V[m.id] = m /\ Becomes(N, V, {n.id, m.id}, {i})

LEMMA LedCollapseQueue ==
    ASSUME NEW N, NEW V, NEW n, NEW i, NEW j, n.id \in Ids, i \in Ids, j \in Ids, NEW d,
           NEW t, CollapseQueue(t, n, i, j, d), Leads(N, t, V)
    PROVE  Collapsed(N, V, n, i, j)
BY LedCollapse DEF CollapseQueue, Collapsed

LEMMA LedMergeQueue ==
    ASSUME NEW N, NEW V, NEW n, NEW m, NEW i, n.id \in Ids, m.id \in Ids, i \in Ids,
           NEW t, MergeQueue(t, n, i, m), Leads(N, t, V)
    PROVE  Merged(N, V, n, i, m)
BY LedMerge DEF MergeQueue, Merged

\* The calls lead to one set of nodes.
LEMMA LedOnce ==
    ASSUME NEW N, NEW t, NEW V, NEW U, Leads(N, t, V), Leads(N, t, U)
    PROVE  DOMAIN U = DOMAIN V /\ \A i \in DOMAIN V : U[i] = V[i]
<1>1. DOMAIN U = DOMAIN V
  BY DEF Leads
<1>2. ASSUME NEW i \in DOMAIN V PROVE U[i] = V[i]
  <2>1. CASE i \in Persists(t)
    <3>1. PICK k \in DOMAIN t : t[k].call = "Persist" /\ t[k].node.id = i
      BY <2>1 DEF Persists
    <3> QED
      BY <3>1 DEF Leads
  <2>2. CASE i \notin Persists(t)
    BY <1>1, <2>2 DEF Leads
  <2> QED
    BY <2>1, <2>2
<1> QED
  BY <1>1, <1>2

\* They lead to nodes.
LEMMA LedTyped ==
    ASSUME NEW N, FitNodes(N), NEW t, FitTodo(t), NEW V, Leads(N, t, V)
    PROVE  Typed(V)
<1>1. \A k \in DOMAIN t : FitCall(t[k]) /\ t[k] \in StorageCalls
  BY DEF FitTodo, FitCall
<1>2. /\ DOMAIN V = (DOMAIN N \cup Persists(t)) \ Removes(t)
      /\ \A i \in DOMAIN V \ Persists(t) : V[i] = N[i]
  BY DEF Leads
<1>3. DOMAIN N \subseteq Ids /\ rootId \in DOMAIN N /\ \A i \in DOMAIN N : N[i] \in Node /\ N[i].id = i
  BY DEF FitNodes, FitNode
<1>4. Persists(t) \subseteq Ids
  BY DEF Persists
<1>5. rootId \notin Removes(t)
  BY <1>1 DEF FitCall, Removes
<1>6. ASSUME NEW i \in DOMAIN V PROVE V[i] \in Node /\ V[i].id = i
  <2>1. CASE i \in Persists(t)
    <3>1. PICK k \in DOMAIN t : t[k].call = "Persist" /\ t[k].node.id = i
      BY <2>1 DEF Persists
    <3>2. V[i] = t[k].node
      BY <3>1 DEF Leads
    <3>3. FitNode(t[k].node)
      BY <1>1, <3>1, CallParts
    <3> QED
      BY <3>1, <3>2, <3>3 DEF FitNode
  <2>2. CASE i \notin Persists(t)
    BY <1>2, <1>3, <2>2
  <2> QED
    BY <2>1, <2>2
<1> QED
  BY <1>2, <1>3, <1>4, <1>5, <1>6 DEF Typed

\* Only what the nodes are matters.
LEMMA SameOrder ==
    ASSUME NEW W, NEW Lo, NEW Hi, Ordered(W, Lo, Hi),
           NEW U, DOMAIN U = DOMAIN W, \A i \in DOMAIN W : U[i] = W[i]
    PROVE  Ordered(U, Lo, Hi)
BY DEF Ordered

-----------------------------------------------------------------------------
(* No key twice between two calls.                                         *)

Common(n, m) ==
    \E i \in DOMAIN n.values : \E j \in DOMAIN m.values : n.values[i].First = m.values[j].First
Concerns(c, j) == (c.call = "Persist" /\ c.node.id = j) \/ (c.call = "Remove" /\ c.id = j)

\* A key leaves its old node in an earlier call than the one that brings it to another.
QueueOrder(N, t) ==
    \A k \in DOMAIN t : t[k].call = "Persist" =>
        \A j \in DOMAIN N \ {t[k].node.id} : Common(N[j], t[k].node) =>
            \E l \in DOMAIN t : l < k /\ Concerns(t[l], j)

\* The keys of n come from other nodes than j.
Drawn(n, N, j) ==
    \A m \in DOMAIN n.values : \E i \in DOMAIN N \ {j} : Holds(N[i], n.values[m].First)
DrawnQueue(N, t) ==
    \A k, l \in DOMAIN t : t[k].call = "Persist" /\ k < l =>
        \A j \in DOMAIN N \ {t[k].node.id} : Concerns(t[l], j) => Drawn(t[k].node, N, j)

LEMMA DrawnApart ==
    ASSUME NEW N, KeysOnce(N), NEW n, NEW j \in DOMAIN N, Drawn(n, N, j)
    PROVE  ~Common(N[j], n)
<1> SUFFICES ASSUME NEW i \in DOMAIN N[j].values, NEW m \in DOMAIN n.values,
                    N[j].values[i].First = n.values[m].First
             PROVE  FALSE
  BY DEF Common
<1>1. PICK e \in DOMAIN N \ {j} : Holds(N[e], n.values[m].First)
  BY DEF Drawn
<1>2. PICK o \in DOMAIN N[e].values : N[e].values[o].First = n.values[m].First
  BY <1>1 DEF Holds
<1> QED
  BY <1>2 DEF KeysOnce

LEMMA QueueFrom ==
    ASSUME NEW N, KeysOnce(N), DOMAIN N \subseteq Ids, NEW t, t \in Seq(StorageCalls),
           NEW V, Leads(N, t, V), KeysOnce(V), DrawnQueue(N, t)
    PROVE  QueueOrder(N, t)
<1> SUFFICES ASSUME NEW k \in DOMAIN t, t[k].call = "Persist",
                    NEW j \in DOMAIN N \ {t[k].node.id}, Common(N[j], t[k].node)
             PROVE  \E l \in DOMAIN t : l < k /\ Concerns(t[l], j)
  BY DEF QueueOrder
<1>1. k \in Nat /\ \A l \in DOMAIN t : l \in Nat
  OBVIOUS
<1>2. V[t[k].node.id] = t[k].node /\ t[k].node.id \in DOMAIN V
  BY DEF Leads
<1>3. \E l \in DOMAIN t : Concerns(t[l], j)
  <2> SUFFICES ASSUME \A l \in DOMAIN t : ~Concerns(t[l], j) PROVE FALSE
    OBVIOUS
  <2>1. j \notin Persists(t) /\ j \notin Removes(t)
    BY DEF Persists, Removes, Concerns
  <2>2. j \in DOMAIN V /\ V[j] = N[j]
    BY <2>1 DEF Leads
  <2> QED
    BY <1>2, <2>2 DEF KeysOnce, Common
<1>4. PICK l \in DOMAIN t : Concerns(t[l], j)
  BY <1>3
<1>5. ~(k < l)
  <2>1. k < l => Drawn(t[k].node, N, j)
    BY <1>4 DEF DrawnQueue
  <2> QED
    BY <2>1, DrawnApart
<1>6. l # k
  BY <1>4 DEF Concerns
<1> QED
  BY <1>1, <1>4, <1>5, <1>6

\* A call done leaves the others in order.
LEMMA QueueGoesOn ==
    ASSUME NEW N, NEW t, FitTodo(t), t # <<>>, QueueOrder(N, t), NEW V, Leads(N, t, V), KeysOnce(V),
           NEW M, \A j \in DOMAIN M : \/ j \in DOMAIN N /\ M[j] = N[j] /\ ~Concerns(Head(t), j)
                                      \/ j \in DOMAIN V /\ M[j] = V[j]
    PROVE  QueueOrder(M, Tail(t))
<1> DEFINE u == Tail(t)
<1>1. /\ 1 \in DOMAIN t /\ t[1] = Head(t)
      /\ \A k \in DOMAIN u : k + 1 \in DOMAIN t /\ u[k] = t[k + 1]
      /\ \A j \in DOMAIN t : j = 1 \/ (j - 1 \in DOMAIN u /\ t[j] = u[j - 1])
  BY QueueParts
<1>2. t \in Seq(StorageCalls) /\ \A l \in DOMAIN t : l \in Nat
  BY DEF FitTodo
<1> HIDE DEF u
<1> SUFFICES ASSUME NEW k \in DOMAIN u, u[k].call = "Persist",
                    NEW j \in DOMAIN M \ {u[k].node.id}, Common(M[j], u[k].node)
             PROVE  \E l \in DOMAIN u : l < k /\ Concerns(u[l], j)
  BY DEF QueueOrder, u
<1>3. V[u[k].node.id] = u[k].node /\ u[k].node.id \in DOMAIN V
  BY <1>1 DEF Leads
<1>4. CASE j \in DOMAIN V /\ M[j] = V[j]
  BY <1>3, <1>4 DEF KeysOnce, Common
<1>5. CASE j \in DOMAIN N /\ M[j] = N[j] /\ ~Concerns(Head(t), j)
  <2>1. PICK l \in DOMAIN t : l < k + 1 /\ Concerns(t[l], j)
    BY <1>1, <1>5 DEF QueueOrder
  <2>2. l - 1 \in DOMAIN u /\ t[l] = u[l - 1]
    BY <1>1, <1>5, <2>1
  <2>3. k \in Nat /\ l \in Nat
    <3>1. k \in Nat
      <4>1. u \in Seq(StorageCalls)
        BY <1>2 DEF u
      <4> QED
        BY <4>1
    <3> QED
      BY <1>2, <3>1
  <2>4. l - 1 < k
    BY <2>1, <2>3
  <2> QED
    BY <2>1, <2>2, <2>4
<1> QED
  BY <1>4, <1>5

-----------------------------------------------------------------------------
(* The invariant.                                                          *)

\* The key that is looked for, and the place of the one that is to be replaced, are
\* below cur.
Routed(Lo, Hi) ==
    /\ pc \in {"get", "insert", "delete"} => req.key \in Int /\ Within(req.key, cur.id, Lo, Hi)
    /\ pc = "pop" => Hi[cur.id] = Key(target.values[hole + 1])

\* The node that Insert is about to write holds one value more than what is there.
OneMore(n, m) == \E e \in Tuple : \E q \in 0 .. Len(m.values) : Inserts(n.values, m.values, e, q)
GrownBy(V) == pc = "grow" => OneMore(cur, V[cur.id])
Tidy(V) == GrownBy(V) /\ \E Lo, Hi : Ordered(Grown(V), Lo, Hi) /\ Routed(Lo, Hi)

Order ==
    /\ IsFiniteSet(issued)
    /\ KeysOnce(nodes)
    /\ faults = 0 /\ pc # "panic" =>
          /\ QueueOrder(nodes, todo)
          /\ \A V : Leads(nodes, todo, V) => Tidy(V)

LEMMA OrderOnce ==
    ASSUME NEW W, Typed(W), NEW h, NEW weak, Balanced(W, h, weak), NEW ids, IsFiniteSet(ids),
           DOMAIN W \subseteq ids, NEW Lo, NEW Hi, Ordered(W, Lo, Hi)
    PROVE  Tree(W, h) /\ KeysOnce(W)
<1>1. IsFiniteSet(DOMAIN W)
  BY FS_Subset
<1>2. Tree(W, h)
  BY <1>1 DEF Tree
<1> QED
  BY <1>2, TreeKeysOnce

\* No key twice in a tree, and none in what Insert has yet to add to.
LEMMA ThinnerOnce ==
    ASSUME NEW W, KeysOnce(W), NEW V, Typed(V), NEW x \in DOMAIN V, Rewrites(V, W, {x}),
           OneMore(W[x], V[x])
    PROVE  KeysOnce(V)
<1>1. PICK e \in Tuple, q \in 0 .. Len(V[x].values) : Inserts(W[x].values, V[x].values, e, q)
  BY DEF OneMore
<1>2. V[x].values \in Seq(Tuple) /\ Len(V[x].values) \in Nat
  BY TypedNode
<1> DEFINE f == [m \in 1 .. Len(V[x].values) |-> IF m <= q THEN m ELSE m + 1]
           w == W[x].values
           v == V[x].values
<1>3. ASSUME NEW m \in DOMAIN v PROVE f[m] \in 1 .. Len(w) /\ w[f[m]] = v[m]
  <2>1. m \in 1 .. Len(v) /\ Len(w) = Len(v) + 1
    BY <1>1, <1>2 DEF Inserts
  <2>2. f[m] \in 1 .. Len(w)
    BY <1>2, <2>1
  <2>3. w[f[m]] = IF f[m] <= q THEN v[f[m]] ELSE IF f[m] = q + 1 THEN e ELSE v[f[m] - 1]
    BY <1>1, <2>2 DEF Inserts
  <2>4. CASE m <= q
    <3>1. f[m] = m
      BY <2>1, <2>4
    <3> QED
      BY <2>2, <2>3, <2>4, <3>1
  <2>5. CASE ~(m <= q)
    <3>1. f[m] = m + 1
      BY <2>1, <2>5
    <3>2. ~(m + 1 <= q) /\ m + 1 # q + 1 /\ m + 1 - 1 = m
      BY <1>2, <2>1, <2>5
    <3> QED
      BY <2>2, <2>3, <3>1, <3>2
  <2> QED
    BY <2>4, <2>5
<1>4. \A m, n \in DOMAIN v : f[m] = f[n] => m = n
  BY <1>2
<1>5. DOMAIN W = DOMAIN V /\ \A j \in DOMAIN V \ {x} : W[j] = V[j]
  BY DEF Rewrites
<1>6. ASSUME NEW i \in DOMAIN V, NEW m \in DOMAIN V[i].values
      PROVE  \E k \in DOMAIN W[i].values :
                W[i].values[k] = V[i].values[m] /\ (IF i = x THEN k = f[m] ELSE k = m)
  <2>1. CASE i = x
    <3>1. W[x] \in {W[x]} /\ DOMAIN w = 1 .. Len(w)
      BY <1>1, <1>2 DEF Inserts
    <3> QED
      BY <1>3, <2>1, <3>1
  <2>2. CASE i # x
    BY <1>5, <2>2
  <2> QED
    BY <2>1, <2>2
<1> HIDE DEF f, v, w
<1>7. ASSUME NEW i \in DOMAIN V, NEW j \in DOMAIN V,
             NEW m \in DOMAIN V[i].values, NEW n \in DOMAIN V[j].values,
             V[i].values[m].First = V[j].values[n].First
      PROVE  i = j /\ m = n
  <2>1. PICK k \in DOMAIN W[i].values :
                W[i].values[k] = V[i].values[m] /\ (IF i = x THEN k = f[m] ELSE k = m)
    BY <1>6
  <2>2. PICK l \in DOMAIN W[j].values :
                W[j].values[l] = V[j].values[n] /\ (IF j = x THEN l = f[n] ELSE l = n)
    BY <1>6
  <2>3. i = j /\ k = l
    BY <1>5, <1>7, <2>1, <2>2 DEF KeysOnce
  <2> QED
    BY <1>4, <2>1, <2>2, <2>3 DEF v
<1> QED
  BY <1>7 DEF KeysOnce

\* The nodes an operation wants hold no key twice.
LEMMA WantedOnce ==
    ASSUME IInv, Structure, Order, faults = 0, pc # "panic", NEW V, Leads(nodes, todo, V)
    PROVE  KeysOnce(V)
<1>1. Typed(V)
  <2>1. FitNodes(nodes) /\ FitTodo(todo)
    BY Parts DEF StorageOK
  <2> QED
    BY <2>1, LedTyped
<1>2. PICK U, h : Sound(U, h)
  BY DEF Structure
<1>3. Leads(nodes, todo, U) /\ Ledger(U, todo, issued, fresh) /\ Current(U)
      /\ Balanced(Grown(U), h, Weak)
  BY <1>2 DEF Sound
<1>4. DOMAIN U = DOMAIN V /\ \A i \in DOMAIN V : U[i] = V[i]
  BY <1>3, LedOnce
<1>5. DOMAIN V \subseteq issued /\ IsFiniteSet(issued)
  BY <1>3, <1>4 DEF Ledger, Order
<1>6. PICK Lo, Hi : Ordered(Grown(V), Lo, Hi)
  BY DEF Order, Tidy
<1>7. CASE pc # "grow"
  <2>1. Grown(V) = V /\ Grown(U) = U
    BY <1>7 DEF Grown
  <2>2. Balanced(V, h, Weak)
    BY <1>3, <1>4, <2>1, SameBalance
  <2> HIDE DEF Grown
  <2>3. Ordered(V, Lo, Hi)
    BY <1>6, <2>1
  <2> QED
    BY <1>1, <1>5, <2>2, <2>3, OrderOnce
<1>8. CASE pc = "grow"
  <2> DEFINE W == [V EXCEPT ![cur.id] = cur]
             W2 == [U EXCEPT ![cur.id] = cur]
  <2>1. Grown(V) = W /\ Grown(U) = W2
    BY <1>8 DEF Grown
  <2>2. cur.id \in DOMAIN V /\ cur \in Node
    <3>1. cur.id \in DOMAIN U
      BY <1>3, <1>8 DEF Current
    <3> QED
      BY <1>4, <3>1, Parts DEF LocalsOK
  <2>3. DOMAIN W = DOMAIN V /\ W[cur.id] = cur /\ \A j \in DOMAIN V \ {cur.id} : W[j] = V[j]
    BY <2>2
  <2>4. DOMAIN W2 = DOMAIN W /\ \A j \in DOMAIN W2 : W[j] = W2[j]
    BY <1>4, <2>2
  <2>5. Ordered(W, Lo, Hi) /\ Balanced(W2, h, Weak)
    BY <1>3, <1>6, <2>1
  <2> HIDE DEF W, W2
  <2>6. Balanced(W, h, Weak)
    BY <2>4, <2>5, SameBalance
  <2>7. Typed(W)
    BY <1>1, <2>2, <2>3 DEF Typed
  <2>8. KeysOnce(W)
    BY <1>5, <2>3, <2>5, <2>6, <2>7, OrderOnce
  <2>9. OneMore(W[cur.id], V[cur.id])
    BY <1>8, <2>3 DEF Order, Tidy, GrownBy
  <2>10. Rewrites(V, W, {cur.id})
    BY <2>3 DEF Rewrites
  <2> QED
    BY <1>1, <2>2, <2>8, <2>9, <2>10, ThinnerOnce
<1> QED
  BY <1>7, <1>8

\* Nothing is queued.
LEMMA NoQueue == \A N : QueueOrder(N, <<>>) /\ DrawnQueue(N, <<>>)
BY DEF QueueOrder, DrawnQueue

\* A step that queues nothing.
LEMMA ToStill ==
    ASSUME Order, nodes' = nodes, issued' = issued, todo' = <<>>, pc' # "grow",
           NEW Lo, NEW Hi, Ordered(nodes, Lo, Hi), Routed(Lo, Hi)'
    PROVE  Order'
<1>1. KeysOnce(nodes') /\ IsFiniteSet(issued') /\ QueueOrder(nodes', todo')
  BY NoQueue DEF Order
<1>2. ASSUME NEW V, Leads(nodes', todo', V) PROVE Tidy(V)'
  <2>1. DOMAIN V = DOMAIN nodes /\ \A i \in DOMAIN nodes : V[i] = nodes[i]
    BY <1>2, LedNowhere
  <2>2. Ordered(V, Lo, Hi)
    BY <2>1, SameOrder
  <2>3. Grown(V)' = V
    BY DEF Grown
  <2> QED
    BY <2>2, <2>3 DEF Tidy, GrownBy
<1> QED
  BY <1>1, <1>2 DEF Order

\* A step of the operation's own code that queues calls.
LeadsInOrder(t) == \A V : Leads(nodes, t, V) /\ Typed(V) => \E Lo, Hi : Ordered(V, Lo, Hi)

LEMMA ToQueued ==
    ASSUME IInv, IInv', Structure', Order, faults' = 0, nodes' = nodes, issued' = issued,
           pc' \in {"done", "balance", "fix"}, NEW t, todo' = t, DrawnQueue(nodes, t), LeadsInOrder(t)
    PROVE  Order'
<1>1. FitNodes(nodes) /\ FitTodo(t)
  BY Parts, PartsNext DEF StorageOK
<1>2. PICK U, h : Sound(U, h)'
  BY DEF Structure
<1>3. Leads(nodes, t, U) /\ Ledger(U, t, issued, fresh') /\ Balanced(Grown(U)', h, Weak')
  BY <1>2 DEF Sound
<1>4. Grown(U)' = U
  BY DEF Grown
<1>5. Typed(U)
  BY <1>1, <1>3, LedTyped
<1>6. KeysOnce(nodes) /\ IsFiniteSet(issued)
  BY DEF Order
<1>7. KeysOnce(U)
  <2>1. PICK Lo, Hi : Ordered(U, Lo, Hi)
    BY <1>3, <1>5 DEF LeadsInOrder
  <2>2. DOMAIN U \subseteq issued /\ Balanced(U, h, Weak')
    BY <1>3, <1>4 DEF Ledger
  <2> QED
    BY <1>5, <1>6, <2>1, <2>2, OrderOnce
<1>8. QueueOrder(nodes, t)
  <2>1. t \in Seq(StorageCalls) /\ DOMAIN nodes \subseteq Ids
    BY <1>1 DEF FitTodo, FitNodes
  <2> QED
    BY <1>3, <1>6, <1>7, <2>1, QueueFrom
<1>9. ASSUME NEW V, Leads(nodes', todo', V) PROVE Tidy(V)'
  <2>1. Typed(V) /\ Leads(nodes, t, V)
    BY <1>1, <1>9, LedTyped
  <2>2. PICK Lo, Hi : Ordered(V, Lo, Hi)
    BY <2>1 DEF LeadsInOrder
  <2>3. Grown(V)' = V
    BY DEF Grown
  <2> QED
    BY <2>2, <2>3 DEF Tidy, GrownBy, Routed
<1> QED
  BY <1>6, <1>8, <1>9 DEF Order

\* A step of Insert that goes on with a node that is still to be written.
GrowsFrom(t, n) ==
    \A V : Leads(nodes, t, V) /\ Typed(V) =>
        /\ OneMore(n, V[n.id])
        /\ \E Lo, Hi : Ordered([V EXCEPT ![n.id] = n], Lo, Hi)

LEMMA ToGrown ==
    ASSUME IInv, IInv', Structure', Order, faults' = 0, nodes' = nodes, issued' = issued,
           pc' = "grow", NEW t, todo' = t, DrawnQueue(nodes, t), NEW n, cur' = n, GrowsFrom(t, n)
    PROVE  Order'
<1>1. FitNodes(nodes) /\ FitTodo(t) /\ n \in Node
  BY Parts, PartsNext DEF StorageOK, LocalsOK
<1>2. PICK U, h : Sound(U, h)'
  BY DEF Structure
<1>3. /\ Leads(nodes, t, U) /\ Ledger(U, t, issued, fresh') /\ Balanced(Grown(U)', h, Weak')
      /\ Current(U)'
  BY <1>2 DEF Sound
<1>4. \A V : Grown(V)' = [V EXCEPT ![n.id] = n]
  BY DEF Grown
<1>5. Typed(U)
  BY <1>1, <1>3, LedTyped
<1>6. KeysOnce(nodes) /\ IsFiniteSet(issued)
  BY DEF Order
<1>7. KeysOnce(U)
  <2> DEFINE W == [U EXCEPT ![n.id] = n]
  <2>1. PICK Lo, Hi : Ordered(W, Lo, Hi)
    BY <1>3, <1>5 DEF GrowsFrom
  <2>2. n.id \in DOMAIN U
    BY <1>3 DEF Current
  <2>3. DOMAIN W = DOMAIN U /\ W[n.id] = n /\ \A j \in DOMAIN U \ {n.id} : W[j] = U[j]
    BY <2>2
  <2>4. Balanced(W, h, Weak')
    BY <1>3, <1>4
  <2>5. DOMAIN U \subseteq issued
    BY <1>3 DEF Ledger
  <2>6. OneMore(n, U[n.id])
    BY <1>3, <1>5 DEF GrowsFrom
  <2> HIDE DEF W
  <2>7. Typed(W)
    BY <1>1, <1>5, <2>3 DEF Typed
  <2>8. KeysOnce(W)
    BY <1>6, <2>1, <2>3, <2>4, <2>5, <2>7, OrderOnce
  <2>9. Rewrites(U, W, {n.id}) /\ OneMore(W[n.id], U[n.id])
    BY <2>3, <2>6 DEF Rewrites
  <2> QED
    BY <1>5, <2>2, <2>8, <2>9, ThinnerOnce
<1>8. QueueOrder(nodes, t)
  <2>1. t \in Seq(StorageCalls) /\ DOMAIN nodes \subseteq Ids
    BY <1>1 DEF FitTodo, FitNodes
  <2> QED
    BY <1>3, <1>6, <1>7, <2>1, QueueFrom
<1>9. ASSUME NEW V, Leads(nodes', todo', V) PROVE Tidy(V)'
  <2>1. Typed(V) /\ Leads(nodes, t, V)
    BY <1>1, <1>9, LedTyped
  <2>2. OneMore(n, V[n.id]) /\ \E Lo, Hi : Ordered([V EXCEPT ![n.id] = n], Lo, Hi)
    BY <2>1 DEF GrowsFrom
  <2>3. \A Lo, Hi : Routed(Lo, Hi)'
    BY DEF Routed
  <2> QED
    BY <1>4, <2>2, <2>3 DEF Tidy, GrownBy
<1> QED
  BY <1>6, <1>8, <1>9 DEF Order

\* What is stored once the queued calls are done, and what Insert is about to write.
Amounts(C) == \A V : Leads(nodes, todo, V) => Tuples(Grown(V)) = C
\* A step after which those are the tuples of S.
Leaves(S) == \A C : C = S => Amounts(C)'
LeadsTo(t, C) == \A V : Leads(nodes, t, V) /\ Typed(V) => Tuples(V) = C
GrowsTo(t, n, C) == \A V : Leads(nodes, t, V) /\ Typed(V) => Tuples([V EXCEPT ![n.id] = n]) = C

LEMMA ToAmounts ==
    ASSUME IInv, IInv', nodes' = nodes, pc' # "grow", NEW t, todo' = t, NEW C, LeadsTo(t, C)
    PROVE  Amounts(C)'
<1>1. FitNodes(nodes) /\ FitTodo(t)
  BY Parts, PartsNext DEF StorageOK
<1>2. ASSUME NEW V, Leads(nodes', todo', V) PROVE Tuples(Grown(V)') = C
  <2>1. Typed(V) /\ Leads(nodes, t, V)
    BY <1>1, <1>2, LedTyped
  <2>2. Grown(V)' = V
    BY DEF Grown
  <2> QED
    BY <2>1, <2>2 DEF LeadsTo
<1> QED
  BY <1>2 DEF Amounts

LEMMA ToAmountsGrown ==
    ASSUME IInv, IInv', nodes' = nodes, pc' = "grow", NEW t, todo' = t, NEW n, cur' = n,
           NEW C, GrowsTo(t, n, C)
    PROVE  Amounts(C)'
<1>1. FitNodes(nodes) /\ FitTodo(t)
  BY Parts, PartsNext DEF StorageOK
<1>2. ASSUME NEW V, Leads(nodes', todo', V) PROVE Tuples(Grown(V)') = C
  <2>1. Typed(V) /\ Leads(nodes, t, V)
    BY <1>1, <1>2, LedTyped
  <2>2. Grown(V)' = [V EXCEPT ![n.id] = n]
    BY DEF Grown
  <2> QED
    BY <2>1, <2>2 DEF GrowsTo
<1> QED
  BY <1>2 DEF Amounts

\* A step that queues nothing and grows nothing.
LEMMA ToAmountsStill ==
    ASSUME nodes' = nodes, todo' = <<>>, pc' # "grow"
    PROVE  Leaves(Tuples(nodes))
<1> SUFFICES ASSUME NEW C, C = Tuples(nodes) PROVE Amounts(C)'
  BY DEF Leaves
<1>1. ASSUME NEW V, Leads(nodes', todo', V) PROVE Tuples(Grown(V)') = C
  <2>1. DOMAIN V = DOMAIN nodes /\ \A i \in DOMAIN nodes : V[i] = nodes[i]
    BY <1>1, LedNowhere
  <2>2. Tuples(V) = Tuples(nodes)
    BY <2>1 DEF Tuples
  <2>3. Grown(V)' = V
    BY DEF Grown
  <2> QED
    BY <2>2, <2>3
<1> QED
  BY <1>1 DEF Amounts

\* Nothing is queued: what is stored is what is there.
LEMMA AtAmounts ==
    ASSUME NEW C, Amounts(C), todo = <<>>
    PROVE  Tuples(Grown(nodes)) = C
BY LeadsNowhere DEF Amounts

\* The nodes and their order at a step of the operation's own code.
LEMMA AtOrder ==
    ASSUME Order, faults = 0, pc # "panic", todo = <<>>
    PROVE  /\ KeysOnce(nodes) /\ IsFiniteSet(issued)
           /\ pc = "grow" => OneMore(cur, nodes[cur.id])
           /\ \E Lo, Hi : Ordered(Grown(nodes), Lo, Hi) /\ Routed(Lo, Hi)
<1>1. Leads(nodes, todo, nodes)
  BY LeadsNowhere
<1>2. Tidy(nodes)
  BY <1>1 DEF Order
<1> QED
  BY <1>2 DEF Order, Tidy, GrownBy

-----------------------------------------------------------------------------
(* The beginning, the calls and returns, and the descents.                 *)

LEMMA OrderInit == Init => Order
<1> SUFFICES ASSUME Init PROVE Order
  OBVIOUS
<1>1. /\ issued = {rootId} /\ DOMAIN nodes = {rootId} /\ nodes[rootId].values = <<>>
      /\ nodes[rootId].children = <<>> /\ todo = <<>> /\ pc = "idle"
  BY DEF Init, StorageInit, Idle, createNewNode
<1>2. IsFiniteSet(issued)
  BY <1>1, FS_Singleton
<1>3. KeysOnce(nodes)
  BY <1>1 DEF KeysOnce
<1>4. QueueOrder(nodes, todo)
  BY <1>1, NoQueue
<1>5. ASSUME NEW V, Leads(nodes, todo, V) PROVE Tidy(V)
  <2> DEFINE none == [i \in {rootId} |-> {}]
  <2>1. DOMAIN V = {rootId} /\ V[rootId] = nodes[rootId]
    BY <1>1, <1>5, LedNowhere
  <2>2. nodes[rootId].id = rootId
    BY DEF Init, StorageInit, createNewNode
  <2>3. Len(nodes[rootId].values) = 0 /\ DOMAIN nodes[rootId].children = {}
    BY <1>1
  <2>4. InOrder(nodes[rootId].values, {}, {})
    BY <2>3 DEF InOrder, Rising, Fences
  <2>5. NodeInOrder(V[rootId], none, none)
    BY <2>1, <2>2, <2>3, <2>4 DEF NodeInOrder, Hung
  <2>6. Ordered(V, none, none)
    BY <2>1, <2>5 DEF Ordered
  <2>7. Grown(V) = V /\ Routed(none, none) /\ GrownBy(V)
    BY <1>1 DEF Grown, Routed, GrownBy
  <2> QED
    BY <2>6, <2>7 DEF Tidy
<1> QED
  BY <1>2, <1>3, <1>4, <1>5 DEF Order

LEMMA CallOrder ==
    ASSUME IInv, Structure, Order, faults = 0, NEW r \in Request, NEW l \in {"get", "insert", "delete"},
           Call(r, l)
    PROVE  Order'
<1>1. /\ pc = "idle" /\ req' = r /\ cur' = nodes[rootId] /\ pc' = l /\ todo' = todo
      /\ nodes' = nodes /\ issued' = issued
  BY DEF Call, Goto
<1>2. todo = <<>>
  <2>1. PICK V, h : Sound(V, h)
    BY <1>1 DEF Structure
  <2> QED
    BY <1>1, <2>1 DEF Sound, Current
<1>3. PICK Lo, Hi : Ordered(Grown(nodes), Lo, Hi)
  BY <1>1, <1>2, AtOrder
<1>4. Ordered(nodes, Lo, Hi)
  BY <1>1, <1>3 DEF Grown
<1>5. cur'.id = rootId
  <2>1. rootId \in DOMAIN nodes /\ nodes[rootId].id = rootId
    BY Parts DEF StorageOK, FitNodes
  <2> QED
    BY <1>1, <2>1
<1>6. Routed(Lo, Hi)'
  <2>1. Lo[rootId] = {} /\ Hi[rootId] = {}
    BY <1>4 DEF Ordered
  <2>2. r.key \in Int
    BY KeysAssumption DEF Request
  <2> QED
    BY <1>1, <1>5, <2>1, <2>2 DEF Routed, Within, Between
<1> QED
  BY <1>1, <1>2, <1>4, <1>6, ToStill

\* A step that ends the operation, or its loading of a node, and queues nothing.
LEMMA RestOrder ==
    ASSUME Order, faults = 0, pc # "panic", todo = <<>>, pc # "grow", nodes' = nodes, issued' = issued,
           todo' = <<>>, pc' \in {"idle", "done", "fix", "balance"}
    PROVE  Order'
<1>1. PICK Lo, Hi : Ordered(Grown(nodes), Lo, Hi)
  BY AtOrder
<1>2. Ordered(nodes, Lo, Hi)
  BY <1>1 DEF Grown
<1>3. Routed(Lo, Hi)'
  BY DEF Routed
<1> QED
  BY <1>2, <1>3, ToStill

\* The tree an operation descends.
LEMMA AtKey ==
    ASSUME IInv, Structure, Order, faults = 0, todo = <<>>,
           pc \in {"get", "insert", "delete", "pop"}
    PROVE  /\ fresh = <<>> /\ issued = DOMAIN nodes /\ cur.id \in DOMAIN nodes
           /\ cur = nodes[cur.id]
           /\ \E h, Lo, Hi : /\ Rests(h) /\ Balanced(nodes, h, NoRepair) /\ Tree(nodes, h)
                             /\ Ordered(nodes, Lo, Hi) /\ Routed(Lo, Hi)
<1>1. /\ fresh = <<>> /\ issued = DOMAIN nodes /\ cur.id \in DOMAIN nodes /\ cur = nodes[cur.id]
      /\ \E h : Rests(h) /\ Balanced(nodes, h, NoRepair)
  BY AtRest, AtDescent
<1>2. PICK h : Rests(h) /\ Balanced(nodes, h, NoRepair)
  BY <1>1
<1>3. IsFiniteSet(DOMAIN nodes) /\ \E Lo, Hi : Ordered(Grown(nodes), Lo, Hi) /\ Routed(Lo, Hi)
  BY <1>1, AtOrder
<1>4. Grown(nodes) = nodes
  BY DEF Grown
<1>5. Tree(nodes, h)
  BY <1>2, <1>3 DEF Tree, Rests
<1> QED
  BY <1>1, <1>2, <1>3, <1>4, <1>5

\* A child and its bounds.
LEMMA BelowAt ==
    ASSUME NEW W, Typed(W), NEW Lo, NEW Hi, Ordered(W, Lo, Hi), NEW v \in DOMAIN W,
           NEW p \in Nat, NEW c \in Child(W[v], p)
    PROVE  /\ Lo[c] = Row(W[v], Lo, Hi)[p] /\ Hi[c] = Row(W[v], Lo, Hi)[p + 1]
           /\ p + 1 \in DOMAIN W[v].children
<1>1. p + 1 \in DOMAIN W[v].children /\ c = W[v].children[p + 1]
  BY DEF Child
<1> QED
  BY <1>1, ChildBounds

LEMMA DownOrder ==
    ASSUME IInv, Structure, Order, faults = 0, todo = <<>>, pc \in {"get", "insert", "delete"},
           NEW p \in find(cur.values, req.key), ~Found(cur.values, req.key, p),
           NEW c \in Child(cur, p), c \in DOMAIN nodes, cur' = nodes[c],
           pc' = pc, req' = req, nodes' = nodes, issued' = issued, todo' = <<>>
    PROVE  Order'
<1>1. cur.id \in DOMAIN nodes /\ cur = nodes[cur.id]
      /\ \E h, Lo, Hi : Rests(h) /\ Ordered(nodes, Lo, Hi) /\ Routed(Lo, Hi)
  BY AtKey
<1>2. PICK h, Lo, Hi : Rests(h) /\ Ordered(nodes, Lo, Hi) /\ Routed(Lo, Hi)
  BY <1>1
<1>3. Typed(nodes)
  BY <1>2 DEF Rests
<1>4. PICK v \in DOMAIN nodes : v = cur.id /\ cur = nodes[v]
  BY <1>1
<1>5. nodes[v].values \in Seq(Tuple)
  BY <1>3, TypedNode
<1>6. req.key \in Int /\ Between(req.key, Lo[v], Hi[v])
  BY <1>2, <1>4 DEF Routed, Within
<1>7. p \in 0 .. Len(nodes[v].values)
      /\ Between(req.key, Row(nodes[v], Lo, Hi)[p], Row(nodes[v], Lo, Hi)[p + 1])
  <2>1. p \in find(nodes[v].values, req.key) /\ ~Found(nodes[v].values, req.key, p)
    BY <1>4
  <2>2. nodes[v].id = v
    BY <1>3 DEF Typed
  <2> QED
    BY <1>5, <1>6, <2>1, <2>2, FindBetween DEF Row
<1>8. Lo[c] = Row(nodes[v], Lo, Hi)[p] /\ Hi[c] = Row(nodes[v], Lo, Hi)[p + 1]
  <2>1. p \in Nat /\ c \in Child(nodes[v], p)
    BY <1>4 DEF find
  <2> QED
    BY <1>2, <1>3, <2>1, BelowAt
<1>9. cur'.id = c
  BY <1>3 DEF Typed
<1>10. Routed(Lo, Hi)'
  BY <1>6, <1>7, <1>8, <1>9 DEF Routed, Within
<1>11. pc' # "grow"
  OBVIOUS
<1> QED
  BY <1>2, <1>10, <1>11, ToStill

LEMMA GetOrder == ASSUME IInv, Structure, Order, faults = 0, Get PROVE Order'
<1>1. /\ pc = "get" /\ todo = <<>> /\ todo' = <<>> /\ Compute
      /\ pc' = "done" \/ GetDescend
  BY DEF Get, GetFound, GetNotFound, GetDescend, At, Finish, locals
<1>2. nodes' = nodes /\ issued' = issued /\ req' = req
  BY <1>1 DEF Compute
<1>3. CASE pc' = "done"
  BY <1>1, <1>2, <1>3, RestOrder
<1>4. CASE GetDescend
  <2>1. PICK p \in find(cur.values, req.key) :
           /\ ~Found(cur.values, req.key, p)
           /\ \E c \in Child(cur, p) : Stores(c) /\ cur' = Loaded(c)
    BY <1>4 DEF GetDescend
  <2>2. PICK c \in Child(cur, p) : c \in DOMAIN nodes /\ cur' = nodes[c]
    BY <2>1 DEF Loaded, Stores
  <2>3. pc' = pc
    BY <1>1, <1>4 DEF GetDescend, Goto
  <2> QED
    BY <1>1, <1>2, <2>1, <2>2, <2>3, DownOrder
<1> QED
  BY <1>1, <1>3, <1>4

LEMMA InsertDescendOrder == ASSUME IInv, Structure, Order, faults = 0, InsertDescend PROVE Order'
<1>1. pc = "insert" /\ todo = <<>> /\ todo' = <<>> /\ Compute /\ pc' = pc
  BY DEF InsertDescend, At, Goto
<1>2. nodes' = nodes /\ issued' = issued /\ req' = req
  BY <1>1 DEF Compute
<1>3. PICK p \in find(cur.values, req.key) :
         /\ ~Found(cur.values, req.key, p)
         /\ \E c \in Child(cur, p) : Stores(c) /\ cur' = nodes[c]
  BY DEF InsertDescend
<1>4. PICK c \in Child(cur, p) : c \in DOMAIN nodes /\ cur' = nodes[c]
  BY <1>3 DEF Stores
<1> QED
  BY <1>1, <1>2, <1>3, <1>4, DownOrder

LEMMA DeleteDescendOrder == ASSUME IInv, Structure, Order, faults = 0, DeleteDescend PROVE Order'
<1>1. pc = "delete" /\ todo = <<>> /\ todo' = <<>> /\ Compute /\ pc' = pc
  BY DEF DeleteDescend, At, Goto
<1>2. nodes' = nodes /\ issued' = issued /\ req' = req
  BY <1>1 DEF Compute
<1>3. PICK p \in find(cur.values, req.key) :
         /\ ~Found(cur.values, req.key, p)
         /\ \E c \in Child(cur, p) : Stores(c) /\ cur' = nodes[c]
  BY DEF DeleteDescend
<1>4. PICK c \in Child(cur, p) : c \in DOMAIN nodes /\ cur' = nodes[c]
  BY <1>3 DEF Stores
<1> QED
  BY <1>1, <1>2, <1>3, <1>4, DownOrder

\* The predecessor of a key is the last one under the child before it.
LEMMA DeleteInnerOrder == ASSUME IInv, Structure, Order, faults = 0, DeleteInner PROVE Order'
<1>1. pc = "delete" /\ todo = <<>> /\ todo' = <<>> /\ Compute /\ pc' = "pop" /\ target' = cur
  BY DEF DeleteInner, At, Goto
<1>2. nodes' = nodes /\ issued' = issued /\ req' = req
  BY <1>1 DEF Compute
<1>3. PICK p \in find(cur.values, req.key) :
         /\ Found(cur.values, req.key, p)
         /\ \E c \in Child(cur, p) : Stores(c) /\ cur' = nodes[c]
         /\ hole' = p
  BY DEF DeleteInner
<1>4. PICK c \in Child(cur, p) : c \in DOMAIN nodes /\ cur' = nodes[c]
  BY <1>3 DEF Stores
<1>5. cur.id \in DOMAIN nodes /\ cur = nodes[cur.id]
      /\ \E h, Lo, Hi : Rests(h) /\ Ordered(nodes, Lo, Hi) /\ Routed(Lo, Hi)
  BY <1>1, AtKey
<1>6. PICK h, Lo, Hi : Rests(h) /\ Ordered(nodes, Lo, Hi)
  BY <1>5
<1>7. Typed(nodes)
  BY <1>6 DEF Rests
<1>8. PICK v \in DOMAIN nodes : v = cur.id /\ cur = nodes[v]
  BY <1>5
<1>9. nodes[v].values \in Seq(Tuple) /\ Len(nodes[v].values) \in Nat
  BY <1>7, TypedNode
<1>10. p \in Nat /\ p < Len(nodes[v].values) /\ c \in Child(nodes[v], p)
  BY <1>3, <1>8 DEF find, Found
<1>11. Hi[c] = Row(nodes[v], Lo, Hi)[p + 1]
  BY <1>6, <1>7, <1>10, BelowAt
<1>12. Row(nodes[v], Lo, Hi)[p + 1] = Key(nodes[v].values[p + 1])
  <2>1. p + 1 \in 1 .. Len(nodes[v].values)
    BY <1>9, <1>10
  <2>2. \A m \in 1 .. Len(nodes[v].values) : Row(nodes[v], Lo, Hi)[m] = {nodes[v].values[m].First}
    BY <1>9, FencesAt DEF Row
  <2> QED
    BY <2>1, <2>2 DEF Key
<1>13. cur'.id = c
  BY <1>4, <1>7 DEF Typed
<1>14. Routed(Lo, Hi)'
  BY <1>1, <1>3, <1>8, <1>11, <1>12, <1>13 DEF Routed
<1>15. pc' # "grow"
  BY <1>1
<1> QED
  BY <1>1, <1>2, <1>6, <1>14, <1>15, ToStill

LEMMA PopDescendOrder == ASSUME IInv, Structure, Order, faults = 0, PopDescend PROVE Order'
<1>1. /\ pc = "pop" /\ todo = <<>> /\ todo' = <<>> /\ Compute /\ pc' = "pop" /\ target' = target
      /\ hole' = hole /\ ~cur.leaf
  BY DEF PopDescend, At, Goto
<1>2. nodes' = nodes /\ issued' = issued
  BY <1>1 DEF Compute
<1>3. PICK c \in Child(cur, Len(cur.children) - 1) : c \in DOMAIN nodes /\ cur' = nodes[c]
  BY DEF PopDescend, Stores
<1>4. cur.id \in DOMAIN nodes /\ cur = nodes[cur.id]
      /\ \E h, Lo, Hi : Rests(h) /\ Balanced(nodes, h, NoRepair) /\ Ordered(nodes, Lo, Hi)
                        /\ Routed(Lo, Hi)
  BY <1>1, AtKey
<1>5. PICK h, Lo, Hi : Rests(h) /\ Balanced(nodes, h, NoRepair) /\ Ordered(nodes, Lo, Hi)
                       /\ Routed(Lo, Hi)
  BY <1>4
<1>6. Typed(nodes)
  BY <1>5 DEF Rests
<1>7. PICK v \in DOMAIN nodes : v = cur.id /\ cur = nodes[v]
  BY <1>4
<1>8. nodes[v].values \in Seq(Tuple) /\ Len(nodes[v].values) \in Nat /\ nodes[v].id = v
  BY <1>6, TypedNode
<1>9. Len(nodes[v].children) - 1 = Len(nodes[v].values)
  BY <1>1, <1>5, <1>7, <1>8 DEF Balanced, NodeOK, Shaped
<1>10. Hi[c] = Row(nodes[v], Lo, Hi)[Len(nodes[v].values) + 1]
  <2>1. c \in Child(nodes[v], Len(nodes[v].values))
    BY <1>3, <1>7, <1>9
  <2> QED
    BY <1>5, <1>6, <1>8, <2>1, BelowAt
<1>11. Hi[c] = Hi[v]
  BY <1>8, <1>10, FencesAt DEF Row
<1>12. cur'.id = c
  BY <1>3, <1>6 DEF Typed
<1>13. Routed(Lo, Hi)'
  BY <1>1, <1>5, <1>7, <1>11, <1>12 DEF Routed
<1>14. pc' # "grow"
  BY <1>1
<1> QED
  BY <1>1, <1>2, <1>5, <1>13, <1>14, ToStill

-----------------------------------------------------------------------------
(* Insert keeps the order.                                                 *)

LEMMA DrawnOne == \A N, n : DrawnQueue(N, <<persist(n)>>)
<1> TAKE N, n
<1> DEFINE t == <<persist(n)>>
<1>1. ASSUME NEW k \in DOMAIN t, NEW l \in DOMAIN t, k < l PROVE FALSE
  BY <1>1
<1> HIDE DEF t
<1> QED
  BY <1>1 DEF DrawnQueue, t

\* One node is written.
LEMMA OneLed ==
    ASSUME NEW N, NEW n, n.id \in Ids, n.id \in DOMAIN N, NEW V, Leads(N, <<persist(n)>>, V)
    PROVE  V[n.id] = n /\ Rewrites(N, V, {n.id})
<1>1. V[n.id] = n /\ Becomes(N, V, {n.id}, {})
  BY LedOne
<1> QED
  BY <1>1 DEF Becomes, Rewrites

\* The stored tuples with the one that is inserted.
Replaced == Putting(Tuples(nodes), req.key, NewTuple)

LEMMA InsertReplaceOrder ==
    ASSUME IInv, IInv', Structure, Structure', Order, faults = 0, InsertReplace
    PROVE  Order' /\ Leaves(Replaced)
<1>1. pc = "insert" /\ todo = <<>> /\ pc' = "done" /\ Compute
  BY DEF InsertReplace, At, Finish
<1>2. nodes' = nodes /\ issued' = issued /\ faults' = 0
  BY <1>1 DEF Compute
<1>3. PICK p \in find(cur.values, req.key) :
         Found(cur.values, req.key, p) /\ todo' = <<persist(Replace(cur, p))>>
  BY DEF InsertReplace
<1>4. cur.id \in DOMAIN nodes /\ cur = nodes[cur.id]
      /\ \E h, Lo, Hi : Rests(h) /\ Ordered(nodes, Lo, Hi)
  BY <1>1, AtKey
<1>5. PICK h, Lo, Hi : Rests(h) /\ Ordered(nodes, Lo, Hi)
  BY <1>4
<1>6. Typed(nodes) /\ cur \in Node /\ cur.id \in Ids
  BY <1>4, <1>5, TypedNode DEF Rests
<1>7. cur.values \in Seq(Tuple) /\ Len(cur.values) \in Nat
  BY <1>6, NodeParts
<1>8. p \in Nat /\ p < Len(cur.values) /\ cur.values[p + 1].First = req.key
  BY <1>3, <1>7 DEF find, Found
<1> DEFINE v == swap(cur.values, p, NewTuple)
           n == [cur EXCEPT !.values = v]
<1>9. NewTuple \in Tuple /\ NewTuple.First = req.key
  BY <1>1, NewTupleType DEF NewTuple
<1>10. Swaps(v, cur.values, NewTuple, p)
  BY <1>7, <1>8, <1>9, SwapAt
<1> HIDE DEF v
<1>11. SameKeys(v, cur.values)
  BY <1>7, <1>8, <1>9, <1>10 DEF Swaps, SameKeys
<1>12. n.id = cur.id /\ n.children = cur.children /\ n.values = v /\ todo' = <<persist(n)>>
  BY <1>3, <1>6 DEF Node, Replace, v
<1> HIDE DEF n
<1>13. ASSUME NEW V, Leads(nodes, <<persist(n)>>, V), Typed(V) 
       PROVE  Tuples(V) = Replaced /\ \E L, H : Ordered(V, L, H)
  <2>1. V[n.id] = n /\ Rewrites(nodes, V, {n.id})
    BY <1>4, <1>6, <1>12, <1>13, OneLed
  <2>2. PICK x \in DOMAIN nodes : x = cur.id /\ nodes[x] = cur
    BY <1>4
  <2>3. Rewrites(nodes, V, {x}) /\ V[x].children = nodes[x].children /\ SameKeys(V[x].values, nodes[x].values)
    BY <1>11, <1>12, <2>1, <2>2
  <2>4. Ordered(V, Lo, Hi)
    BY <1>5, <1>6, <1>13, <2>3, SameKeysOrder
  <2>5. KeyAt(nodes[x], p, req.key) /\ Swaps(V[x].values, nodes[x].values, NewTuple, p)
    BY <1>8, <1>10, <1>12, <2>1, <2>2 DEF KeyAt
  <2>6. KeysOnce(nodes) /\ Rewrites(nodes, V, {x})
    BY <2>3 DEF Order
  <2>7. Tuples(V) = Putting(Tuples(nodes), req.key, NewTuple)
    BY <1>6, <1>13, <2>5, <2>6, SwapsTuples
  <2> QED
    BY <2>4, <2>7 DEF Replaced
<1>14. LeadsInOrder(<<persist(n)>>)
  BY <1>13 DEF LeadsInOrder
<1>15. ASSUME NEW C, C = Replaced PROVE Amounts(C)'
  <2>1. LeadsTo(<<persist(n)>>, C)
    BY <1>13, <1>15 DEF LeadsTo
  <2> QED
    BY <1>1, <1>2, <1>12, <2>1, ToAmounts
<1>16. Order'
  BY <1>1, <1>2, <1>12, <1>14, DrawnOne, ToQueued
<1> QED
  BY <1>15, <1>16 DEF Leaves

LEMMA InsertLeafOrder ==
    ASSUME IInv, IInv', Structure, Structure', Order, faults = 0, InsertLeaf
    PROVE  Order' /\ Leaves(Replaced)
<1>1. pc = "insert" /\ todo = <<>> /\ todo' = <<>> /\ pc' = "grow" /\ Compute /\ cur.leaf
  BY DEF InsertLeaf, At, Goto
<1>2. nodes' = nodes /\ issued' = issued /\ faults' = 0
  BY <1>1 DEF Compute
<1>3. PICK p \in find(cur.values, req.key) :
         /\ ~Found(cur.values, req.key, p)
         /\ cur' = [cur EXCEPT !.values = add(cur.values, NewTuple, p)]
  BY DEF InsertLeaf
<1>4. cur.id \in DOMAIN nodes /\ cur = nodes[cur.id]
      /\ \E h, Lo, Hi : /\ Rests(h) /\ Balanced(nodes, h, NoRepair) /\ Tree(nodes, h)
                         /\ Ordered(nodes, Lo, Hi) /\ Routed(Lo, Hi)
  BY <1>1, AtKey
<1>5. PICK h, Lo, Hi : /\ Rests(h) /\ Balanced(nodes, h, NoRepair) /\ Tree(nodes, h)
                       /\ Ordered(nodes, Lo, Hi) /\ Routed(Lo, Hi)
  BY <1>4
<1>6. Typed(nodes) /\ cur \in Node /\ cur.id \in Ids
  BY <1>4, <1>5, TypedNode DEF Rests
<1>7. cur.values \in Seq(Tuple) /\ Len(cur.values) \in Nat /\ cur.children = <<>>
  <2>1. NodeOK(cur, h[cur.id], NoRepair)
    BY <1>4, <1>5 DEF Balanced
  <2> QED
    BY <1>1, <1>6, <2>1, NodeParts DEF NodeOK, Shaped
<1>8. p \in 0 .. Len(cur.values)
  BY DEF find
<1> DEFINE v == add(cur.values, NewTuple, p)
           n == [cur EXCEPT !.values = v]
<1>9. NewTuple \in Tuple /\ NewTuple.First = req.key
  BY <1>1, NewTupleType DEF NewTuple
<1>10. v \in Seq(Tuple) /\ Inserts(v, cur.values, NewTuple, p)
  BY <1>7, <1>8, <1>9, InsertedAt DEF add
<1> HIDE DEF v
<1>11. n.id = cur.id /\ n.children = <<>> /\ n.values = v /\ cur' = n /\ n \in Node
  BY <1>3, <1>6, <1>7, <1>10 DEF Node, v
<1> HIDE DEF n
<1>12. ASSUME NEW V, Leads(nodes, <<>>, V), Typed(V)
       PROVE  /\ Tuples([V EXCEPT ![n.id] = n]) = Replaced
              /\ OneMore(n, V[n.id]) /\ \E L, H : Ordered([V EXCEPT ![n.id] = n], L, H)
  <2>1. DOMAIN V = DOMAIN nodes /\ \A i \in DOMAIN nodes : V[i] = nodes[i]
    BY <1>12, LedNowhere
  <2>2. PICK x \in DOMAIN nodes : x = cur.id /\ nodes[x] = cur
    BY <1>4
  <2>3. V[n.id] = cur
    BY <1>11, <2>1, <2>2
  <2>4. OneMore(n, V[n.id])
    BY <1>8, <1>9, <1>10, <1>11, <2>3 DEF OneMore
  <2> DEFINE U == [V EXCEPT ![n.id] = n]
  <2>5. DOMAIN U = DOMAIN nodes /\ U[x] = n /\ \A i \in DOMAIN nodes \ {x} : U[i] = nodes[i]
    BY <1>11, <2>1, <2>2
  <2> HIDE DEF U
  <2>6. Rewrites(nodes, U, {x}) /\ U[x].children = <<>>
    BY <1>11, <2>5 DEF Rewrites
  <2>7. Typed(U)
    BY <1>6, <1>11, <2>2, <2>5 DEF Typed
  <2>8. Within(NewTuple.First, x, Lo, Hi)
    BY <1>1, <1>5, <1>9, <2>2 DEF Routed
  <2>9. /\ p \in find(nodes[x].values, NewTuple.First) /\ ~Found(nodes[x].values, NewTuple.First, p)
        /\ Inserts(U[x].values, nodes[x].values, NewTuple, p)
    BY <1>3, <1>9, <1>10, <1>11, <2>2, <2>5
  <2>10. Ordered(U, Lo, Hi)
    BY <1>5, <1>6, <1>9, <2>6, <2>7, <2>8, <2>9, LeafInserts
  <2> DEFINE e == NewTuple
             k == req.key
  <2>11. h[x] = 0 /\ Tree(nodes, h)
    BY <1>1, <1>4, <1>5, <2>2 DEF Balanced, NodeOK
  <2>12. /\ e.First = k /\ Within(k, x, Lo, Hi) /\ p \in find(nodes[x].values, k)
         /\ ~Found(nodes[x].values, k, p)
    BY <1>9, <2>8, <2>9
  <2>13. p \in 0 .. Len(nodes[x].values) /\ Inserts(U[x].values, nodes[x].values, e, p)
    BY <1>8, <2>2, <2>9
  <2> HIDE DEF e, k
  <2>14. Lacks(Tuples(nodes), k)
    BY <1>5, <2>11, <2>12, AbsentKey
  <2>15. Tuples(U) = Putting(Tuples(nodes), k, e)
    BY <1>6, <2>6, <2>7, <2>13, <2>14, InsertTuples
  <2>16. Tuples(U) = Replaced
    BY <2>15 DEF Replaced, e, k
  <2>17. \E L, H : Ordered(U, L, H)
    BY <2>10
  <2> QED
    BY <2>4, <2>16, <2>17 DEF U
<1>13. GrowsFrom(<<>>, n)
  BY <1>12 DEF GrowsFrom
<1>14. ASSUME NEW C, C = Replaced PROVE Amounts(C)'
  <2>1. GrowsTo(<<>>, n, C)
    BY <1>12, <1>14 DEF GrowsTo
  <2> QED
    BY <1>1, <1>2, <1>11, <2>1, ToAmountsGrown
<1>15. Order'
  BY <1>1, <1>2, <1>11, <1>13, NoQueue, ToGrown
<1> QED
  BY <1>14, <1>15 DEF Leaves

\* The nodes where Insert has one to write.
LEMMA AtGrown ==
    ASSUME IInv, Structure, Order, faults = 0, At("grow")
    PROVE  /\ cur.id \in DOMAIN nodes /\ cur \in Node /\ cur.id \in Ids /\ OneMore(cur, nodes[cur.id])
           /\ \E h, W, Lo, Hi : /\ W = [nodes EXCEPT ![cur.id] = cur] /\ Typed(W)
                                /\ Rests(h) /\ Balanced(W, h, NoRepair) /\ Trail(W, h, PushCur, FALSE)
                                /\ Ordered(W, Lo, Hi)
<1>1. pc = "grow" /\ todo = <<>>
  BY DEF At
<1>2. cur.id \in DOMAIN nodes
      /\ \E h, W : /\ W = [nodes EXCEPT ![cur.id] = cur] /\ Typed(W)
                   /\ Rests(h) /\ Balanced(W, h, NoRepair) /\ Trail(W, h, PushCur, FALSE)
  BY AtGrow
<1>3. OneMore(cur, nodes[cur.id]) /\ \E Lo, Hi : Ordered(Grown(nodes), Lo, Hi)
  BY <1>1, AtOrder
<1>4. Grown(nodes) = [nodes EXCEPT ![cur.id] = cur]
  BY <1>1 DEF Grown
<1>5. cur \in Node /\ cur.id \in Ids
  BY Parts, NodeParts DEF LocalsOK
<1> QED
  BY <1>2, <1>3, <1>4, <1>5

LEMMA InsertPersistOrder ==
    ASSUME IInv, IInv', Structure, Structure', Order, faults = 0, InsertPersist
    PROVE  Order' /\ Leaves(Tuples(Grown(nodes)))
<1>1. At("grow") /\ todo' = <<persist(cur)>> /\ pc' = "done" /\ Compute
  BY DEF InsertPersist, Finish
<1>2. nodes' = nodes /\ issued' = issued /\ faults' = 0
  BY <1>1 DEF Compute
<1>3. cur.id \in DOMAIN nodes /\ cur.id \in Ids
      /\ \E W, Lo, Hi : W = [nodes EXCEPT ![cur.id] = cur] /\ Ordered(W, Lo, Hi)
  BY <1>1, AtGrown
<1>4. PICK W, Lo, Hi : W = [nodes EXCEPT ![cur.id] = cur] /\ Ordered(W, Lo, Hi)
  BY <1>3
<1>5. ASSUME NEW V, Leads(nodes, <<persist(cur)>>, V), Typed(V) 
       PROVE  Tuples(V) = Tuples(W) /\ \E L, H : Ordered(V, L, H)
  <2>1. V[cur.id] = cur /\ Rewrites(nodes, V, {cur.id})
    BY <1>3, <1>5, OneLed
  <2>2. DOMAIN V = DOMAIN W /\ \A i \in DOMAIN W : V[i] = W[i]
    BY <1>3, <1>4, <2>1 DEF Rewrites
  <2>3. Ordered(V, Lo, Hi)
    BY <1>4, <2>2, SameOrder
  <2>4. Tuples(V) = Tuples(W)
    BY <2>2 DEF Tuples
  <2> QED
    BY <2>3, <2>4
<1>6. LeadsInOrder(<<persist(cur)>>)
  BY <1>5 DEF LeadsInOrder
<1>7. W = Grown(nodes)
  BY <1>1, <1>4 DEF At, Grown
<1>8. ASSUME NEW C, C = Tuples(Grown(nodes)) PROVE Amounts(C)'
  <2>1. LeadsTo(<<persist(cur)>>, C)
    BY <1>5, <1>7, <1>8 DEF LeadsTo
  <2> QED
    BY <1>1, <1>2, <2>1, ToAmounts
<1>9. Order'
  BY <1>1, <1>2, <1>6, DrawnOne, ToQueued
<1> QED
  BY <1>8, <1>9 DEF Leaves

LEMMA InsertNewIdOrder == ASSUME Order, faults = 0, InsertNewId PROVE Order'
<1>1. /\ pc = "grow" /\ todo = <<>> /\ pc' = "grow" /\ todo' = todo /\ nodes' = nodes /\ cur' = cur
      /\ faults' = faults
  BY DEF InsertNewId, Goto, At
<1>2. PICK id : issued' = issued \cup {id}
  BY DEF InsertNewId
<1>3. IsFiniteSet(issued')
  BY <1>2, FS_AddElement DEF Order
<1>4. KeysOnce(nodes') /\ QueueOrder(nodes', todo')
  BY <1>1 DEF Order
<1>5. ASSUME NEW V, Leads(nodes', todo', V) PROVE Tidy(V)'
  <2>1. Tidy(V)
    BY <1>1, <1>5 DEF Order
  <2>2. Grown(V)' = Grown(V)
    BY <1>1 DEF Grown
  <2>3. PICK Lo, Hi : Ordered(Grown(V), Lo, Hi)
    BY <2>1 DEF Tidy
  <2>4. Routed(Lo, Hi)'
    BY <1>1 DEF Routed
  <2>5. GrownBy(V)'
    BY <1>1, <2>1 DEF Tidy, GrownBy
  <2> QED
    BY <2>2, <2>3, <2>4, <2>5 DEF Tidy
<1> QED
  BY <1>3, <1>4, <1>5 DEF Order

\* The halves of a node, and what is between them, in their places.
LEMMA SplitCuts ==
    ASSUME NEW n \in Node, SplitInRange(n), Len(n.values) <= b, NEW x, NEW weak, NodeOK(n, x, weak),
           NEW id \in Ids
    PROVE  CutInto(n.values, n.children, SplitNew(n, id).values, SplitNew(n, id).children,
                   SplitMiddle(n), SplitOld(n).values, SplitOld(n).children)
<1> DEFINE new == SplitNew(n, id)
           old == SplitOld(n)
           m == middleIndex
           k == n.children
           z == n.values
           leftValues == SubSeq(z, 1, m)
           rightValues == SubSeq(z, m + 2, 2 * m + 1)
           left == SubSeq(k, 1, m + 1)
           part == SubSeq(k, m + 2, 2 * m + 1)
           last == k[b + 1]
           right == Append(part, last)
<1>1. SplitMiddle(n) = z[m + 1]
  BY DEF SplitMiddle
<1>2. /\ new.values = leftValues /\ old.values = rightValues
      /\ n.leaf => new.children = <<>> /\ old.children = k
      /\ ~n.leaf => new.children = left /\ old.children = right
  BY DEF SplitNew, SplitOld, createNewNode, Node
<1>3. /\ z \in Seq(Tuple) /\ k \in Seq(Ids \ {rootId}) /\ Len(z) \in Nat /\ Len(k) \in Nat
      /\ n.leaf \in BOOLEAN
  BY NodeParts
<1>4. Shaped(n)
  BY DEF NodeOK
<1>5. m \in Nat /\ b \in Nat /\ a \in Nat /\ 2 * m <= b /\ Len(z) > 2 * m /\ (b = 2 * m \/ b = 2 * m + 1)
      /\ b >= 2 * a - 1
  BY Parameters DEF SplitInRange, middleIndex
<1>6. b = 2 * m + 1 /\ Len(z) = 2 * m + 1
  BY <1>3, <1>5, Parameters
<1>7. n.leaf => k = <<>>
  BY <1>4 DEF Shaped
<1>8. ~n.leaf => Len(k) = 2 * m + 2
  BY <1>3, <1>4, <1>5, <1>6 DEF Shaped
<1> HIDE DEF new, old, m, k, z
<1>9. Len(leftValues) = m /\ \A i \in 1 .. m : leftValues[i] = z[i]
  <2>1. /\ Len(leftValues) = m - 1 + 1
        /\ \A i \in 1 .. m - 1 + 1 : leftValues[i] = z[1 + i - 1]
    BY <1>3, <1>5, <1>6, PartOf
  <2> QED
    BY <1>5, <2>1
<1>10. Len(rightValues) = m /\ \A i \in 1 .. m : rightValues[i] = z[m + 1 + i]
  <2> DEFINE lo == m + 2
             hi == 2 * m + 1
  <2>1. lo \in Int /\ hi \in Int /\ lo >= 1 /\ hi <= Len(z) /\ hi >= lo - 1 /\ hi - lo + 1 = m
    BY <1>5, <1>6
  <2> HIDE DEF lo, hi
  <2>2. /\ Len(SubSeq(z, lo, hi)) = hi - lo + 1
        /\ \A i \in 1 .. hi - lo + 1 : SubSeq(z, lo, hi)[i] = z[lo + i - 1]
    BY <1>3, <2>1, PartOf
  <2>3. \A i \in 1 .. m : lo + i - 1 = m + 1 + i
    BY <1>5 DEF lo
  <2>4. Len(SubSeq(z, lo, hi)) = m /\ \A i \in 1 .. m : SubSeq(z, lo, hi)[i] = z[m + 1 + i]
    BY <2>1, <2>2, <2>3
  <2> QED
    BY <2>4 DEF lo, hi
<1> HIDE DEF leftValues, rightValues
<1>11. JoinsAround(z, leftValues, z[m + 1], rightValues)
  <2>1. Len(z) = Len(leftValues) + 1 + Len(rightValues)
    BY <1>5, <1>6, <1>9, <1>10
  <2>2. ASSUME NEW i \in 1 .. Len(z)
        PROVE  z[i] = IF i <= m THEN leftValues[i] ELSE IF i = m + 1 THEN z[m + 1] ELSE rightValues[i - m - 1]
    <3>1. CASE i <= m
      BY <1>5, <1>9, <2>2, <3>1
    <3>2. CASE i = m + 1
      BY <1>5, <3>2
    <3>3. CASE i > m + 1
      <4>1. i - m - 1 \in 1 .. m /\ m + 1 + (i - m - 1) = i
        BY <1>5, <1>6, <2>2, <3>3
      <4>2. rightValues[i - m - 1] = z[m + 1 + (i - m - 1)]
        BY <1>10, <4>1
      <4> QED
        BY <1>5, <3>3, <4>1, <4>2
    <3> QED
      BY <1>5, <1>6, <2>2, <3>1, <3>2, <3>3
  <2> QED
    BY <1>9, <2>1, <2>2 DEF JoinsAround
<1>12. CASE n.leaf
  <2>1. new.children = <<>> /\ old.children = <<>>
    BY <1>2, <1>7, <1>12
  <2>2. Len(new.children) <= Len(leftValues) + 1 /\ Len(old.children) <= Len(rightValues) + 1
    BY <1>5, <1>9, <1>10, <2>1
  <2>3. CutInto(z, k, leftValues, new.children, z[m + 1], rightValues, old.children)
    BY <1>11, <2>1, <2>2 DEF CutInto, Cuts
  <2> QED
    BY <1>1, <1>2, <2>3 DEF new, old, k, z
<1>13. CASE ~n.leaf
  <2>1. Len(left) = m + 1 /\ \A i \in 1 .. m + 1 : left[i] = k[i]
    <3>1. m + 1 \in Int /\ 1 \in Int /\ m + 1 <= Len(k) /\ m + 1 >= 1 - 1 /\ (m + 1) - 1 + 1 = m + 1
      BY <1>5, <1>8, <1>13
    <3>2. /\ Len(left) = (m + 1) - 1 + 1
          /\ \A i \in 1 .. (m + 1) - 1 + 1 : left[i] = k[1 + i - 1]
      BY <1>3, <3>1, PartOf
    <3> QED
      BY <1>5, <3>1, <3>2
  <2>2. part \in Seq(Ids \ {rootId}) /\ Len(part) = m /\ \A i \in 1 .. m : part[i] = k[m + 1 + i]
    <3> DEFINE lo == m + 2
               hi == 2 * m + 1
    <3>1. lo \in Int /\ hi \in Int /\ lo >= 1 /\ hi <= Len(k) /\ hi >= lo - 1 /\ hi - lo + 1 = m
      BY <1>5, <1>8, <1>13
    <3> HIDE DEF lo, hi
    <3>2. /\ SubSeq(k, lo, hi) \in Seq(Ids \ {rootId}) /\ Len(SubSeq(k, lo, hi)) = hi - lo + 1
          /\ \A i \in 1 .. hi - lo + 1 : SubSeq(k, lo, hi)[i] = k[lo + i - 1]
      BY <1>3, <3>1, PartOf
    <3>3. \A i \in 1 .. m : lo + i - 1 = m + 1 + i
      BY <1>5 DEF lo
    <3>4. /\ SubSeq(k, lo, hi) \in Seq(Ids \ {rootId})
          /\ Len(SubSeq(k, lo, hi)) = m /\ \A i \in 1 .. m : SubSeq(k, lo, hi)[i] = k[m + 1 + i]
      BY <3>1, <3>2, <3>3
    <3> QED
      BY <3>4 DEF lo, hi
  <2>3. last = k[2 * m + 2] /\ last \in Ids \ {rootId}
    BY <1>3, <1>5, <1>6, <1>8, <1>13
  <2> HIDE DEF left, part, last
  <2>4. Len(right) = m + 1 /\ \A i \in 1 .. m + 1 : right[i] = IF i <= m THEN part[i] ELSE last
    BY <1>5, <2>2, <2>3
  <2> HIDE DEF right
  <2>5. \A i \in 1 .. m + 1 : right[i] = k[m + 1 + i]
    <3>1. ASSUME NEW i \in 1 .. m + 1 PROVE right[i] = k[m + 1 + i]
      <4>1. CASE i <= m
        BY <1>5, <2>2, <2>4, <3>1, <4>1
      <4>2. CASE ~(i <= m)
        <5>1. m + 1 + i = 2 * m + 2
          BY <1>5, <4>2
        <5> QED
          BY <2>3, <2>4, <3>1, <4>2, <5>1
      <4> QED
        BY <4>1, <4>2
    <3> QED
      BY <3>1
  <2>6. Part(left, k, 0)
    <3>1. 0 + Len(left) <= Len(k) /\ \A i \in 1 .. Len(left) : 0 + i = i
      BY <1>5, <1>8, <1>13, <2>1
    <3> QED
      BY <2>1, <3>1 DEF Part
  <2>7. Part(right, k, m + 1)
    <3>1. m + 1 + Len(right) <= Len(k)
      BY <1>5, <1>8, <1>13, <2>4
    <3> QED
      BY <2>4, <2>5, <3>1 DEF Part
  <2>8. Len(left) <= Len(leftValues) + 1 /\ Len(right) <= Len(rightValues) + 1 /\ Len(leftValues) + 1 = m + 1
    BY <1>5, <1>9, <1>10, <2>1, <2>4
  <2>9. CutInto(z, k, leftValues, left, z[m + 1], rightValues, right)
    BY <1>11, <2>6, <2>7, <2>8 DEF CutInto, Cuts
  <2>10. new.children = left /\ old.children = right
    BY <1>2, <1>13 DEF left, right, part, last
  <2> QED
    BY <1>1, <1>2, <2>9, <2>10 DEF new, old, k, z
<1> QED
  BY <1>3, <1>12, <1>13

LEMMA DrawnFresh ==
    ASSUME NEW N, NEW n, NEW m, m.id \notin DOMAIN N
    PROVE  DrawnQueue(N, <<persist(n), persist(m)>>)
<1> DEFINE t == <<persist(n), persist(m)>>
<1>1. ASSUME NEW k \in DOMAIN t, NEW l \in DOMAIN t, k < l PROVE t[l] = persist(m)
  BY <1>1
<1>2. \A j : Concerns(persist(m), j) => j = m.id
  BY CallShapes DEF Concerns
<1> HIDE DEF t
<1> QED
  BY <1>1, <1>2 DEF DrawnQueue, t

LEMMA InsertSplitOrder ==
    ASSUME IInv, IInv', Structure, Structure', Order, faults = 0, InsertSplit
    PROVE  Order' /\ Leaves(Tuples(Grown(nodes)))
<1> DEFINE x == cur.id
           v == Final(path).visitedNode
           y == fresh[1]
           old == SplitOld(cur)
           new == SplitNew(cur, y)
           mid == SplitMiddle(cur)
<1>0. /\ At("grow") /\ path # <<>> /\ Len(fresh) = 1 /\ SplitInRange(cur)
      /\ pc' = "grow" /\ Compute /\ todo' = <<persist(old), persist(new)>>
  BY DEF InsertSplit, Goto
<1>p. PICK i \in lastOf(nodes[v].children, x), p \in find(nodes[v].values, mid.First) :
         cur' = [nodes[v] EXCEPT !.children = prependBefore(nodes[v].children, new.id, i),
                                 !.values = add(nodes[v].values, mid, p)]
  BY DEF InsertSplit
<1>1. /\ x \in DOMAIN nodes /\ cur \in Node /\ x \in Ids
      /\ \E h, W, Lo, Hi : /\ W = [nodes EXCEPT ![x] = cur] /\ Typed(W)
                           /\ Rests(h) /\ Balanced(W, h, NoRepair) /\ Trail(W, h, PushCur, FALSE)
                           /\ Ordered(W, Lo, Hi)
  BY <1>0, AtGrown
<1>2. PICK h, W, Lo, Hi : /\ W = [nodes EXCEPT ![x] = cur] /\ Typed(W)
                          /\ Rests(h) /\ Balanced(W, h, NoRepair) /\ Trail(W, h, PushCur, FALSE)
                          /\ Ordered(W, Lo, Hi)
  BY <1>1
<1>3. v \in DOMAIN W /\ v # x /\ ~W[v].leaf
  BY <1>0, <1>2, ParentFacts
<1>4. /\ y \in Ids \ {rootId} /\ y \notin DOMAIN nodes
      /\ DOMAIN W = DOMAIN nodes /\ W[x] = cur /\ \A j \in DOMAIN nodes \ {x} : W[j] = nodes[j]
  <2>1. fresh \in Seq(Ids \ {rootId}) /\ Range(fresh) = {y}
    BY <1>0, Parts DEF LocalsOK, Range
  <2>2. Removes(<<>>) = {} /\ Ledger(nodes, <<>>, issued, fresh)
    BY <1>0, AtGrow DEF Removes
  <2> QED
    BY <1>0, <1>1, <1>2, <2>1, <2>2 DEF Ledger
<1>5. nodes' = nodes /\ issued' = issued /\ faults' = 0
  BY <1>0 DEF Compute
<1> HIDE DEF x, v, y
<1>6. cur.id = x /\ NodeOK(cur, h[x], NoRepair) /\ Len(cur.values) <= b /\ W[v] = nodes[v]
  BY <1>1, <1>2, <1>3, <1>4, Parts DEF Balanced, LocalsOK, x
<1>7. CutInto(cur.values, cur.children, new.values, new.children, mid, old.values, old.children)
  BY <1>0, <1>1, <1>4, <1>6, SplitCuts
<1>8. /\ new.id = y /\ old.id = x
      /\ Range(new.children) \cup Range(old.children) = Range(cur.children)
      /\ mid \in Tuple /\ new \in Node /\ old \in Node
  <2>1. SplitInRange(cur) /\ y \in Ids /\ cur \in Node /\ Len(cur.values) <= b /\ NodeOK(cur, h[x], NoRepair)
    BY <1>0, <1>1, <1>4, <1>6
  <2>2. new.id = y /\ old.id = cur.id /\ mid \in Tuple /\ new \in Node /\ old \in Node
    BY <2>1, SplitFits DEF FitNode
  <2>3. LET n == SplitNew(cur, y)
            o == SplitOld(cur)
        IN Range(n.children) \cup Range(o.children) = Range(cur.children)
    BY <2>1, SplitShapes, ZenonT(40)
  <2> QED
    BY <1>6, <2>2, <2>3
<1> HIDE DEF old, new, mid
<1>9. PICK n : n = W[v]
  OBVIOUS
<1>10. /\ n \in Node /\ n.id = v /\ n.values \in Seq(Tuple) /\ Len(n.values) \in Nat
       /\ n.children \in Seq(Ids \ {rootId}) /\ Len(n.children) \in Nat
       /\ Len(n.children) <= Len(n.values) + 1
  <2>1. n \in Node /\ n.id = v
    BY <1>2, <1>3, <1>9, TypedNode
  <2>2. Shaped(n) /\ ~n.leaf
    BY <1>2, <1>3, <1>9 DEF Balanced, NodeOK
  <2> QED
    BY <2>1, <2>2, NodeParts DEF Shaped
<1>11. /\ i \in DOMAIN n.children /\ n.children[i] = x /\ p \in find(n.values, mid.First)
  BY <1>6, <1>9, <1>p DEF lastOf
<1> DEFINE q == i - 1
<1>12. q \in Nat /\ q + 1 = i /\ q + 1 \in DOMAIN n.children /\ x = n.children[q + 1] /\ q <= Len(n.values)
  BY <1>10, <1>11
<1> HIDE DEF q
<1>13. Between(mid.First, Fences(n.values, Lo[v], Hi[v])[q], Fences(n.values, Lo[v], Hi[v])[q + 1])
       /\ mid.First \in Int
  <2>1. new.values \in Seq(Tuple) /\ old.values \in Seq(Tuple)
    BY <1>8, NodeParts
  <2>2. JoinsAround(W[x].values, new.values, mid, old.values)
    BY <1>4, <1>7 DEF CutInto
  <2>3. q \in Nat /\ q + 1 \in DOMAIN W[v].children /\ x = W[v].children[q + 1] /\ x \in DOMAIN W
    BY <1>1, <1>4, <1>9, <1>12 DEF x
  <2>4. mid.First \in Int /\ Between(mid.First, Row(W[v], Lo, Hi)[q], Row(W[v], Lo, Hi)[q + 1])
    BY <1>2, <1>3, <1>8, <2>1, <2>2, <2>3, SplitPlace
  <2> QED
    BY <1>9, <1>10, <2>4 DEF Row
<1>14. p = q
  <2>1. InOrder(n.values, Lo[v], Hi[v])
    BY <1>2, <1>3, <1>9, <1>10 DEF Ordered, NodeInOrder
  <2>2. q \in 0 .. Len(n.values)
    BY <1>10, <1>12
  <2> DEFINE z == n.values
             k == mid.First
  <2>3. /\ z \in Seq(Tuple) /\ InOrder(z, Lo[v], Hi[v]) /\ k \in Int /\ q \in 0 .. Len(z)
        /\ Between(k, Fences(z, Lo[v], Hi[v])[q], Fences(z, Lo[v], Hi[v])[q + 1])
        /\ p \in find(z, k)
    BY <1>10, <1>11, <1>13, <2>1, <2>2
  <2> HIDE DEF z, k
  <2> QED
    BY <2>3, FindPlace
<1>15. PICK parent : parent = cur'
  OBVIOUS
<1>16. /\ parent \in Node /\ parent.id = v
       /\ Inserts(parent.values, n.values, mid, q) /\ Inserts(parent.children, n.children, y, q)
  <2>1. parent \in Node
    BY <1>15, PartsNext DEF LocalsOK
  <2>2. /\ parent.children = prependBefore(n.children, y, i) /\ parent.id = n.id
        /\ parent.values = add(n.values, mid, p)
    BY <1>6, <1>8, <1>9, <1>10, <1>15, <1>p DEF Node
  <2>3. q \in 0 .. Len(n.values)
    BY <1>10, <1>12
  <2>4. Inserts(add(n.values, mid, q), n.values, mid, q)
    BY <1>8, <1>10, <2>3, InsertedAt DEF add
  <2>5. Inserts(prependBefore(n.children, y, i), n.children, y, i - 1)
    BY <1>4, <1>10, <1>11, PrependBeforeAt
  <2> QED
    BY <1>10, <1>14, <2>1, <2>2, <2>4, <2>5 DEF q
<1>17. ASSUME NEW V, Leads(nodes, <<persist(old), persist(new)>>, V), Typed(V)
       PROVE  /\ Tuples([V EXCEPT ![v] = parent]) = Tuples(W)
              /\ OneMore(parent, V[v]) /\ \E L, H : Ordered([V EXCEPT ![v] = parent], L, H)
  <2>1. V[x] = old /\ V[y] = new /\ Becomes(nodes, V, {x, y}, {})
    <3>1. old.id \in Ids /\ new.id \in Ids
      BY <1>1, <1>4, <1>8 DEF x
    <3>2. V[old.id] = old /\ V[new.id] = new /\ Becomes(nodes, V, {old.id, new.id}, {})
      BY <1>17, <3>1, LedTwo
    <3> QED
      BY <1>8, <3>2
  <2>2. /\ DOMAIN V = DOMAIN W \cup {y}
        /\ \A j \in DOMAIN W \ {x} : V[j] = W[j]
    BY <1>1, <1>4, <2>1 DEF Becomes, x
  <2>3. V[v] = n
    BY <1>3, <1>9, <2>2
  <2>4. OneMore(parent, V[v])
    <3>1. q \in 0 .. Len(n.values)
      BY <1>10, <1>12
    <3> QED
      BY <1>8, <1>16, <2>3, <3>1 DEF OneMore
  <2> DEFINE U == [V EXCEPT ![v] = parent]
  <2>5. /\ DOMAIN U = DOMAIN W \cup {y} /\ U[x] = old /\ U[y] = new /\ U[v] = parent
        /\ \A j \in DOMAIN W \ {x, v} : U[j] = W[j]
    BY <1>3, <1>4, <2>1, <2>2
  <2>6. Typed(U)
    BY <1>16, <1>17, <2>2, <2>5 DEF Typed
  <2> HIDE DEF U
  <2>7. SplitInto(W, U, x, v, y)
    BY <2>5 DEF SplitInto
  <2>8. CutInto(W[x].values, W[x].children, U[y].values, U[y].children, mid, U[x].values, U[x].children)
    BY <1>4, <1>7, <2>5
  <2>9. /\ Inserts(U[v].values, W[v].values, mid, q) /\ Inserts(U[v].children, W[v].children, y, q)
        /\ Len(W[v].children) <= Len(W[v].values) + 1
        /\ q + 1 \in DOMAIN W[v].children /\ x = W[v].children[q + 1]
    BY <1>9, <1>10, <1>12, <1>16, <2>5
  <2>10. Range(U[x].children) \cup Range(U[y].children) \subseteq Range(W[x].children)
    BY <1>4, <1>8, <2>5
  <2>11. SearchTree(W, h, NoRepair, Lo, Hi)
    BY <1>2 DEF SearchTree
  <2>12. y \in Ids /\ y \notin DOMAIN W /\ y # rootId
    BY <1>4
  <2>13. \E Lo2, Hi2 : Ordered(U, Lo2, Hi2)
    BY <1>3, <1>8, <1>12, <2>6, <2>7, <2>8, <2>9, <2>10, <2>11, <2>12, SplitOrder
  <2>14. JoinsAround(W[x].values, U[y].values, mid, U[x].values)
    BY <2>8 DEF CutInto
  <2>15. q \in 0 .. Len(W[v].values)
    BY <1>9, <1>10, <1>12
  <2>16. x \in DOMAIN W /\ v \in DOMAIN W /\ x # v /\ Inserts(U[v].values, W[v].values, mid, q)
    BY <1>1, <1>3, <1>4, <2>9 DEF x
  <2>17. Tuples(U) = Tuples(W)
    BY <1>2, <2>6, <2>7, <2>12, <2>14, <2>15, <2>16, SplitTuples
  <2> QED
    BY <2>4, <2>13, <2>17 DEF U
<1>18. GrowsFrom(<<persist(old), persist(new)>>, parent)
  BY <1>16, <1>17 DEF GrowsFrom
<1>19. DrawnQueue(nodes, <<persist(old), persist(new)>>)
  BY <1>4, <1>8, DrawnFresh
<1>20. W = Grown(nodes)
  BY <1>0, <1>2 DEF At, Grown, x
<1>21. ASSUME NEW C, C = Tuples(Grown(nodes)) PROVE Amounts(C)'
  <2>1. GrowsTo(<<persist(old), persist(new)>>, parent, C)
    BY <1>16, <1>17, <1>20, <1>21 DEF GrowsTo
  <2> QED
    BY <1>0, <1>5, <1>15, <2>1, ToAmountsGrown DEF old, new
<1>22. Order'
  BY <1>0, <1>5, <1>15, <1>18, <1>19, ToGrown DEF old, new
<1> QED
  BY <1>21, <1>22 DEF Leaves

LEMMA DrawnSplitRoot ==
    ASSUME NEW N, NEW n, NEW m, NEW o, NEW d, m.id \notin DOMAIN N, o.id \notin DOMAIN N
    PROVE  DrawnQueue(N, <<persist(n), persist(m), persist(o), updateDepth(d)>>)
<1> DEFINE t == <<persist(n), persist(m), persist(o), updateDepth(d)>>
<1>1. ASSUME NEW k \in DOMAIN t, NEW l \in DOMAIN t, k < l
      PROVE  t[l] \in {persist(m), persist(o), updateDepth(d)}
  <2>1. l \in {2, 3, 4}
    BY <1>1
  <2> QED
    BY <2>1
<1>2. \A j : Concerns(persist(m), j) => j = m.id
  BY CallShapes DEF Concerns
<1>3. \A j : Concerns(persist(o), j) => j = o.id
  BY CallShapes DEF Concerns
<1>4. \A j : ~Concerns(updateDepth(d), j)
  BY CallShapes DEF Concerns
<1> HIDE DEF t
<1>5. ASSUME NEW k \in DOMAIN t, NEW l \in DOMAIN t, k < l, NEW j \in DOMAIN N, Concerns(t[l], j)
      PROVE  FALSE
  <2>1. t[l] \in {persist(m), persist(o), updateDepth(d)}
    BY <1>1, <1>5
  <2> QED
    BY <1>2, <1>3, <1>4, <1>5, <2>1
<1>6. DrawnQueue(N, t)
  BY <1>5 DEF DrawnQueue
<1> QED
  BY <1>6 DEF t

LEMMA InsertSplitRootOrder ==
    ASSUME IInv, IInv', Structure, Structure', Order, faults = 0, InsertSplitRoot
    PROVE  Order' /\ Leaves(Tuples(Grown(nodes)))
<1> DEFINE y == fresh[1]
           z == fresh[2]
           half == SplitOld(cur)
           old == [half EXCEPT !.id = z]
           new == SplitNew(cur, y)
           mid == SplitMiddle(cur)
           root == [createNewNode(cur.id, FALSE) EXCEPT !.values = <<mid>>,
                                                        !.children = <<new.id, old.id>>]
           d == treeDepth + 1
<1>0. /\ At("grow") /\ path = <<>> /\ Len(fresh) = 2 /\ SplitInRange(cur)
      /\ pc' = "done" /\ Compute
      /\ todo' = <<persist(root), persist(old), persist(new), updateDepth(d)>>
  BY DEF InsertSplitRoot, Finish, SplitRootCalls
<1>1. /\ cur.id \in DOMAIN nodes /\ cur \in Node
      /\ \E h, W, Lo, Hi : /\ W = [nodes EXCEPT ![cur.id] = cur] /\ Typed(W)
                           /\ Rests(h) /\ Balanced(W, h, NoRepair) /\ Trail(W, h, PushCur, FALSE)
                           /\ Ordered(W, Lo, Hi)
  BY <1>0, AtGrown
<1>2. PICK h, W, Lo, Hi : /\ W = [nodes EXCEPT ![cur.id] = cur] /\ Typed(W)
                          /\ Rests(h) /\ Balanced(W, h, NoRepair) /\ Trail(W, h, PushCur, FALSE)
                          /\ Ordered(W, Lo, Hi)
  BY <1>1
<1>3. cur.id = rootId
  <2> DEFINE s == [visitedNode |-> cur.id, positionInParent |-> at]
  <2>1. PushCur = <<s>> /\ s.visitedNode = cur.id
    BY <1>0 DEF PushCur
  <2> HIDE DEF s
  <2>2. PushCur[1].visitedNode = rootId
    BY <1>2 DEF Trail
  <2> QED
    BY <2>1, <2>2
<1>4. /\ y \in Ids /\ z \in Ids /\ y # rootId /\ z # rootId /\ y # z
      /\ y \notin DOMAIN nodes /\ z \notin DOMAIN nodes
      /\ DOMAIN W = DOMAIN nodes /\ W[rootId] = cur /\ rootId \in DOMAIN W
      /\ \A j \in DOMAIN nodes \ {rootId} : W[j] = nodes[j]
  <2>1. fresh \in Seq(Ids \ {rootId}) /\ Range(fresh) = {y, z} /\ DOMAIN fresh = {1, 2}
    BY <1>0, Parts DEF LocalsOK, Range
  <2>2. Removes(<<>>) = {} /\ Ledger(nodes, <<>>, issued, fresh)
    BY <1>0, AtGrow DEF Removes
  <2>3. y # z /\ y \in Ids \ {rootId} /\ z \in Ids \ {rootId}
    BY <2>1, <2>2 DEF Ledger, IsInjective
  <2> QED
    BY <1>1, <1>2, <1>3, <2>1, <2>2, <2>3 DEF Ledger
<1>5. nodes' = nodes /\ issued' = issued /\ faults' = 0
  BY <1>0 DEF Compute
<1>6. NodeOK(cur, h[rootId], NoRepair) /\ Len(cur.values) <= b
  BY <1>2, <1>4, Parts DEF Balanced, LocalsOK
<1> HIDE DEF y, z, half, old, new, root, mid, d
<1>7. CutInto(cur.values, cur.children, new.values, new.children, mid, half.values, half.children)
  BY <1>0, <1>1, <1>4, <1>6, SplitCuts DEF half, new, mid
<1>8. /\ new.id = y /\ mid \in Tuple /\ new \in Node /\ half \in Node
      /\ Range(new.children) \cup Range(half.children) = Range(cur.children)
  <2>1. SplitInRange(cur) /\ y \in Ids /\ cur \in Node /\ Len(cur.values) <= b /\ NodeOK(cur, h[rootId], NoRepair)
    BY <1>0, <1>1, <1>4, <1>6
  <2>2. new.id = y /\ mid \in Tuple /\ new \in Node /\ half \in Node
    BY <2>1, SplitFits DEF FitNode, half, new, mid
  <2>3. Range(new.children) \cup Range(half.children) = Range(cur.children)
    BY <2>1, SplitShapes DEF half, new
  <2> QED
    BY <2>2, <2>3
<1>9. old.id = z /\ old.children = half.children /\ old.values = half.values
  BY <1>8 DEF Node, old
<1>10. root.id = rootId /\ root.values = <<mid>> /\ root.children = <<y, z>>
  BY <1>3, <1>8, <1>9 DEF createNewNode, root
<1>11. ASSUME NEW V, Leads(nodes, <<persist(root), persist(old), persist(new), updateDepth(d)>>, V),
              Typed(V)
       PROVE  Tuples(V) = Tuples(W) /\ \E L, H : Ordered(V, L, H)
  <2>1. V[rootId] = root /\ V[z] = old /\ V[y] = new /\ Becomes(nodes, V, {rootId, z, y}, {})
    <3>1. root.id \in Ids /\ old.id \in Ids /\ new.id \in Ids
      BY <1>4, <1>8, <1>9, <1>10, RootAssumption
    <3>2. /\ V[root.id] = root /\ V[old.id] = old /\ V[new.id] = new
          /\ Becomes(nodes, V, {root.id, old.id, new.id}, {})
      BY <1>11, <3>1, LedSplitRoot
    <3> QED
      BY <1>8, <1>9, <1>10, <3>2
  <2>2. DOMAIN V = DOMAIN W \cup {y, z} /\ \A j \in DOMAIN W \ {rootId} : V[j] = W[j]
    BY <1>4, <2>1 DEF Becomes
  <2>3. RootInto(W, V, y, z)
    BY <1>4, <2>2 DEF RootInto
  <2>4. CutInto(W[rootId].values, W[rootId].children, V[y].values, V[y].children, mid,
                V[z].values, V[z].children)
    BY <1>4, <1>7, <1>9, <2>1
  <2>5. V[rootId].values = <<mid>> /\ V[rootId].children = <<y, z>>
    BY <1>10, <2>1
  <2>6. Range(V[y].children) \cup Range(V[z].children) \subseteq Range(W[rootId].children)
    BY <1>4, <1>8, <1>9, <2>1
  <2>7. SearchTree(W, h, NoRepair, Lo, Hi)
    BY <1>2 DEF SearchTree
  <2>8. \E L, H : Ordered(V, L, H)
    BY <1>4, <1>8, <1>11, <2>3, <2>4, <2>5, <2>6, <2>7, SplitRootOrder
  <2>9. JoinsAround(W[rootId].values, V[y].values, mid, V[z].values)
    BY <2>4 DEF CutInto
  <2>10. Tuples(V) = Tuples(W)
    BY <1>2, <1>11, <2>3, <2>5, <2>9, SplitRootTuples
  <2> QED
    BY <2>8, <2>10
<1> DEFINE t == <<persist(root), persist(old), persist(new), updateDepth(d)>>
<1>12. LeadsInOrder(t)
  BY <1>11 DEF LeadsInOrder
<1>13. DrawnQueue(nodes, t)
  BY <1>4, <1>8, <1>9, DrawnSplitRoot
<1>14. todo' = t
  BY <1>0
<1> HIDE DEF t
<1>15. W = Grown(nodes)
  BY <1>0, <1>2 DEF At, Grown
<1>16. ASSUME NEW C, C = Tuples(Grown(nodes)) PROVE Amounts(C)'
  <2>1. LeadsTo(t, C)
    BY <1>11, <1>15, <1>16 DEF LeadsTo, t
  <2> QED
    BY <1>0, <1>5, <1>14, <2>1, ToAmounts
<1>17. Order'
  BY <1>0, <1>5, <1>12, <1>13, <1>14, ToQueued
<1> QED
  BY <1>16, <1>17 DEF Leaves

-----------------------------------------------------------------------------
(* Delete keeps the order.                                                 *)

\* A leaf is written without the value at position p.
LEMMA LeafLess ==
    ASSUME NEW W, NEW Lo, NEW Hi, Typed(W), Ordered(W, Lo, Hi), NEW x \in DOMAIN W,
           NEW n, n.id = x, n.children = <<>>, NEW p \in Nat, p < Len(W[x].values),
           Drops(n.values, W[x].values, p),
           NEW V, Leads(W, <<persist(n)>>, V), Typed(V)
    PROVE  Ordered(V, Lo, Hi) /\ V[x] = n /\ Rewrites(W, V, {x})
<1>1. n.id \in Ids /\ n.id \in DOMAIN W
  BY DEF Typed
<1>2. V[x] = n /\ Rewrites(W, V, {x})
  BY <1>1, OneLed
<1> QED
  BY <1>2, LeafDrops

LEMMA PopLastDrops ==
    ASSUME NEW S, NEW s \in Seq(S), s # <<>>
    PROVE  popLast(s) \in Seq(S) /\ Drops(popLast(s), s, Len(s) - 1)
<1>1. popLast(s) \in Seq(S) /\ Len(popLast(s)) = Len(s) - 1
      /\ \A i \in 1 .. Len(s) - 1 : popLast(s)[i] = s[i]
  BY PopLastType
<1> HIDE DEF popLast
<1> QED
  BY <1>1 DEF Drops

LEMMA DeleteLeafOrder ==
    ASSUME IInv, IInv', Structure, Structure', Order, faults = 0, DeleteLeaf
    PROVE  Order' /\ Leaves(Without(Tuples(nodes), req.key))
<1>1. pc = "delete" /\ todo = <<>> /\ pc' = "balance" /\ Compute /\ cur.leaf
  BY DEF DeleteLeaf, At, Goto
<1>2. nodes' = nodes /\ issued' = issued /\ faults' = 0
  BY <1>1 DEF Compute
<1>3. PICK p \in find(cur.values, req.key) :
         /\ Found(cur.values, req.key, p)
         /\ todo' = <<persist([cur EXCEPT !.values = pop(cur.values, p)])>>
  BY DEF DeleteLeaf
<1>4. cur.id \in DOMAIN nodes /\ cur = nodes[cur.id]
      /\ \E h, Lo, Hi : Rests(h) /\ Balanced(nodes, h, NoRepair) /\ Ordered(nodes, Lo, Hi)
  BY <1>1, AtKey
<1>5. PICK h, Lo, Hi : Rests(h) /\ Balanced(nodes, h, NoRepair) /\ Ordered(nodes, Lo, Hi)
  BY <1>4
<1>6. PICK x \in DOMAIN nodes : x = cur.id /\ nodes[x] = cur
  BY <1>4
<1>7. Typed(nodes) /\ cur \in Node /\ NodeOK(cur, h[x], NoRepair)
  BY <1>5, <1>6, TypedNode DEF Rests, Balanced
<1>8. cur.values \in Seq(Tuple) /\ Len(cur.values) \in Nat /\ cur.children = <<>>
  BY <1>1, <1>7, NodeParts DEF NodeOK, Shaped
<1>9. p \in Nat /\ p < Len(cur.values)
  BY <1>3 DEF find, Found
<1> DEFINE v == pop(cur.values, p)
           n == [cur EXCEPT !.values = v]
<1>10. Drops(v, cur.values, p)
  BY <1>8, <1>9, PopAt
<1> HIDE DEF v
<1>11. n.id = x /\ n.children = <<>> /\ n.values = v /\ todo' = <<persist(n)>>
  BY <1>3, <1>6, <1>7, <1>8 DEF Node, v
<1> HIDE DEF n
<1>12. ASSUME NEW V, Leads(nodes, <<persist(n)>>, V), Typed(V) 
       PROVE  Tuples(V) = Without(Tuples(nodes), req.key) /\ \E L, H : Ordered(V, L, H)
  <2>1. p < Len(nodes[x].values) /\ Drops(n.values, nodes[x].values, p)
    BY <1>6, <1>9, <1>10, <1>11
  <2>2. Ordered(V, Lo, Hi)
    BY <1>5, <1>7, <1>9, <1>11, <1>12, <2>1, LeafLess
  <2>a. V[x] = n /\ Rewrites(nodes, V, {x})
    <3>1. n.id \in Ids /\ n.id \in DOMAIN nodes
      BY <1>7, <1>11 DEF Typed
    <3> QED
      BY <1>11, <1>12, <3>1, OneLed
  <2>3. KeyAt(nodes[x], p, req.key) /\ Drops(V[x].values, nodes[x].values, p) /\ KeysOnce(nodes)
    BY <1>3, <1>6, <1>9, <2>1, <2>a DEF KeyAt, Found, Order
  <2>4. Tuples(V) = Without(Tuples(nodes), req.key)
    BY <1>7, <1>12, <2>a, <2>3, DropTuples
  <2> QED
    BY <2>2, <2>4
<1>13. LeadsInOrder(<<persist(n)>>)
  BY <1>12 DEF LeadsInOrder
<1>14. ASSUME NEW C, C = Without(Tuples(nodes), req.key) PROVE Amounts(C)'
  <2>1. LeadsTo(<<persist(n)>>, C)
    BY <1>12, <1>14 DEF LeadsTo
  <2> QED
    BY <1>1, <1>2, <1>11, <2>1, ToAmounts
<1>15. Order'
  BY <1>1, <1>2, <1>11, <1>13, DrawnOne, ToQueued
<1> QED
  BY <1>14, <1>15 DEF Leaves

LEMMA DeleteAbsentOrder == ASSUME Order, faults = 0, DeleteAbsent PROVE Order'
<1>1. /\ pc = "delete" /\ todo = <<>> /\ todo' = <<>> /\ pc' = "done"
      /\ nodes' = nodes /\ issued' = issued
  BY DEF DeleteAbsent, At, Finish, Compute
<1> QED
  BY <1>1, RestOrder

LEMMA DrawnTwo ==
    ASSUME NEW N, NEW n, NEW m, Drawn(n, N, m.id)
    PROVE  DrawnQueue(N, <<persist(n), persist(m)>>)
<1> DEFINE t == <<persist(n), persist(m)>>
<1>1. ASSUME NEW k \in DOMAIN t, NEW l \in DOMAIN t, k < l PROVE t[k] = persist(n) /\ t[l] = persist(m)
  <2>1. k = 1 /\ l = 2
    BY <1>1
  <2> QED
    BY <2>1
<1>2. persist(n).node = n /\ \A j : Concerns(persist(m), j) => j = m.id
  BY CallShapes DEF Concerns
<1> HIDE DEF t
<1>3. DrawnQueue(N, t)
  BY <1>1, <1>2 DEF DrawnQueue
<1> QED
  BY <1>3 DEF t

\* The last key of a node is above its others and within its bounds.
LEMMA LastKey ==
    ASSUME NEW W, NEW h, Tree(W, h), NEW Lo, NEW Hi, Ordered(W, Lo, Hi), NEW x \in DOMAIN W,
           W[x].values # <<>>, NEW e, e = Final(W[x].values)
    PROVE  /\ e \in Tuple /\ e.First \in Int /\ Between(e.First, Lo[x], Hi[x])
           /\ \A i \in 1 .. Len(W[x].values) - 1 : W[x].values[i].First < e.First
<1> DEFINE F == Row(W[x], Lo, Hi)
           v == W[x].values
           n == Len(v) + 1
           l == Len(v)
<1>1. /\ n \in Nat /\ n >= 1 /\ Rising(F, n) /\ F[0] = Lo[x] /\ F[n] = Hi[x]
      /\ \A m \in 1 .. n - 1 : F[m] = {v[m].First}
  BY RowFacts
<1>2. v \in Seq(Tuple) /\ l \in Nat
  BY TypedNode DEF Tree
<1>3. l >= 1 /\ n = l + 1 /\ e = v[l] /\ e \in Tuple
  BY <1>2 DEF Final
<1> HIDE DEF F, v, n, l
<1>4. l \in 1 .. n - 1 /\ F[l] = {e.First}
  BY <1>1, <1>2, <1>3
<1>5. e.First \in Int /\ Between(e.First, F[0], F[n])
  BY <1>1, <1>4, InnerBetween
<1>6. ASSUME NEW i \in 1 .. l - 1 PROVE v[i].First < e.First
  <2>1. i \in 0 .. n /\ l \in 0 .. n /\ i < l /\ i \in 1 .. n - 1
    BY <1>1, <1>2, <1>3
  <2>2. F[i] = {v[i].First}
    BY <1>1, <2>1
  <2>3. \A y \in F[i], z \in F[l] : y < z
    BY <1>1, <2>1 DEF Rising
  <2> QED
    BY <1>4, <2>2, <2>3
<1> QED
  BY <1>1, <1>3, <1>5, <1>6 DEF v, l

\* The last key of a leaf takes the place of the next higher one, after it left the leaf.
LessLast(n, m) == n = [m EXCEPT !.values = popLast(m.values)]

LEMMA PredecessorOrder ==
    ASSUME NEW W, NEW h, Tree(W, h), Balanced(W, h, NoRepair), NEW Lo, NEW Hi, Ordered(W, Lo, Hi),
           NEW x \in DOMAIN W, W[x].leaf, W[x].values # <<>>,
           NEW j \in DOMAIN W, j # x, NEW q \in Nat, q < Len(W[j].values),
           Hi[x] = Key(W[j].values[q + 1]),
           NEW e, e = Final(W[x].values),
           NEW V, LessLast(V[x], W[x]), Rewrites(W, V, {x, j}), V[j].id = j,
           V[j].children = W[j].children, Swaps(V[j].values, W[j].values, e, q)
    PROVE  \E Lo2, Hi2 : Ordered(V, Lo2, Hi2)
<1>0. PICK n, t : n = V[x] /\ n = [W[x] EXCEPT !.values = popLast(W[x].values)]
                  /\ t = W[j].values[q + 1] /\ Hi[x] = Key(t)
  BY DEF LessLast
<1> DEFINE v == W[x].values
           z == popLast(v)
<1>1. /\ Typed(W) /\ W[x] \in Node /\ W[x].id = x /\ v \in Seq(Tuple) /\ Len(v) \in Nat
      /\ NodeOK(W[x], h[x], NoRepair)
  BY TypedNode DEF Tree, Balanced
<1>2. z \in Seq(Tuple) /\ Drops(z, v, Len(v) - 1)
  BY <1>1, PopLastDrops
<1>3. e \in Tuple /\ e.First \in Int /\ Between(e.First, Lo[x], Hi[x])
      /\ \A i \in 1 .. Len(v) - 1 : v[i].First < e.First
  BY LastKey
<1>4. Len(v) >= 1 /\ Len(v) - 1 \in Nat /\ Len(v) - 1 < Len(v)
  BY <1>1
<1> HIDE DEF v, z
<1>5. n \in Node /\ n.id = x /\ n.values = z /\ n.children = W[x].children /\ n.children = <<>>
  BY <1>0, <1>1, <1>2 DEF Node, NodeOK, Shaped, z, v
<1>6. PICK weak : weak = {x}
  OBVIOUS
<1>7. NodeOK(n, h[x], weak)
  <2>1. Len(z) = Len(v) - 1
    BY <1>2 DEF Drops
  <2>2. W[x].id \in weak /\ W[x].leaf /\ W[x].values = v
    BY <1>1, <1>6 DEF v
  <2>3. Len(z) >= Least(W[x], weak)
    BY <1>1, <1>2, <1>4, <2>1, <2>2, ValuesLess
  <2>4. n = [W[x] EXCEPT !.values = z]
    BY <1>0 DEF z, v
  <2> QED
    BY <1>1, <1>2, <2>2, <2>3, <2>4, ValuesOK
<1>8. PICK U : Replaces(U, W, x, n)
  BY Replacing
<1>9. DOMAIN U = DOMAIN W /\ U[x] = n /\ \A k \in DOMAIN W \ {x} : U[k] = W[k]
  BY <1>8 DEF Replaces
<1>10. Balanced(U, h, weak)
  <2>1. n.children = W[x].children /\ NoRepair \subseteq {x}
    BY <1>5, NobodyWeak
  <2> QED
    BY <1>1, <1>7, <1>8, <2>1, Rewritten
<1>11. Typed(U)
  <2>1. ASSUME NEW i \in DOMAIN U PROVE U[i] \in Node /\ U[i].id = i
    <3>1. CASE i = x
      BY <1>5, <1>9, <3>1
    <3>2. CASE i # x
      BY <1>1, <1>9, <3>2 DEF Typed
    <3> QED
      BY <3>1, <3>2
  <2>2. DOMAIN U \subseteq Ids /\ rootId \in DOMAIN U
    BY <1>1, <1>9 DEF Typed
  <2> QED
    BY <2>1, <2>2 DEF Typed
<1>12. Tree(U, h)
  BY <1>9, <1>10, <1>11 DEF Tree
<1>13. Ordered(U, Lo, Hi)
  <2>1. Rewrites(W, U, {x}) /\ U[x].children = <<>>
    BY <1>5, <1>9 DEF Rewrites
  <2>2. Drops(U[x].values, W[x].values, Len(v) - 1) /\ Len(v) - 1 < Len(W[x].values)
    BY <1>2, <1>4, <1>5, <1>9 DEF v
  <2> QED
    BY <1>1, <1>4, <1>11, <2>1, <2>2, LeafDrops
<1>14. t \in Tuple /\ e.First < t.First
  <2>1. W[j].values \in Seq(Tuple) /\ Len(W[j].values) \in Nat
    BY <1>1, TypedNode
  <2>2. t \in Tuple
    BY <1>0, <2>1
  <2> QED
    BY <1>0, <1>3, <2>2 DEF Between, Key
<1>15. GapBelow(U, t, e.First)
  <2>1. x \in DOMAIN U /\ h[x] = 0
    <3>1. U[x].leaf = W[x].leaf
      BY <1>0, <1>1, <1>9 DEF Node
    <3>2. x \in DOMAIN W /\ (W[x].leaf <=> h[x] = 0)
      BY <1>1, LeafHeight
    <3> QED
      BY <1>9, <3>2
  <2>2. \A l \in Lo[x] : l < e.First
    BY <1>3 DEF Between
  <2>3. ASSUME NEW i \in DOMAIN U[x].values PROVE U[x].values[i].First < e.First
    <3>1. U[x].values = z /\ DOMAIN z = 1 .. Len(v) - 1
      BY <1>2, <1>5, <1>9 DEF Drops
    <3>2. i \in 1 .. Len(v) - 1 /\ z[i] = v[i]
      BY <1>2, <1>4, <2>3, <3>1 DEF Drops
    <3> QED
      BY <1>3, <3>1, <3>2
  <2>4. ASSUME NEW l \in DOMAIN U, NEW k, Holds(U[l], k)
        PROVE  k \in Int /\ (k < e.First \/ k >= t.First)
    BY <1>0, <1>3, <1>12, <1>13, <1>14, <2>1, <2>2, <2>3, <2>4, KeyGap
  <2> QED
    BY <2>4 DEF GapBelow
<1>16. /\ j \in DOMAIN U /\ U[j] = W[j] /\ Rewrites(U, V, {j})
  BY <1>0, <1>9 DEF Rewrites
<1>17. /\ q < Len(U[j].values) /\ t = U[j].values[q + 1] /\ V[j].children = U[j].children
       /\ Swaps(V[j].values, U[j].values, e, q)
  BY <1>0, <1>16
<1> QED
  BY <1>3, <1>12, <1>13, <1>14, <1>15, <1>16, <1>17, KeyMoves

\* What is stored without the value that Delete replaces.
WithoutTarget == Without(Tuples(nodes), target.values[hole + 1].First)
WithoutLast == Without(Tuples(nodes), Predecessor(cur).First)

LEMMA PopLeafOrder ==
    ASSUME IInv, IInv', Structure, Structure', Order, faults = 0, PopLeaf
    PROVE  /\ Order'
           /\ Backend = "memory" => Leaves(WithoutTarget)
           /\ Backend # "memory" => Leaves(WithoutLast)
           /\ Before(Tuples(nodes), Predecessor(cur).First, target.values[hole + 1].First)
<1> DEFINE v == popLast(cur.values)
           e == Predecessor(cur)
           w == swap(target.values, hole, e)
<1>1. /\ pc = "pop" /\ todo = <<>> /\ pc' = "balance" /\ Compute /\ cur.leaf /\ cur.values # <<>>
  BY DEF PopLeaf, At, Goto
<1>2. nodes' = nodes /\ issued' = issued /\ faults' = 0
  BY <1>1 DEF Compute
<1>3. PICK n, m : /\ n = [cur EXCEPT !.values = v] /\ m = [target EXCEPT !.values = w]
                  /\ todo' = IF Backend = "memory" THEN <<persist(n), persist(m)>> ELSE <<persist(n)>>
  BY DEF PopLeaf
<1>4. /\ cur.id \in DOMAIN nodes /\ cur = nodes[cur.id]
      /\ target.id \in DOMAIN nodes /\ target = nodes[target.id] /\ ~target.leaf
  BY <1>1, AtDescent
<1>5. \E h, Lo, Hi : /\ Rests(h) /\ Balanced(nodes, h, NoRepair) /\ Tree(nodes, h)
                     /\ Ordered(nodes, Lo, Hi) /\ Routed(Lo, Hi)
  BY <1>1, AtKey
<1>6. PICK h, Lo, Hi : /\ Rests(h) /\ Balanced(nodes, h, NoRepair) /\ Tree(nodes, h)
                       /\ Ordered(nodes, Lo, Hi) /\ Routed(Lo, Hi)
  BY <1>5
<1>7. PICK x \in DOMAIN nodes, j \in DOMAIN nodes :
         x = cur.id /\ j = target.id /\ nodes[x] = cur /\ nodes[j] = target /\ j # x
  BY <1>1, <1>4
<1>8. Typed(nodes) /\ cur \in Node /\ target \in Node /\ x \in Ids /\ j \in Ids
  BY <1>6, <1>7, TypedNode DEF Rests
<1>9. /\ cur.values \in Seq(Tuple) /\ Len(cur.values) \in Nat /\ cur.children = <<>>
      /\ target.values \in Seq(Tuple) /\ Len(target.values) \in Nat
  <2>1. NodeOK(cur, h[x], NoRepair)
    BY <1>6, <1>7 DEF Balanced
  <2> QED
    BY <1>1, <1>8, <2>1, NodeParts DEF NodeOK, Shaped
<1>10. hole \in Nat /\ hole < Len(target.values)
  BY <1>1, Parts DEF LocalsOK
<1>11. e = Final(cur.values) /\ e \in Tuple
  BY <1>1, <1>9 DEF Predecessor, Final
<1>a. Before(Tuples(nodes), e.First, target.values[hole + 1].First)
  <2> DEFINE u == target.values[hole + 1]
  <2>1. h[x] = 0
    <3>1. NodeOK(nodes[x], h[x], NoRepair) /\ nodes[x].leaf
      BY <1>1, <1>6, <1>7 DEF Balanced
    <3> QED
      BY <3>1 DEF NodeOK
  <2>2. nodes[x].values # <<>> /\ e = Final(nodes[x].values)
    BY <1>1, <1>7, <1>11
  <2>3. Hi[x] = Key(u)
    BY <1>1, <1>6, <1>7 DEF Routed
  <2> HIDE DEF e, u
  <2>4. Before(Tuples(nodes), e.First, u.First)
    BY <1>6, <1>7, <2>1, <2>2, <2>3, LastBefore
  <2> QED
    BY <2>4 DEF u
<1> HIDE DEF e
<1>12. Drops(v, cur.values, Len(cur.values) - 1) /\ Len(cur.values) - 1 \in Nat
       /\ Len(cur.values) - 1 < Len(cur.values)
  BY <1>1, <1>9, PopLastDrops
<1>13. Swaps(w, target.values, e, hole)
  BY <1>9, <1>10, <1>11, SwapAt
<1> HIDE DEF w
<1>14. n.id = x /\ n.children = <<>> /\ n.values = v
  BY <1>3, <1>7, <1>8, <1>9 DEF Node
<1>15. m.id = j /\ m.children = target.children /\ m.values = w
  BY <1>3, <1>7, <1>8 DEF Node
<1>16. n = [nodes[x] EXCEPT !.values = popLast(nodes[x].values)]
  BY <1>3, <1>7
<1> HIDE DEF v
<1>17. CASE Backend # "memory"
  <2>1. ASSUME NEW V, Leads(nodes, <<persist(n)>>, V), Typed(V)
        PROVE  Tuples(V) = WithoutLast /\ \E L, H : Ordered(V, L, H)
    <3>1. PICK p \in Nat : p = Len(cur.values) - 1 /\ p < Len(nodes[x].values)
                           /\ Drops(n.values, nodes[x].values, p)
      BY <1>7, <1>12, <1>14
    <3>2. V[x] = n /\ Rewrites(nodes, V, {x})
      <4>1. n.id \in Ids /\ n.id \in DOMAIN nodes
        BY <1>7, <1>8, <1>14
      <4> QED
        BY <1>14, <2>1, <4>1, OneLed
    <3>3. Ordered(V, Lo, Hi)
      <4>1. V[x].children = <<>> /\ Drops(V[x].values, nodes[x].values, p)
        BY <1>14, <3>1, <3>2
      <4> QED
        BY <1>6, <1>7, <1>8, <2>1, <3>1, <3>2, <4>1, LeafDrops
    <3> DEFINE k == e.First
    <3>4. KeyAt(nodes[x], p, k)
      BY <1>7, <1>9, <1>11, <3>1 DEF KeyAt, Final
    <3> HIDE DEF k
    <3>5. Drops(V[x].values, nodes[x].values, p) /\ KeysOnce(nodes)
      BY <3>1, <3>2 DEF Order
    <3>6. Tuples(V) = Without(Tuples(nodes), k)
      BY <1>8, <2>1, <3>2, <3>4, <3>5, DropTuples
    <3> QED
      BY <3>3, <3>6 DEF k, e, WithoutLast
  <2>2. LeadsInOrder(<<persist(n)>>) /\ todo' = <<persist(n)>>
    BY <1>3, <1>17, <2>1 DEF LeadsInOrder
  <2>3. Order'
    BY <1>1, <1>2, <2>2, DrawnOne, ToQueued
  <2>4. ASSUME NEW C, C = WithoutLast PROVE Amounts(C)'
    <3>1. LeadsTo(<<persist(n)>>, C)
      BY <2>1, <2>4 DEF LeadsTo
    <3> QED
      BY <1>1, <1>2, <2>2, <3>1, ToAmounts
  <2> QED
    BY <1>17, <1>a, <2>3, <2>4 DEF Leaves, e
<1>18. CASE Backend = "memory"
  <2>1. ASSUME NEW V, Leads(nodes, <<persist(n), persist(m)>>, V), Typed(V)
        PROVE  Tuples(V) = WithoutTarget /\ \E L, H : Ordered(V, L, H)
    <3>1. V[n.id] = n /\ V[m.id] = m /\ Becomes(nodes, V, {n.id, m.id}, {})
      BY <1>8, <1>14, <1>15, <2>1, LedTwo
    <3>2. V[x] = n /\ V[j] = m /\ Rewrites(nodes, V, {x, j})
      BY <1>7, <1>14, <1>15, <3>1 DEF Becomes, Rewrites
    <3>3. /\ nodes[x].leaf /\ nodes[x].values # <<>> /\ hole < Len(nodes[j].values)
          /\ e = Final(nodes[x].values)
      BY <1>1, <1>7, <1>10, <1>11
    <3>4. Hi[x] = Key(nodes[j].values[hole + 1])
      BY <1>1, <1>6, <1>7 DEF Routed
    <3>5. LessLast(V[x], nodes[x])
      BY <1>16, <3>2 DEF LessLast
    <3>6. /\ V[j].id = j /\ V[j].children = nodes[j].children
          /\ Swaps(V[j].values, nodes[j].values, e, hole)
      BY <1>7, <1>13, <1>15, <3>2
    <3>7. x \in DOMAIN nodes /\ j \in DOMAIN nodes /\ j # x /\ hole \in Nat
      BY <1>7, <1>10
    <3>8. \E L, H : Ordered(V, L, H)
      BY <1>6, <3>2, <3>3, <3>4, <3>5, <3>6, <3>7, PredecessorOrder
    <3>9. PICK l \in Nat : l = Len(cur.values) - 1
      BY <1>12
    <3>10. l < Len(nodes[x].values) /\ Drops(V[x].values, nodes[x].values, l) /\ e = nodes[x].values[l + 1]
      <4>1. l < Len(cur.values) /\ l + 1 = Len(cur.values) /\ Drops(v, cur.values, l)
        BY <1>9, <1>12, <3>9
      <4> QED
        BY <1>7, <1>11, <1>14, <3>2, <4>1 DEF Final
    <3> DEFINE k == target.values[hole + 1].First
    <3>11. KeyAt(nodes[j], hole, k)
      BY <1>7, <1>10 DEF KeyAt
    <3> HIDE DEF k
    <3>12. KeysOnce(nodes)
      BY DEF Order
    <3>13. Tuples(V) = Without(Tuples(nodes), k)
      BY <1>8, <2>1, <3>2, <3>6, <3>7, <3>10, <3>11, <3>12, ReplaceTuples
    <3> QED
      BY <3>8, <3>13 DEF k, WithoutTarget
  <2>2. LeadsInOrder(<<persist(n), persist(m)>>) /\ todo' = <<persist(n), persist(m)>>
    BY <1>3, <1>18, <2>1 DEF LeadsInOrder
  <2>3. Drawn(n, nodes, m.id)
    <3>1. ASSUME NEW k \in DOMAIN n.values PROVE Holds(nodes[x], n.values[k].First)
      <4>1. DOMAIN n.values = 1 .. Len(cur.values) - 1
        BY <1>9, <1>12, <1>14, PopLastType DEF v
      <4>2. n.values[k] = cur.values[k] /\ k \in DOMAIN cur.values
        BY <1>9, <1>12, <1>14, <3>1, <4>1 DEF Drops
      <4> QED
        BY <1>7, <4>2 DEF Holds
    <3>2. x \in DOMAIN nodes \ {m.id}
      BY <1>7, <1>15
    <3> QED
      BY <3>1, <3>2 DEF Drawn
  <2>4. DrawnQueue(nodes, <<persist(n), persist(m)>>)
    BY <2>3, DrawnTwo
  <2>5. ASSUME NEW C, C = WithoutTarget PROVE Amounts(C)'
    <3>1. LeadsTo(<<persist(n), persist(m)>>, C)
      BY <2>1, <2>5 DEF LeadsTo
    <3> QED
      BY <1>1, <1>2, <2>2, <3>1, ToAmounts
  <2>6. Order'
    BY <1>1, <1>2, <2>2, <2>4, ToQueued
  <2> QED
    BY <1>18, <1>a, <2>5, <2>6 DEF Leaves, e
<1> QED
  BY <1>17, <1>18

-----------------------------------------------------------------------------
(* The repairs keep the order.                                             *)

\* The key between two neighbours goes to the left one, and the first of the right one
\* takes its place; ...
LEMMA FirstMoves ==
    ASSUME NEW S, NEW l \in Seq(S), NEW r \in Seq(S), NEW t, NEW z, JoinsAround(z, l, t, r),
           Len(r) >= 1, NEW u, JoinsAround(u, l, t, <<>>), NEW w, Drops(w, r, 0),
           NEW e, e = r[1]
    PROVE  JoinsAround(z, u, e, w)
<1> DEFINE n == Len(l)
           k == Len(r)
<1>1. n \in Nat /\ k \in Nat /\ k >= 1 /\ Len(<<>>) = 0
  OBVIOUS
<1>2. /\ Len(z) = n + 1 + k
      /\ \A i \in 1 .. Len(z) : z[i] = IF i <= n THEN l[i] ELSE IF i = n + 1 THEN t ELSE r[i - n - 1]
  BY DEF JoinsAround
<1>3. /\ Len(u) = n + 1 /\ \A i \in 1 .. n + 1 : u[i] = IF i <= n THEN l[i] ELSE t
  <2>1. /\ Len(u) = n + 1
        /\ \A i \in 1 .. n + 1 : u[i] = IF i <= n THEN l[i] ELSE IF i = n + 1 THEN t ELSE <<>>[i - n - 1]
    BY <1>1 DEF JoinsAround
  <2> QED
    BY <1>1, <2>1
<1>4. Len(w) = k - 1 /\ \A i \in 1 .. k - 1 : w[i] = r[i + 1]
  BY <1>1 DEF Drops
<1> HIDE DEF n, k
<1>5. ASSUME NEW i \in 1 .. Len(z)
      PROVE  z[i] = IF i <= n + 1 THEN u[i] ELSE IF i = n + 1 + 1 THEN e ELSE w[i - (n + 1) - 1]
  <2>1. CASE i <= n + 1
    BY <1>1, <1>2, <1>3, <2>1
  <2>2. CASE i = n + 2
    <3>1. z[i] = r[i - n - 1] /\ i - n - 1 = 1
      BY <1>1, <1>2, <2>2
    <3> QED
      BY <1>1, <2>2, <3>1
  <2>3. CASE i > n + 2
    <3>1. i - (n + 1) - 1 \in 1 .. k - 1 /\ i - (n + 1) - 1 + 1 = i - n - 1
      BY <1>1, <1>2, <2>3
    <3>2. z[i] = r[i - n - 1]
      BY <1>1, <1>2, <2>3
    <3>3. w[i - (n + 1) - 1] = r[i - n - 1]
      BY <1>4, <3>1
    <3> QED
      BY <1>1, <2>3, <3>2, <3>3
  <2> QED
    BY <1>1, <1>2, <2>1, <2>2, <2>3
<1>6. Len(z) = Len(u) + 1 + Len(w)
  BY <1>1, <1>2, <1>3, <1>4
<1> QED
  BY <1>3, <1>5, <1>6 DEF JoinsAround

\* ... or to the right one, and the last of the left one takes its place.
LEMMA LastMoves ==
    ASSUME NEW S, NEW l \in Seq(S), NEW r \in Seq(S), NEW t, NEW z, JoinsAround(z, l, t, r),
           Len(l) >= 1, NEW u, Drops(u, l, Len(l) - 1), NEW w, JoinsAround(w, <<>>, t, r),
           NEW e, e = l[Len(l)]
    PROVE  JoinsAround(z, u, e, w)
<1> DEFINE n == Len(l)
           k == Len(r)
<1>1. n \in Nat /\ k \in Nat /\ n >= 1 /\ Len(<<>>) = 0
  OBVIOUS
<1>2. /\ Len(z) = n + 1 + k
      /\ \A i \in 1 .. Len(z) : z[i] = IF i <= n THEN l[i] ELSE IF i = n + 1 THEN t ELSE r[i - n - 1]
  BY DEF JoinsAround
<1>3. /\ Len(w) = k + 1 /\ \A i \in 1 .. k + 1 : w[i] = IF i = 1 THEN t ELSE r[i - 1]
  <2>1. /\ Len(w) = k + 1
        /\ \A i \in 1 .. k + 1 : w[i] = IF i <= 0 THEN <<>>[i] ELSE IF i = 1 THEN t ELSE r[i - 0 - 1]
    BY <1>1 DEF JoinsAround
  <2>2. \A i \in 1 .. k + 1 : ~(i <= 0) /\ i - 0 - 1 = i - 1
    BY <1>1
  <2> QED
    BY <2>1, <2>2
<1>4. Len(u) = n - 1 /\ \A i \in 1 .. n - 1 : u[i] = l[i]
  BY <1>1 DEF Drops
<1>5. e = l[n]
  OBVIOUS
<1> HIDE DEF n, k
<1>6. ASSUME NEW i \in 1 .. Len(z)
      PROVE  z[i] = IF i <= n - 1 THEN u[i] ELSE IF i = n - 1 + 1 THEN e ELSE w[i - (n - 1) - 1]
  <2>1. CASE i <= n - 1
    BY <1>1, <1>2, <1>4, <2>1
  <2>2. CASE i = n
    BY <1>1, <1>2, <1>5, <2>2
  <2>3. CASE i = n + 1
    <3>1. i - (n - 1) - 1 = 1 /\ 1 \in 1 .. k + 1
      BY <1>1, <2>3
    <3>2. w[i - (n - 1) - 1] = t
      BY <1>3, <3>1
    <3> QED
      BY <1>1, <1>2, <2>3, <3>2
  <2>4. CASE i > n + 1
    <3>1. i - (n - 1) - 1 \in 1 .. k + 1 /\ i - (n - 1) - 1 # 1 /\ i - (n - 1) - 1 - 1 = i - n - 1
      BY <1>1, <1>2, <2>4
    <3>2. w[i - (n - 1) - 1] = r[i - n - 1]
      BY <1>3, <3>1
    <3>3. z[i] = r[i - n - 1]
      BY <1>1, <1>2, <2>4
    <3> QED
      BY <1>1, <2>4, <3>2, <3>3
  <2> QED
    BY <1>1, <1>2, <2>1, <2>2, <2>3, <2>4
<1>7. Len(z) = Len(u) + 1 + Len(w)
  BY <1>1, <1>2, <1>3, <1>4
<1> QED
  BY <1>4, <1>6, <1>7 DEF JoinsAround

\* A child goes to the left neighbour, or to the right one.
LEMMA ChildMoves ==
    ASSUME NEW S, NEW l \in Seq(S), NEW r \in Seq(S), NEW K, K = l \o r, NEW c, NEW d
    PROVE  /\ Len(r) >= 1 /\ JoinsAround(c, l, r[1], <<>>) /\ Drops(d, r, 0)
                 => Part(c, K, 0) /\ Part(d, K, Len(l) + 1)
           /\ Len(l) >= 1 /\ Drops(c, l, Len(l) - 1) /\ JoinsAround(d, <<>>, l[Len(l)], r)
                 => Part(c, K, 0) /\ Part(d, K, Len(l) - 1)
<1> DEFINE n == Len(l)
           k == Len(r)
<1>1. n \in Nat /\ k \in Nat /\ Len(<<>>) = 0
  OBVIOUS
<1>2. Len(K) = n + k /\ \A i \in 1 .. n + k : K[i] = IF i <= n THEN l[i] ELSE r[i - n]
  BY JoinedAt
<1>3. ASSUME k >= 1, JoinsAround(c, l, r[1], <<>>), Drops(d, r, 0)
      PROVE  Part(c, K, 0) /\ Part(d, K, n + 1)
  <2>1. /\ Len(c) = n + 1
        /\ \A i \in 1 .. n + 1 : c[i] = IF i <= n THEN l[i] ELSE IF i = n + 1 THEN r[1] ELSE <<>>[i - n - 1]
    BY <1>1, <1>3 DEF JoinsAround
  <2>2. Len(d) = k - 1 /\ \A i \in 1 .. k - 1 : d[i] = r[i + 1]
    BY <1>1, <1>3 DEF Drops
  <2> HIDE DEF n, k
  <2>3. ASSUME NEW i \in 1 .. n + 1 PROVE c[i] = K[0 + i]
    <3>1. CASE i <= n
      BY <1>1, <1>2, <1>3, <2>1, <3>1
    <3>2. CASE i = n + 1
      <4>1. i \in 1 .. n + k /\ ~(i <= n) /\ i - n = 1 /\ 0 + i = i
        BY <1>1, <1>3, <3>2
      <4> QED
        BY <1>2, <2>1, <3>2, <4>1
    <3>3. i <= n \/ i = n + 1
      BY <1>1
    <3> QED
      BY <3>1, <3>2, <3>3
  <2>4. ASSUME NEW i \in 1 .. k - 1 PROVE d[i] = K[n + 1 + i]
    <3>1. PICK m : m = n + 1 + i
      OBVIOUS
    <3>2. m \in 1 .. n + k /\ ~(m <= n) /\ m - n = i + 1
      BY <1>1, <3>1
    <3>3. K[m] = r[i + 1]
      BY <1>2, <3>2
    <3> QED
      BY <2>2, <3>1, <3>3
  <2>5. 0 + Len(c) <= Len(K) /\ n + 1 + Len(d) <= Len(K)
    BY <1>1, <1>2, <1>3, <2>1, <2>2
  <2> QED
    BY <2>1, <2>2, <2>3, <2>4, <2>5 DEF Part
<1>4. ASSUME n >= 1, Drops(c, l, n - 1), JoinsAround(d, <<>>, l[n], r)
      PROVE  Part(c, K, 0) /\ Part(d, K, n - 1)
  <2>1. Len(c) = n - 1 /\ \A i \in 1 .. n - 1 : c[i] = l[i]
    BY <1>1, <1>4 DEF Drops
  <2>2. /\ Len(d) = k + 1
        /\ \A i \in 1 .. k + 1 : d[i] = IF i <= 0 THEN <<>>[i] ELSE IF i = 1 THEN l[n] ELSE r[i - 0 - 1]
    BY <1>1, <1>4 DEF JoinsAround
  <2> HIDE DEF n, k
  <2>3. ASSUME NEW i \in 1 .. n - 1 PROVE c[i] = K[0 + i]
    BY <1>1, <1>2, <2>1
  <2>4. ASSUME NEW i \in 1 .. k + 1 PROVE d[i] = K[n - 1 + i]
    <3>0. PICK m : m = n - 1 + i
      OBVIOUS
    <3>1. m \in 1 .. n + k /\ ~(i <= 0) /\ i - 0 - 1 = i - 1 /\ m - n = i - 1
      BY <1>1, <1>4, <3>0
    <3>2. CASE i = 1
      <4>1. m = n /\ m <= n
        BY <1>1, <3>0, <3>2
      <4> QED
        BY <1>2, <2>2, <3>0, <3>1, <3>2, <4>1
    <3>3. CASE i # 1
      <4>1. ~(m <= n)
        BY <1>1, <3>0, <3>3
      <4>2. K[m] = r[i - 1]
        BY <1>2, <3>1, <4>1
      <4>3. d[i] = r[i - 1]
        BY <2>2, <3>1, <3>3
      <4> QED
        BY <3>0, <4>2, <4>3
    <3> QED
      BY <3>2, <3>3
  <2>5. 0 + Len(c) <= Len(K) /\ n - 1 + Len(d) <= Len(K)
    BY <1>1, <1>2, <1>4, <2>1, <2>2
  <2> QED
    BY <2>1, <2>2, <2>3, <2>4, <2>5 DEF Part
<1> QED
  BY <1>3, <1>4

\* cur takes a value, and a child, from the neighbour on its right.
LEMMA TakesLast ==
    ASSUME cur \in Node, NEW n \in Node, Shaped(cur), Shaped(n), n.leaf = cur.leaf,
           Len(n.values) >= 1, NEW t \in Tuple, NEW e, e = n.values[1],
           Range(TakeLast(t, n).children) \cup Range(LendFirst(n).children)
               \subseteq Range(cur.children) \cup Range(n.children)
    PROVE  /\ Shares(cur, n, t, TakeLast(t, n), LendFirst(n), e)
           /\ Drops(LendFirst(n).values, n.values, 0)
<1> DEFINE m == TakeLast(t, n)
           o == LendFirst(n)
           S == Ids \ {rootId}
           l == cur.values
           r == n.values
           kl == cur.children
           kr == n.children
           K == kl \o kr
<1>1. /\ l \in Seq(Tuple) /\ kl \in Seq(S) /\ r \in Seq(Tuple) /\ kr \in Seq(S)
      /\ cur.leaf \in BOOLEAN /\ Len(l) \in Nat /\ Len(r) \in Nat /\ Len(kl) \in Nat /\ Len(kr) \in Nat
  BY NodeParts
<1>2. /\ cur.leaf => kl = <<>> /\ kr = <<>>
      /\ ~cur.leaf => Len(kl) = Len(l) + 1 /\ Len(kr) = Len(r) + 1
  BY DEF Shaped
<1>3. /\ m.values = Append(l, t) /\ m.children = IF cur.leaf THEN kl ELSE Append(kl, kr[1])
      /\ o.values = popFirst(r) /\ o.children = IF cur.leaf THEN kr ELSE popFirst(kr)
  BY DEF TakeLast, LendFirst, Node
<1>4. Range(m.children) \cup Range(o.children) \subseteq Range(kl) \cup Range(kr)
  OBVIOUS
<1>5. e = r[1] /\ Len(r) >= 1
  OBVIOUS
<1>6. PICK z : z = l \o <<t>> \o r
  OBVIOUS
<1> HIDE DEF m, o, l, r, kl, kr, S
<1>7. z \in Seq(Tuple) /\ JoinsAround(z, l, t, r)
  BY <1>1, <1>6, JoinedAroundAt
<1>8. JoinsAround(m.values, l, t, <<>>) /\ Len(m.values) = Len(l) + 1
  <2>1. JoinsAround(m.values, l, t, <<>>)
    BY <1>1, <1>3, AppendAt
  <2> QED
    BY <1>1, <2>1 DEF JoinsAround
<1>9. Drops(o.values, r, 0) /\ Len(o.values) = Len(r) - 1
  <2>1. PICK p \in Nat : p = 0
    OBVIOUS
  <2>2. p < Len(r) /\ o.values = pop(r, p)
    BY <1>1, <1>3, <1>5, <2>1 DEF popFirst
  <2>3. Drops(o.values, r, p)
    BY <1>1, <2>2, PopAt
  <2> QED
    BY <2>1, <2>3 DEF Drops
<1>10. JoinsAround(z, m.values, e, o.values)
  BY <1>1, <1>5, <1>7, <1>8, <1>9, FirstMoves
<1>11. /\ Cuts(m.children, K, 0) /\ Len(m.children) <= Len(m.values) + 1
       /\ Cuts(o.children, K, Len(m.values) + 1) /\ Len(o.children) <= Len(o.values) + 1
  <2>1. CASE cur.leaf
    <3>1. m.children = <<>> /\ o.children = <<>>
      BY <1>2, <1>3, <2>1
    <3>2. Len(m.children) = 0 /\ Len(o.children) = 0
      BY <3>1
    <3> QED
      BY <1>1, <1>5, <1>8, <1>9, <3>1, <3>2 DEF Cuts
  <2>2. CASE ~cur.leaf
    <3>1. Len(kl) = Len(l) + 1 /\ Len(kr) = Len(r) + 1 /\ Len(kr) >= 1 /\ kr[1] \in S
      BY <1>1, <1>2, <2>2
    <3>2. JoinsAround(m.children, kl, kr[1], <<>>) /\ Len(m.children) = Len(kl) + 1
      <4>1. m.children = Append(kl, kr[1])
        BY <1>3, <2>2
      <4>2. JoinsAround(m.children, kl, kr[1], <<>>)
        BY <1>1, <3>1, <4>1, AppendAt
      <4> QED
        BY <1>1, <4>2 DEF JoinsAround
    <3>3. Drops(o.children, kr, 0) /\ Len(o.children) = Len(kr) - 1
      <4>1. PICK p \in Nat : p = 0
        OBVIOUS
      <4>2. p < Len(kr) /\ o.children = pop(kr, p)
        BY <1>1, <1>3, <2>2, <3>1, <4>1 DEF popFirst
      <4>3. Drops(o.children, kr, p)
        BY <1>1, <4>2, PopAt
      <4> QED
        BY <4>1, <4>3 DEF Drops
    <3>4. Part(m.children, K, 0) /\ Part(o.children, K, Len(kl) + 1)
      BY <1>1, <3>1, <3>2, <3>3, ChildMoves
    <3>5. Len(m.values) + 1 = Len(kl) + 1
      BY <1>8, <3>1
    <3>6. Len(m.children) <= Len(m.values) + 1 /\ Len(o.children) <= Len(o.values) + 1
      BY <1>1, <1>8, <1>9, <3>1, <3>2, <3>3
    <3> HIDE DEF K
    <3> QED
      BY <3>4, <3>5, <3>6 DEF Cuts
  <2> QED
    BY <2>1, <2>2
<1> HIDE DEF K
<1>12. CutInto(z, K, m.values, m.children, e, o.values, o.children)
  BY <1>10, <1>11 DEF CutInto
<1>13. Shares(cur, n, t, m, o, e)
  BY <1>4, <1>7, <1>12 DEF Shares, K, l, r, kl, kr
<1> QED
  BY <1>9, <1>13 DEF m, o, r

\* cur takes a value, and a child, from the neighbour on its left.
LEMMA TakesFirst ==
    ASSUME cur \in Node, NEW n \in Node, Shaped(cur), Shaped(n), n.leaf = cur.leaf,
           Len(n.values) >= 1, NEW t \in Tuple, NEW e, e = Final(n.values),
           Range(TakeFirst(t, n).children) \cup Range(LendLast(n).children)
               \subseteq Range(cur.children) \cup Range(n.children)
    PROVE  /\ Shares(n, cur, t, LendLast(n), TakeFirst(t, n), e)
           /\ Drops(LendLast(n).values, n.values, Len(n.values) - 1)
<1> DEFINE m == LendLast(n)
           o == TakeFirst(t, n)
           S == Ids \ {rootId}
           l == n.values
           r == cur.values
           kl == n.children
           kr == cur.children
           K == kl \o kr
<1>1. /\ l \in Seq(Tuple) /\ kl \in Seq(S) /\ r \in Seq(Tuple) /\ kr \in Seq(S)
      /\ cur.leaf \in BOOLEAN /\ Len(l) \in Nat /\ Len(r) \in Nat /\ Len(kl) \in Nat /\ Len(kr) \in Nat
  BY NodeParts
<1>2. /\ cur.leaf => kl = <<>> /\ kr = <<>>
      /\ ~cur.leaf => Len(kl) = Len(l) + 1 /\ Len(kr) = Len(r) + 1
  BY DEF Shaped
<1>3. /\ m.values = popLast(l) /\ m.children = IF cur.leaf THEN kl ELSE popLast(kl)
      /\ o.values = prepend(r, t) /\ o.children = IF cur.leaf THEN kr ELSE prepend(kr, Final(kl))
  BY DEF TakeFirst, LendLast, Node
<1>4. Range(m.children) \cup Range(o.children) \subseteq Range(kl) \cup Range(kr)
  OBVIOUS
<1>5. e = l[Len(l)] /\ Len(l) >= 1
  BY DEF Final
<1>6. PICK z : z = l \o <<t>> \o r
  OBVIOUS
<1> HIDE DEF m, o, l, r, kl, kr, S
<1>7. z \in Seq(Tuple) /\ JoinsAround(z, l, t, r)
  BY <1>1, <1>6, JoinedAroundAt
<1>8. JoinsAround(o.values, <<>>, t, r) /\ Len(o.values) = Len(r) + 1
  <2>1. o.values \in Seq(Tuple) /\ JoinsAround(o.values, <<>>, t, r) /\ Len(o.values) = Len(r) + 1
    BY <1>1, <1>3, PrependAt, PrependType
  <2> QED
    BY <2>1
<1>9. Drops(m.values, l, Len(l) - 1) /\ Len(m.values) = Len(l) - 1
  <2>1. l # <<>>
    BY <1>1, <1>5
  <2>2. Drops(m.values, l, Len(l) - 1)
    BY <1>1, <1>3, <2>1, PopLastDrops
  <2> QED
    BY <2>2 DEF Drops
<1>10. JoinsAround(z, m.values, e, o.values)
  BY <1>1, <1>5, <1>7, <1>8, <1>9, LastMoves
<1>11. /\ Cuts(m.children, K, 0) /\ Len(m.children) <= Len(m.values) + 1
       /\ Cuts(o.children, K, Len(m.values) + 1) /\ Len(o.children) <= Len(o.values) + 1
  <2>1. CASE cur.leaf
    <3>1. m.children = <<>> /\ o.children = <<>>
      BY <1>2, <1>3, <2>1
    <3>2. Len(m.children) = 0 /\ Len(o.children) = 0
      BY <3>1
    <3> QED
      BY <1>1, <1>5, <1>8, <1>9, <3>1, <3>2 DEF Cuts
  <2>2. CASE ~cur.leaf
    <3>1. Len(kl) = Len(l) + 1 /\ Len(kr) = Len(r) + 1 /\ Len(kl) >= 1 /\ kl # <<>>
      BY <1>1, <1>2, <2>2
    <3>2. Drops(m.children, kl, Len(kl) - 1) /\ Len(m.children) = Len(kl) - 1
      <4>1. m.children = popLast(kl)
        BY <1>3, <2>2
      <4>2. Drops(m.children, kl, Len(kl) - 1)
        BY <1>1, <3>1, <4>1, PopLastDrops
      <4> QED
        BY <4>2 DEF Drops
    <3>3. JoinsAround(o.children, <<>>, kl[Len(kl)], kr) /\ Len(o.children) = Len(kr) + 1
      <4>1. PICK c \in S : c = kl[Len(kl)]
        BY <1>1, <3>1
      <4>2. o.children = prepend(kr, c)
        BY <1>3, <2>2, <4>1 DEF Final
      <4>3. JoinsAround(o.children, <<>>, c, kr) /\ Len(o.children) = Len(kr) + 1
        BY <1>1, <4>2, PrependAt, PrependType
      <4> QED
        BY <4>1, <4>3
    <3>4. Part(m.children, K, 0) /\ Part(o.children, K, Len(kl) - 1)
      BY <1>1, <3>1, <3>2, <3>3, ChildMoves
    <3>5. Len(m.values) + 1 = Len(kl) - 1
      BY <1>1, <1>9, <3>1
    <3>6. Len(m.children) <= Len(m.values) + 1 /\ Len(o.children) <= Len(o.values) + 1
      BY <1>1, <1>8, <1>9, <3>1, <3>2, <3>3
    <3> HIDE DEF K
    <3> QED
      BY <3>4, <3>5, <3>6 DEF Cuts
  <2> QED
    BY <2>1, <2>2
<1> HIDE DEF K
<1>12. CutInto(z, K, m.values, m.children, e, o.values, o.children)
  BY <1>10, <1>11 DEF CutInto
<1>13. Shares(n, cur, t, m, o, e)
  BY <1>4, <1>7, <1>12 DEF Shares, K, l, r, kl, kr
<1> QED
  BY <1>9, <1>13 DEF m, o, l

\* The keys of a node that lost one, or that got another one, come from where they were.
LEMMA DroppedHeld ==
    ASSUME NEW n, n.values \in Seq(Tuple), NEW q \in Nat, q < Len(n.values),
           NEW m, Drops(m.values, n.values, q), m.values \in Seq(Tuple)
    PROVE  \A i \in DOMAIN m.values : Holds(n, m.values[i].First)
<1> SUFFICES ASSUME NEW i \in DOMAIN m.values PROVE Holds(n, m.values[i].First)
  OBVIOUS
<1>1. i \in 1 .. Len(n.values) - 1
  BY DEF Drops
<1>2. m.values[i] = IF i <= q THEN n.values[i] ELSE n.values[i + 1]
  BY <1>1 DEF Drops
<1>3. i \in DOMAIN n.values /\ i + 1 \in DOMAIN n.values
  BY <1>1
<1> QED
  BY <1>2, <1>3 DEF Holds

LEMMA SwappedHeld ==
    ASSUME NEW n, n.values \in Seq(Tuple), NEW q, NEW e,
           NEW m, Swaps(m.values, n.values, e, q), m.values \in Seq(Tuple)
    PROVE  \A i \in DOMAIN m.values : m.values[i] = e \/ Holds(n, m.values[i].First)
<1> SUFFICES ASSUME NEW i \in DOMAIN m.values PROVE m.values[i] = e \/ Holds(n, m.values[i].First)
  OBVIOUS
<1>1. i \in 1 .. Len(m.values) /\ i \in DOMAIN n.values
  BY DEF Swaps
<1>2. m.values[i] = IF i = q + 1 THEN e ELSE n.values[i]
  BY <1>1 DEF Swaps
<1> QED
  BY <1>1, <1>2 DEF Holds

LEMMA DrawnThree ==
    ASSUME NEW N, NEW n, NEW p, NEW m, Drawn(n, N, p.id), Drawn(n, N, m.id), Drawn(p, N, m.id)
    PROVE  DrawnQueue(N, <<persist(n), persist(p), persist(m)>>)
<1> DEFINE t == <<persist(n), persist(p), persist(m)>>
<1>1. ASSUME NEW k \in DOMAIN t, NEW l \in DOMAIN t, k < l
      PROVE  \/ t[k] = persist(n) /\ t[l] = persist(p)
             \/ t[k] = persist(n) /\ t[l] = persist(m)
             \/ t[k] = persist(p) /\ t[l] = persist(m)
  <2>1. (k = 1 /\ l = 2) \/ (k = 1 /\ l = 3) \/ (k = 2 /\ l = 3)
    BY <1>1
  <2> QED
    BY <2>1
<1>2. persist(n).node = n /\ persist(p).node = p
      /\ (\A j : Concerns(persist(m), j) => j = m.id) /\ (\A j : Concerns(persist(p), j) => j = p.id)
  BY CallShapes DEF Concerns
<1> HIDE DEF t
<1>3. ASSUME NEW k \in DOMAIN t, NEW l \in DOMAIN t, t[k].call = "Persist", k < l,
             NEW j \in DOMAIN N \ {t[k].node.id}, Concerns(t[l], j)
      PROVE  Drawn(t[k].node, N, j)
  BY <1>1, <1>2, <1>3
<1>4. DrawnQueue(N, t)
  BY <1>3 DEF DrawnQueue
<1> QED
  BY <1>4 DEF t

LEMMA DrawnMerge ==
    ASSUME NEW N, NEW p, NEW i, NEW m, Drawn(p, N, i), Drawn(p, N, m.id)
    PROVE  DrawnQueue(N, <<persist(p), remove(i), persist(m)>>)
<1> DEFINE t == <<persist(p), remove(i), persist(m)>>
<1>1. ASSUME NEW k \in DOMAIN t, NEW l \in DOMAIN t, k < l
      PROVE  \/ t[k] = persist(p) /\ t[l] = remove(i)
             \/ t[k] = persist(p) /\ t[l] = persist(m)
             \/ t[k] = remove(i)
  <2>1. (k = 1 /\ l = 2) \/ (k = 1 /\ l = 3) \/ (k = 2 /\ l = 3)
    BY <1>1
  <2> QED
    BY <2>1
<1>2. persist(p).node = p /\ remove(i).call # "Persist"
      /\ (\A j : Concerns(persist(m), j) => j = m.id) /\ (\A j : Concerns(remove(i), j) => j = i)
  BY CallShapes DEF Concerns
<1> HIDE DEF t
<1>3. ASSUME NEW k \in DOMAIN t, NEW l \in DOMAIN t, t[k].call = "Persist", k < l,
             NEW j \in DOMAIN N \ {t[k].node.id}, Concerns(t[l], j)
      PROVE  Drawn(t[k].node, N, j)
  BY <1>1, <1>2, <1>3
<1>4. DrawnQueue(N, t)
  BY <1>3 DEF DrawnQueue
<1> QED
  BY <1>4 DEF t

LEMMA DrawnCollapse ==
    ASSUME NEW N, NEW i, NEW d, NEW j, NEW m
    PROVE  DrawnQueue(N, <<remove(i), updateDepth(d), remove(j), persist(m)>>)
<1> DEFINE t == <<remove(i), updateDepth(d), remove(j), persist(m)>>
<1>1. ASSUME NEW k \in DOMAIN t, NEW l \in DOMAIN t, k < l
      PROVE  t[k] = remove(i) \/ t[k] = updateDepth(d) \/ t[k] = remove(j)
  <2>1. k = 1 \/ k = 2 \/ k = 3
    BY <1>1
  <2> QED
    BY <2>1
<1>2. remove(i).call # "Persist" /\ updateDepth(d).call # "Persist" /\ remove(j).call # "Persist"
  BY CallShapes
<1> HIDE DEF t
<1>3. DrawnQueue(N, t)
  BY <1>1, <1>2 DEF DrawnQueue
<1> QED
  BY <1>3 DEF t

\* What the steps of the balancing that queue calls leave.
LEMMA LevelRests ==
    ASSUME faults = 0, NEW n, NextLevel(n)
    PROVE  nodes' = nodes /\ issued' = issued /\ faults' = 0 /\ pc' \in {"done", "fix"}
<1>1. AfterLevel /\ Compute
  BY DEF NextLevel
<1>2. pc' = "done" \/ pc' = "fix"
  BY <1>1 DEF AfterLevel, Finish, Goto
<1> QED
  BY <1>1, <1>2 DEF Compute

\* The tree whose repair is due.
LEMMA AtRepair2 ==
    ASSUME Order, faults = 0, At("fix"), NEW h, NEW v, NEW s, Repairs(h, v, s)
    PROVE  \E weak, Lo, Hi : SearchTree(nodes, h, weak, Lo, Hi)
<1>1. PICK Lo, Hi : Ordered(Grown(nodes), Lo, Hi)
  BY AtOrder DEF At
<1>2. Grown(nodes) = nodes
  BY DEF Grown, At
<1>3. Typed(nodes) /\ Balanced(nodes, h, {cur.id})
  BY DEF Repairs, Rests
<1>4. PICK weak : Balanced(nodes, h, weak)
  BY <1>3
<1> QED
  BY <1>1, <1>2, <1>3, <1>4 DEF SearchTree

Alike(n, m) == Shaped(n) /\ Shaped(m) /\ n.leaf = m.leaf
KeySwapped(n, m, q, e) == n.values = swap(m.values, q, e) /\ n.children = m.children

LEMMA NeighbourParts ==
    ASSUME NEW W, Typed(W), NEW v, NEW q, NEW x, NEW y, NEW t, Neighbours(W, v, q, x, y, t)
    PROVE  /\ v \in DOMAIN W /\ q \in Nat /\ q < Len(W[v].values)
           /\ t = W[v].values[q + 1]
<1>1. /\ q \in Nat /\ q + 2 \in DOMAIN W[v].children /\ v \in DOMAIN W
      /\ Len(W[v].children) <= Len(W[v].values) + 1
  BY DEF Neighbours
<1>2. W[v].children \in Seq(Ids \ {rootId}) /\ Len(W[v].values) \in Nat
  BY <1>1, TypedNode
<1>3. Len(W[v].children) \in Nat /\ q + 2 <= Len(W[v].children)
  BY <1>1, <1>2
<1>4. q < Len(W[v].values)
  BY <1>1, <1>2, <1>3
<1> QED
  BY <1>1, <1>4 DEF Neighbours

LEMMA MoveAt ==
    ASSUME NEW W, NEW h, NEW weak, NEW Lo, NEW Hi, SearchTree(W, h, weak, Lo, Hi),
           NEW v, NEW q, NEW x, NEW y, NEW t, Neighbours(W, v, q, x, y, t), Alike(W[x], W[y]),
           NEW e \in Tuple, NEW U, Typed(U), Rewrites(W, U, {x, y, v}),
           Shares(W[x], W[y], t, U[x], U[y], e), KeySwapped(U[v], W[v], q, e)
    PROVE  \E Lo2, Hi2 : Ordered(U, Lo2, Hi2)
BY MoveOrder DEF Neighbours, Alike, KeySwapped

LEMMA MovesAt ==
    ASSUME NEW W, NEW U, Typed(W), Typed(U), NEW v, NEW q,
           NEW x \in DOMAIN W, NEW y \in DOMAIN W, NEW t,
           Neighbours(W, v, q, x, y, t), x # y, x # v, y # v, NEW e, Rewrites(W, U, {x, y, v}),
           Shares(W[x], W[y], t, U[x], U[y], e), KeySwapped(U[v], W[v], q, e), e \in Tuple
    PROVE  Tuples(U) = Tuples(W)
<1>1. /\ v \in DOMAIN W /\ q \in Nat /\ q < Len(W[v].values)
      /\ t = W[v].values[q + 1]
  BY NeighbourParts
<1>2. Swaps(U[v].values, W[v].values, e, q)
  <2>1. W[v].values \in Seq(Tuple)
    BY <1>1, ValuesAt
  <2> QED
    BY <1>1, <2>1, SwapAt DEF KeySwapped
<1> QED
  BY <1>1, <1>2, MoveTuples

\* cur and its sibling share out what they hold.
Lends(q, x, y, t, e, s, lent, taken) ==
    \/ x = cur.id /\ y = s /\ Shares(nodes[x], nodes[y], t, taken, lent, e)
    \/ x = s /\ y = cur.id /\ Shares(nodes[x], nodes[y], t, lent, taken, e)

LEMMA BorrowOrder ==
    ASSUME IInv, IInv', Structure', Order, faults = 0, At("fix"), NEW h, NEW v, NEW s, Repairs(h, v, s),
           NEW q, NEW x, NEW y, NEW t, Neighbours(nodes, v, q, x, y, t),
           NEW e \in Tuple, Holds(nodes[s], e.First), NEW lent, NEW parent, NEW taken,
           lent.id = s, parent.id = v, taken.id = cur.id, parent \in Node,
           \A i \in DOMAIN lent.values : Holds(nodes[s], lent.values[i].First),
           parent.values = swap(nodes[v].values, q, e), parent.children = nodes[v].children,
           Lends(q, x, y, t, e, s, lent, taken),
           todo' = <<persist(lent), persist(parent), persist(taken)>>, NextLevel(parent)
    PROVE  Order' /\ Leaves(Tuples(nodes))
<1> DEFINE c == cur.id
           calls == <<persist(lent), persist(parent), persist(taken)>>
<1>1. nodes' = nodes /\ issued' = issued /\ faults' = 0 /\ pc' \in {"done", "fix"}
  BY LevelRests
<1>2. PICK weak, Lo, Hi : SearchTree(nodes, h, weak, Lo, Hi)
  BY AtRepair2
<1>3. /\ {c, s, v} \subseteq DOMAIN nodes /\ c # s /\ c # v /\ s # v /\ nodes[c] = cur
      /\ nodes[s].leaf = cur.leaf /\ Shaped(nodes[s]) /\ Shaped(cur) /\ Typed(nodes)
  BY DEF Repairs, Rests, NodeOK
<1>4. s \in Ids /\ v \in Ids /\ c \in Ids
  BY <1>3 DEF Typed
<1>5. x \in DOMAIN nodes /\ y \in DOMAIN nodes /\ {x, y} = {c, s}
      /\ Shaped(nodes[x]) /\ Shaped(nodes[y]) /\ nodes[x].leaf = nodes[y].leaf
  BY <1>3 DEF Lends
<1>6. ASSUME NEW V, Leads(nodes, calls, V), Typed(V)
      PROVE  Tuples(V) = Tuples(nodes) /\ \E L, H : Ordered(V, L, H)
  <2>1. V[s] = lent /\ V[v] = parent /\ V[c] = taken /\ Becomes(nodes, V, {s, v, c}, {})
    BY <1>4, <1>6, LedThree
  <2>2. Rewrites(nodes, V, {x, y, v})
    BY <1>3, <1>5, <2>1 DEF Becomes, Rewrites
  <2>3. Shares(nodes[x], nodes[y], t, V[x], V[y], e)
    BY <2>1 DEF Lends
  <2>4. Alike(nodes[x], nodes[y])
    BY <1>5 DEF Alike
  <2>5. KeySwapped(V[v], nodes[v], q, e)
    BY <2>1 DEF KeySwapped
  <2> HIDE DEF c, calls
  <2>6. \E L, H : Ordered(V, L, H)
    BY <1>2, <1>6, <2>2, <2>3, <2>4, <2>5, MoveAt
  <2>7. x # y /\ x # v /\ y # v
    BY <1>3, <1>5
  <2>8. Tuples(V) = Tuples(nodes)
    BY <1>3, <1>5, <1>6, <2>2, <2>3, <2>5, <2>7, MovesAt
  <2> QED
    BY <2>6, <2>8
<1>7. DrawnQueue(nodes, calls)
  <2>1. \A j : j # s => Drawn(lent, nodes, j)
    BY <1>3 DEF Drawn
  <2>2. ASSUME NEW i \in DOMAIN parent.values
        PROVE  parent.values[i] = e \/ Holds(nodes[v], parent.values[i].First)
    <3>1. nodes[v].values \in Seq(Tuple) /\ parent.values \in Seq(Tuple) /\ v \in DOMAIN nodes
      BY <1>3, TypedNode, NodeParts
    <3>2. t \in Tuple /\ q \in Nat /\ q < Len(nodes[v].values)
      <4>1. /\ q \in Nat /\ q + 2 \in DOMAIN nodes[v].children
            /\ Len(nodes[v].children) <= Len(nodes[v].values) + 1
        BY DEF Neighbours
      <4>2. nodes[v].children \in Seq(Ids \ {rootId}) /\ Len(nodes[v].values) \in Nat
        BY <1>3, TypedNode
      <4>3. Len(nodes[v].children) \in Nat /\ q + 2 <= Len(nodes[v].children)
        BY <4>1, <4>2
      <4>4. q < Len(nodes[v].values)
        BY <4>1, <4>2, <4>3
      <4>5. t = nodes[v].values[q + 1] /\ q + 1 \in 1 .. Len(nodes[v].values)
        BY <4>1, <4>2, <4>4 DEF Neighbours
      <4> QED
        BY <3>1, <4>1, <4>4, <4>5
    <3>3. Swaps(parent.values, nodes[v].values, e, q)
      BY <3>1, <3>2, SwapAt
    <3> QED
      BY <2>2, <3>1, <3>3, SwappedHeld
  <2>3. Drawn(parent, nodes, c)
    BY <1>3, <2>2 DEF Drawn
  <2>4. Drawn(lent, nodes, parent.id) /\ Drawn(lent, nodes, taken.id) /\ Drawn(parent, nodes, taken.id)
    BY <1>3, <2>1, <2>3
  <2> QED
    BY <2>4, DrawnThree
<1>8. LeadsInOrder(calls)
  BY <1>6 DEF LeadsInOrder
<1> HIDE DEF calls
<1>9. todo' = calls
  BY DEF calls
<1>10. ASSUME NEW C, C = Tuples(nodes) PROVE Amounts(C)'
  <2>1. LeadsTo(calls, C)
    BY <1>6, <1>10 DEF LeadsTo, calls
  <2> QED
    BY <1>1, <1>9, <2>1, ToAmounts
<1>11. Order'
  BY <1>1, <1>7, <1>8, <1>9, ToQueued
<1> QED
  BY <1>10, <1>11 DEF Leaves

LEMMA NeighboursAt ==
    ASSUME NEW h, NEW v, NEW s, Repairs(h, v, s), NEW q \in Nat, q + 2 \in DOMAIN Parent.children,
           NEW x, Parent.children[q + 1] = x, NEW y, Parent.children[q + 2] = y,
           NEW t, Parent.values[q + 1] = t
    PROVE  Neighbours(nodes, v, q, x, y, t)
<1>1. v \in DOMAIN nodes /\ Parent = nodes[v] /\ NodeOK(nodes[v], h[v], NoRepair) /\ ~nodes[v].leaf
  BY DEF Repairs
<1>2. Len(nodes[v].children) = Len(nodes[v].values) + 1
  BY <1>1 DEF NodeOK, Shaped
<1>3. Typed(nodes)
  BY DEF Repairs, Rests
<1>4. Len(nodes[v].values) \in Nat
  BY <1>1, <1>3, TypedNode
<1>5. Len(nodes[v].children) <= Len(nodes[v].values) + 1
  BY <1>2, <1>4
<1> QED
  BY <1>1, <1>5 DEF Neighbours

LEMMA BorrowRightOrder ==
    ASSUME IInv, IInv', Structure, Structure', Order, faults = 0, BorrowRight
    PROVE  Order' /\ Leaves(Tuples(nodes))
<1> DEFINE v == Final(path).visitedNode
           s == Parent.children[2]
           sib == nodes[s]
           parent == [Parent EXCEPT !.values = swap(Parent.values, 0, sib.values[1])]
           lent == LendFirst(sib)
           taken == TakeLast(Parent.values[1], sib)
           C == FirstChild(sib)
<1>0. /\ at = 0 /\ Fixing(1) /\ CanLend(sib) /\ Parent.values # <<>>
      /\ todo' = <<persist(lent), persist(parent), persist(taken)>> /\ NextLevel(parent)
  BY DEF BorrowRight, Sibling
<1>1. 2 \in DOMAIN Parent.children /\ \E h : Repairs(h, v, s)
  <2>1. PICK m \in Nat : m = 1
    OBVIOUS
  <2>2. m # at /\ Fixing(m) /\ Parent.children[m + 1] = s /\ m + 1 = 2
    BY <1>0, <2>1
  <2>3. m + 1 \in DOMAIN Parent.children /\ \E h : Repairs(h, v, Parent.children[m + 1])
    BY <2>2, RepairStarts
  <2> QED
    BY <2>2, <2>3
<1>2. PICK h : Repairs(h, v, s)
  BY <1>1
<1> HIDE DEF v, s
<1>3. /\ Typed(nodes) /\ {cur.id, s, v} \subseteq DOMAIN nodes /\ Parent = nodes[v]
      /\ nodes[v].id = v /\ sib.id = s /\ s # rootId /\ cur.id # rootId /\ cur = nodes[cur.id]
      /\ NodeOK(cur, h[cur.id], {cur.id}) /\ NodeOK(sib, h[s], NoRepair)
      /\ NodeOK(nodes[v], h[v], NoRepair) /\ sib.leaf = cur.leaf
      /\ Range(sib.children) \cap Range(cur.children) = {} /\ Parent.children[at + 1] = cur.id
  BY <1>2 DEF Repairs, Rests
<1>4. sib \in Node /\ nodes[v] \in Node /\ cur \in Node
  BY <1>3, TypedNode
<1> HIDE DEF sib
<1>5. /\ lent.id = s /\ C \subseteq Range(sib.children) /\ Range(lent.children) = Range(sib.children) \ C
      /\ lent \in Node
  BY <1>0, <1>3, <1>4, LendKeeps
<1>6. PICK e, t : e = sib.values[1] /\ t = Parent.values[1]
  OBVIOUS
<1>7. e \in Tuple /\ t \in Tuple /\ 0 < Len(Parent.values) /\ Len(sib.values) >= 1
      /\ sib.values \in Seq(Tuple) /\ Len(sib.values) \in Nat
  <2>1. sib.values \in Seq(Tuple) /\ Parent.values \in Seq(Tuple) /\ Len(sib.values) >= 1
    BY <1>0, <1>3, <1>4, NodeParts, Parameters DEF CanLend
  <2> QED
    BY <1>0, <1>6, <2>1
<1>8. Shaped(sib) /\ Shaped(cur)
  BY <1>3 DEF NodeOK
<1>9. PICK q \in Nat : q = 0
  OBVIOUS
<1>10. /\ parent \in Node /\ parent.id = v /\ parent.children = nodes[v].children
       /\ parent.values = swap(nodes[v].values, q, e)
  <2>1. q < Len(nodes[v].values) /\ parent = [nodes[v] EXCEPT !.values = swap(nodes[v].values, q, e)]
    BY <1>3, <1>6, <1>7, <1>9
  <2> HIDE DEF parent
  <2>2. parent \in Node /\ parent.id = v /\ parent.children = nodes[v].children
    BY <1>3, <1>4, <1>7, <2>1, SwapKeeps
  <2>3. parent.values = swap(nodes[v].values, q, e)
    BY <1>4, <2>1 DEF Node
  <2> QED
    BY <2>2, <2>3
<1>11. taken = TakeLast(t, sib)
  BY <1>6
<1>12. taken.id = cur.id /\ Range(taken.children) = Range(cur.children) \cup C
  <2>1. PICK weak : NodeOK(cur, h[cur.id], weak)
    BY <1>3
  <2> HIDE DEF taken
  <2> QED
    BY <1>3, <1>4, <1>7, <1>8, <1>11, <2>1, TakeKeeps
<1> HIDE DEF lent, parent, taken, C
<1>13. /\ Shares(cur, sib, t, taken, lent, e)
       /\ Drops(lent.values, sib.values, 0)
  <2>1. Range(TakeLast(t, sib).children) \cup Range(LendFirst(sib).children)
           \subseteq Range(cur.children) \cup Range(sib.children)
    BY <1>5, <1>11, <1>12 DEF lent
  <2>2. sib.leaf = cur.leaf
    BY <1>3
  <2> QED
    BY <1>4, <1>6, <1>7, <1>8, <1>11, <2>1, <2>2, TakesLast DEF lent
<1>14. Neighbours(nodes, v, q, cur.id, s, t)
  <2>1. q + 1 = at + 1 /\ q + 2 = 2 /\ q + 1 = 1
    BY <1>0, <1>9
  <2>2. q + 2 \in DOMAIN Parent.children /\ Parent.children[q + 1] = cur.id
        /\ Parent.children[q + 2] = s /\ Parent.values[q + 1] = t
    BY <1>1, <1>3, <1>6, <2>1 DEF s
  <2> QED
    BY <1>2, <2>2, NeighboursAt
<1>15. Lends(q, cur.id, s, t, e, s, lent, taken)
  BY <1>3, <1>13 DEF Lends, sib
<1>16. \A i \in DOMAIN lent.values : Holds(nodes[s], lent.values[i].First)
  <2>1. q < Len(sib.values) /\ Drops(lent.values, sib.values, q) /\ lent.values \in Seq(Tuple)
    BY <1>5, <1>7, <1>9, <1>13, NodeParts
  <2>2. \A i \in DOMAIN lent.values : Holds(sib, lent.values[i].First)
    BY <1>7, <2>1, DroppedHeld
  <2> QED
    BY <2>2 DEF sib
<1>17. Holds(nodes[s], e.First)
  <2>1. 1 \in DOMAIN sib.values
    BY <1>7
  <2> QED
    BY <1>6, <2>1 DEF Holds, sib
<1>18. At("fix")
  BY <1>0 DEF Fixing
<1> QED
  BY <1>0, <1>2, <1>5, <1>7, <1>10, <1>12, <1>14, <1>15, <1>16, <1>17, <1>18, BorrowOrder

LEMMA BorrowLeftOrder ==
    ASSUME IInv, IInv', Structure, Structure', Order, faults = 0, BorrowLeft
    PROVE  Order' /\ Leaves(Tuples(nodes))
<1> DEFINE v == Final(path).visitedNode
           s == Parent.children[at - 1 + 1]
           sib == nodes[s]
           parent == [Parent EXCEPT !.values = swap(Parent.values, at - 1, Final(sib.values))]
           lent == LendLast(sib)
           taken == TakeFirst(Parent.values[at], sib)
           C == LastChild(sib)
<1>0. /\ at > 0 /\ Fixing(at - 1) /\ CanLend(sib) /\ Len(Parent.values) >= at
      /\ todo' = <<persist(lent), persist(parent), persist(taken)>> /\ NextLevel(parent)
  BY DEF BorrowLeft, Sibling
<1>a. at \in Nat
  BY Parts DEF LocalsOK
<1>9. PICK q \in Nat : q = at - 1
  BY <1>0, <1>a
<1>1. \E h : Repairs(h, v, s)
  <2>2. q # at /\ Fixing(q) /\ Parent.children[q + 1] = s
    BY <1>0, <1>9, <1>a
  <2> QED
    BY <2>2, RepairStarts
<1>2. PICK h : Repairs(h, v, s)
  BY <1>1
<1> HIDE DEF v, s
<1>3. /\ Typed(nodes) /\ {cur.id, s, v} \subseteq DOMAIN nodes /\ Parent = nodes[v]
      /\ nodes[v].id = v /\ sib.id = s /\ s # rootId /\ cur.id # rootId /\ cur = nodes[cur.id]
      /\ NodeOK(cur, h[cur.id], {cur.id}) /\ NodeOK(sib, h[s], NoRepair)
      /\ NodeOK(nodes[v], h[v], NoRepair) /\ sib.leaf = cur.leaf
      /\ Range(sib.children) \cap Range(cur.children) = {} /\ Parent.children[at + 1] = cur.id
      /\ at + 1 \in DOMAIN Parent.children
  BY <1>2 DEF Repairs, Rests
<1>4. sib \in Node /\ nodes[v] \in Node /\ cur \in Node
  BY <1>3, TypedNode
<1> HIDE DEF sib
<1>5. /\ lent.id = s /\ C \subseteq Range(sib.children) /\ Range(lent.children) = Range(sib.children) \ C
      /\ lent \in Node
  BY <1>0, <1>3, <1>4, LendKeeps
<1>6. PICK e, t : e = Final(sib.values) /\ t = Parent.values[at]
  OBVIOUS
<1>7. e \in Tuple /\ t \in Tuple /\ q < Len(Parent.values) /\ Len(sib.values) >= 1
      /\ sib.values \in Seq(Tuple) /\ Len(sib.values) \in Nat
  <2>1. sib.values \in Seq(Tuple) /\ Parent.values \in Seq(Tuple) /\ Len(sib.values) >= 1
        /\ Len(sib.values) \in Nat
    <3>1. sib.values \in Seq(Tuple) /\ Len(sib.values) \in Nat
      BY <1>4, NodeParts
    <3>2. Parent.values \in Seq(Tuple)
      BY <1>3, <1>4, NodeParts
    <3>3. Len(sib.values) >= 1
      BY <1>0, <3>1, Parameters DEF CanLend
    <3> QED
      BY <3>1, <3>2, <3>3
  <2>2. at \in 1 .. Len(Parent.values) /\ q < Len(Parent.values)
    BY <1>0, <1>9, <1>a, <2>1
  <2>3. Final(sib.values) \in Tuple
    BY <2>1 DEF Final
  <2> QED
    BY <1>6, <2>1, <2>2, <2>3
<1>8. Shaped(sib) /\ Shaped(cur)
  BY <1>3 DEF NodeOK
<1>10. /\ parent \in Node /\ parent.id = v /\ parent.children = nodes[v].children
       /\ parent.values = swap(nodes[v].values, q, e)
  <2>1. q < Len(nodes[v].values) /\ parent = [nodes[v] EXCEPT !.values = swap(nodes[v].values, q, e)]
    BY <1>3, <1>6, <1>7, <1>9
  <2> HIDE DEF parent
  <2>2. parent \in Node /\ parent.id = v /\ parent.children = nodes[v].children
    BY <1>3, <1>4, <1>7, <2>1, SwapKeeps
  <2>3. parent.values = swap(nodes[v].values, q, e)
    BY <1>4, <2>1 DEF Node
  <2> QED
    BY <2>2, <2>3
<1>11. taken = TakeFirst(t, sib)
  BY <1>6
<1>12. taken.id = cur.id /\ Range(taken.children) = Range(cur.children) \cup C
  <2>1. PICK weak : NodeOK(cur, h[cur.id], weak)
    BY <1>3
  <2> HIDE DEF taken
  <2> QED
    BY <1>3, <1>4, <1>7, <1>8, <1>11, <2>1, TakeKeeps
<1> HIDE DEF lent, parent, taken, C
<1>13. /\ Shares(sib, cur, t, lent, taken, e)
       /\ Drops(lent.values, sib.values, Len(sib.values) - 1)
  <2>1. Range(TakeFirst(t, sib).children) \cup Range(LendLast(sib).children)
           \subseteq Range(cur.children) \cup Range(sib.children)
    BY <1>5, <1>11, <1>12 DEF lent
  <2>2. sib.leaf = cur.leaf
    BY <1>3
  <2> QED
    BY <1>4, <1>6, <1>7, <1>8, <1>11, <2>1, <2>2, TakesFirst DEF lent
<1>14. Neighbours(nodes, v, q, s, cur.id, t)
  <2>1. q + 2 = at + 1 /\ q + 1 = at /\ q + 1 = at - 1 + 1
    BY <1>9, <1>a
  <2>2. q + 2 \in DOMAIN Parent.children /\ Parent.children[q + 1] = s
        /\ Parent.children[q + 2] = cur.id /\ Parent.values[q + 1] = t
    BY <1>3, <1>6, <2>1 DEF s
  <2> QED
    BY <1>2, <2>2, NeighboursAt
<1>15. Lends(q, s, cur.id, t, e, s, lent, taken)
  BY <1>3, <1>13 DEF Lends, sib
<1>16. \A i \in DOMAIN lent.values : Holds(nodes[s], lent.values[i].First)
  <2>0. PICK k \in Nat : k = Len(sib.values) - 1
    BY <1>7
  <2>1. k < Len(sib.values) /\ Drops(lent.values, sib.values, k) /\ lent.values \in Seq(Tuple)
    BY <1>5, <1>7, <1>13, <2>0, NodeParts
  <2>2. \A i \in DOMAIN lent.values : Holds(sib, lent.values[i].First)
    BY <1>7, <2>1, DroppedHeld
  <2> QED
    BY <2>2 DEF sib
<1>17. Holds(nodes[s], e.First)
  <2>1. Len(sib.values) \in DOMAIN sib.values
    BY <1>7
  <2> QED
    BY <1>6, <2>1 DEF Holds, sib, Final
<1>18. At("fix")
  BY <1>0 DEF Fixing
<1> QED
  BY <1>0, <1>2, <1>5, <1>7, <1>10, <1>12, <1>14, <1>15, <1>16, <1>17, <1>18, BorrowOrder

KeyDropped(n, m, q) == Drops(n.values, m.values, q) /\ Drops(n.children, m.children, q + 1)

LEMMA MergeAt ==
    ASSUME NEW W, NEW h, NEW weak, NEW Lo, NEW Hi, SearchTree(W, h, weak, Lo, Hi),
           NEW v, NEW q, NEW x, NEW y, NEW t, Neighbours(W, v, q, x, y, t), Alike(W[x], W[y]),
           NEW U, Typed(U), Absorbs(W, U, x, y, v), Unites(W[x], W[y], t, U[x]),
           KeyDropped(U[v], W[v], q)
    PROVE  \E Lo2, Hi2 : Ordered(U, Lo2, Hi2)
BY MergeOrder DEF Neighbours, Alike, KeyDropped

LEMMA MergesAt ==
    ASSUME NEW W, NEW U, Typed(W), Typed(U), NEW v, NEW q, NEW x \in DOMAIN W, NEW y \in DOMAIN W, NEW t,
           Neighbours(W, v, q, x, y, t), x # y, x # v, y # v, Absorbs(W, U, x, y, v),
           Unites(W[x], W[y], t, U[x]), KeyDropped(U[v], W[v], q)
    PROVE  Tuples(U) = Tuples(W)
<1>1. /\ v \in DOMAIN W /\ q \in Nat /\ q < Len(W[v].values)
      /\ t = W[v].values[q + 1]
  BY NeighbourParts
<1>2. Drops(U[v].values, W[v].values, q)
  BY DEF KeyDropped
<1> QED
  BY <1>1, <1>2, MergeTuples

\* The root has one key and two children.
LastKeyOf(n, x, y, t) == n.values = <<t>> /\ n.children = <<x, y>>
Remains(W, U) == DOMAIN U \subseteq DOMAIN W /\ \A j \in DOMAIN U \ {rootId} : U[j] = W[j]

LEMMA CollapseAt ==
    ASSUME NEW W, NEW h, NEW weak, NEW Lo, NEW Hi, SearchTree(W, h, weak, Lo, Hi),
           NEW x, NEW y, NEW t, LastKeyOf(W[rootId], x, y, t), Alike(W[x], W[y]),
           NEW U, Typed(U), Remains(W, U), Unites(W[x], W[y], t, U[rootId])
    PROVE  \E Lo2, Hi2 : Ordered(U, Lo2, Hi2)
<1> DEFINE n == W[rootId]
<1>1. /\ Len(n.values) = 1 /\ Len(n.children) = 2 /\ x = n.children[1] /\ y = n.children[2]
      /\ t = n.values[1]
  BY DEF LastKeyOf
<1>2. Shaped(W[x]) /\ Shaped(W[y]) /\ W[x].leaf = W[y].leaf
  BY DEF Alike
<1>3. Ordered(U, Lo, Hi)
  BY <1>1, <1>2, CollapseOrder DEF Remains
<1> QED
  BY <1>3

SamePair(l, r, x, y) == {l, r} = {x, y}

\* merge of the neighbours at positions q and q + 1.
LEMMA MergesOrder ==
    ASSUME IInv, IInv', Structure', Order, faults = 0, At("fix"), NEW h, NEW v, NEW s, Repairs(h, v, s),
           NEW q \in Nat, NEW l, NEW r, l # r, SamePair(l, r, cur.id, s),
           Parent.children[q + 1] = l, Parent.children[q + 2] = r,
           merge(q, nodes[l], nodes[r])
    PROVE  Order' /\ Leaves(Tuples(nodes))
<1> DEFINE left == nodes[l]
           right == nodes[r]
           t == Parent.values[q + 1]
           parent == [Parent EXCEPT !.values = pop(Parent.values, q),
                                    !.children = pop(Parent.children, q + 1)]
           merged == [left EXCEPT !.values = left.values \o <<t>> \o right.values,
                                  !.children = left.children \o right.children]
           top == [merged EXCEPT !.id = parent.id]
<1>0. /\ Len(Parent.values) > q /\ Len(Parent.children) > q + 1
      /\ todo' = IF Len(path) = 1 /\ parent.values = <<>>
                   THEN CollapseCalls(parent, left, right, merged)
                   ELSE MergeCalls(parent, left, right, merged)
      /\ NextLevel(parent)
  BY DEF merge
<1>1. nodes' = nodes /\ issued' = issued /\ faults' = 0 /\ pc' \in {"done", "fix"}
  BY <1>0, LevelRests
<1>2. PICK weak, Lo, Hi : SearchTree(nodes, h, weak, Lo, Hi)
  BY AtRepair2
<1>3. /\ {cur.id, s, v} \subseteq DOMAIN nodes /\ cur.id # s /\ cur.id # v /\ s # v /\ nodes[cur.id] = cur
      /\ nodes[s].leaf = cur.leaf /\ Shaped(nodes[s]) /\ Shaped(cur) /\ Typed(nodes)
      /\ Parent = nodes[v] /\ v = Final(path).visitedNode /\ path # <<>> /\ nodes[v].id = v
      /\ Shaped(nodes[v]) /\ ~nodes[v].leaf
  BY DEF Repairs, Rests, NodeOK
<1>4. (l = cur.id /\ r = s) \/ (l = s /\ r = cur.id)
  BY DEF SamePair
<1>5. /\ l \in DOMAIN nodes /\ r \in DOMAIN nodes /\ v \in DOMAIN nodes /\ l # v /\ r # v
      /\ Alike(left, right)
  BY <1>3, <1>4 DEF Alike
<1>6. /\ left \in Node /\ right \in Node /\ nodes[v] \in Node /\ left.id = l /\ right.id = r
      /\ l \in Ids /\ r \in Ids /\ v \in Ids
      /\ left.values \in Seq(Tuple) /\ right.values \in Seq(Tuple) /\ nodes[v].values \in Seq(Tuple)
      /\ left.children \in Seq(Ids \ {rootId}) /\ right.children \in Seq(Ids \ {rootId})
      /\ nodes[v].children \in Seq(Ids \ {rootId})
  BY <1>3, <1>5, TypedNode
<1>7. t \in Tuple /\ q + 2 \in DOMAIN Parent.children
  <2>1. Parent.values \in Seq(Tuple) /\ Parent.children \in Seq(Ids \ {rootId})
    BY <1>3, <1>6
  <2> QED
    BY <1>0, <2>1
<1> HIDE DEF left, right, t
<1>8. Neighbours(nodes, v, q, l, r, t)
  BY <1>7, NeighboursAt DEF t
<1>9. merged.id = l /\ top.id = parent.id /\ Unites(left, right, t, merged) /\ Unites(left, right, t, top)
  <2> DEFINE z == left.values \o <<t>> \o right.values
             k == left.children \o right.children
  <2>1. JoinsAround(z, left.values, t, right.values)
    BY <1>6, <1>7, JoinedAroundAt
  <2>2. merged = [left EXCEPT !.values = z, !.children = k]
    OBVIOUS
  <2> HIDE DEF z
  <2>3. merged.id = l /\ merged.values = z /\ merged.children = k
    BY <1>6, <2>2 DEF Node
  <2>4. top.id = parent.id /\ top.values = z /\ top.children = k
    BY <1>6, <2>2 DEF Node
  <2> HIDE DEF merged, top
  <2> QED
    BY <2>1, <2>3, <2>4 DEF Unites
<1>10. /\ parent.id = v /\ parent.values \in Seq(Tuple) /\ KeyDropped(parent, nodes[v], q)
       /\ Len(parent.values) = Len(nodes[v].values) - 1
  <2> DEFINE w == pop(nodes[v].values, q)
             d == pop(nodes[v].children, q + 1)
  <2>1. parent = [nodes[v] EXCEPT !.values = w, !.children = d]
    BY <1>3
  <2>2. q < Len(nodes[v].values) /\ q + 1 < Len(nodes[v].children) /\ q + 1 \in Nat
    BY <1>0, <1>3, <1>6
  <2>3. w \in Seq(Tuple) /\ Drops(w, nodes[v].values, q)
    BY <1>6, <2>2, PopAt
  <2>4. Drops(d, nodes[v].children, q + 1)
    BY <1>6, <2>2, PopAt
  <2> HIDE DEF w, d, parent
  <2>5. parent.id = v /\ parent.values = w /\ parent.children = d
    BY <1>3, <1>6, <2>1 DEF Node
  <2> QED
    BY <2>3, <2>4, <2>5 DEF KeyDropped, Drops
<1> HIDE DEF parent, merged, top
<1>11. CASE Len(path) = 1 /\ parent.values = <<>>
  <2> DEFINE calls == <<remove(l), updateDepth(treeDepth - 1), remove(r), persist(top)>>
  <2>1. todo' = calls
    BY <1>0, <1>6, <1>11 DEF CollapseCalls, top
  <2>2. v = rootId
    <3>1. path[1].visitedNode = rootId
      BY DEF Repairs, Trail
    <3> QED
      BY <1>3, <1>11, <3>1 DEF Final
  <2>3. LastKeyOf(nodes[rootId], l, r, t)
    <3>1. /\ nodes[v].children \in Seq(Ids \ {rootId}) /\ nodes[v].values \in Seq(Tuple)
          /\ Len(nodes[v].values) > q /\ Len(nodes[v].children) = Len(nodes[v].values) + 1
      BY <1>0, <1>3, <1>6 DEF Shaped
    <3> DEFINE n == Len(nodes[v].values)
               k == Len(nodes[v].children)
    <3>2. n \in Nat /\ k \in Nat /\ n > q /\ n - 1 = 0 /\ k = n + 1
      BY <1>10, <1>11, <3>1
    <3> HIDE DEF n, k
    <3>3. n = 1 /\ k = 2 /\ q = 0
      BY <3>2
    <3>4. nodes[v].values = <<nodes[v].values[1]>>
          /\ nodes[v].children = <<nodes[v].children[1], nodes[v].children[2]>>
      BY <3>1, <3>3 DEF n, k
    <3>5. nodes[v].children[1] = l /\ nodes[v].children[2] = r /\ nodes[v].values[1] = t
      BY <1>3, <3>3 DEF t
    <3> QED
      BY <2>2, <3>4, <3>5 DEF LastKeyOf
  <2>4. ASSUME NEW V, Leads(nodes, calls, V), Typed(V)
        PROVE  Tuples(V) = Tuples(nodes) /\ \E L, H : Ordered(V, L, H)
    <3> DEFINE d == treeDepth - 1
    <3>0. CollapseQueue(calls, top, l, r, d)
      BY DEF CollapseQueue
    <3> HIDE DEF calls, d
    <3>a. /\ top.id = v /\ top.id \in Ids /\ l \in Ids /\ r \in Ids
          /\ Leads(nodes, calls, V)
      BY <1>6, <1>9, <1>10, <2>4
    <3>b. Collapsed(nodes, V, top, l, r)
      BY <3>0, <3>a, LedCollapseQueue
    <3>1. V[v] = top /\ Becomes(nodes, V, {v}, {l, r})
      BY <3>a, <3>b DEF Collapsed
    <3>2. Remains(nodes, V)
      BY <1>5, <2>2, <3>1 DEF Becomes, Remains
    <3>3. Unites(nodes[l], nodes[r], t, V[rootId]) /\ Alike(nodes[l], nodes[r])
      BY <1>5, <1>9, <2>2, <3>1 DEF left, right
    <3>4. \E L, H : Ordered(V, L, H)
      BY <1>2, <2>3, <2>4, <3>2, <3>3, CollapseAt
    <3>5. DOMAIN V = DOMAIN nodes \ {l, r} /\ l # rootId /\ r # rootId
      BY <1>5, <2>2, <3>1 DEF Becomes
    <3>6. Tuples(V) = Tuples(nodes)
      BY <1>3, <1>5, <2>3, <2>4, <3>2, <3>3, <3>5, CollapseTuples DEF LastKeyOf, Remains
    <3> QED
      BY <3>4, <3>6
  <2>5. DrawnQueue(nodes, calls)
    BY DrawnCollapse
  <2>6. LeadsInOrder(calls)
    BY <2>4 DEF LeadsInOrder
  <2> HIDE DEF calls
  <2>7. ASSUME NEW C, C = Tuples(nodes) PROVE Amounts(C)'
    <3>1. LeadsTo(calls, C)
      BY <2>4, <2>7 DEF LeadsTo, calls
    <3> QED
      BY <1>1, <2>1, <3>1, ToAmounts
  <2>8. Order'
    BY <1>1, <2>1, <2>5, <2>6, ToQueued
  <2> QED
    BY <2>7, <2>8 DEF Leaves
<1>12. CASE ~(Len(path) = 1 /\ parent.values = <<>>)
  <2> DEFINE calls == <<persist(parent), remove(r), persist(merged)>>
  <2>1. todo' = calls
    BY <1>0, <1>6, <1>12 DEF MergeCalls
  <2>2. ASSUME NEW V, Leads(nodes, calls, V), Typed(V)
        PROVE  Tuples(V) = Tuples(nodes) /\ \E L, H : Ordered(V, L, H)
    <3>0. MergeQueue(calls, parent, r, merged)
      BY DEF MergeQueue
    <3> HIDE DEF calls
    <3>a. /\ parent.id = v /\ merged.id = l /\ parent.id \in Ids /\ merged.id \in Ids /\ r \in Ids
          /\ Leads(nodes, calls, V)
      BY <1>6, <1>9, <1>10, <2>2
    <3>b. Merged(nodes, V, parent, r, merged)
      BY <3>0, <3>a, LedMergeQueue
    <3>1. V[v] = parent /\ V[l] = merged /\ Becomes(nodes, V, {v, l}, {r})
      BY <3>a, <3>b DEF Merged
    <3>2. Absorbs(nodes, V, l, r, v)
      BY <1>5, <3>1 DEF Becomes, Absorbs
    <3>3. Unites(nodes[l], nodes[r], t, V[l]) /\ Alike(nodes[l], nodes[r]) /\ KeyDropped(V[v], nodes[v], q)
      BY <1>5, <1>9, <1>10, <3>1 DEF left, right
    <3>4. \E L, H : Ordered(V, L, H)
      BY <1>2, <1>8, <2>2, <3>2, <3>3, MergeAt
    <3>5. Tuples(V) = Tuples(nodes)
      BY <1>3, <1>5, <1>8, <2>2, <3>2, <3>3, MergesAt
    <3> QED
      BY <3>4, <3>5
  <2>3. DrawnQueue(nodes, calls)
    <3>1. q < Len(nodes[v].values) /\ Drops(parent.values, nodes[v].values, q)
      BY <1>0, <1>3, <1>10 DEF KeyDropped
    <3>2. \A i \in DOMAIN parent.values : Holds(nodes[v], parent.values[i].First)
      BY <1>6, <1>10, <3>1, DroppedHeld
    <3>3. Drawn(parent, nodes, r) /\ Drawn(parent, nodes, merged.id)
      BY <1>5, <1>9, <3>2 DEF Drawn
    <3> QED
      BY <3>3, DrawnMerge
  <2>4. LeadsInOrder(calls)
    BY <2>2 DEF LeadsInOrder
  <2> HIDE DEF calls
  <2>5. ASSUME NEW C, C = Tuples(nodes) PROVE Amounts(C)'
    <3>1. LeadsTo(calls, C)
      BY <2>2, <2>5 DEF LeadsTo, calls
    <3> QED
      BY <1>1, <2>1, <3>1, ToAmounts
  <2>6. Order'
    BY <1>1, <2>1, <2>3, <2>4, ToQueued
  <2> QED
    BY <2>5, <2>6 DEF Leaves
<1> QED
  BY <1>11, <1>12

LEMMA MergeRightOrder ==
    ASSUME IInv, IInv', Structure, Structure', Order, faults = 0, MergeRight
    PROVE  Order' /\ Leaves(Tuples(nodes))
<1> DEFINE v == Final(path).visitedNode
           s == Parent.children[2]
<1>0. at = 0 /\ Fixing(1) /\ merge(0, cur, nodes[s])
  BY DEF MergeRight, Sibling
<1>1. PICK m \in Nat, i \in Nat : m = 1 /\ i = 0
  OBVIOUS
<1>2. \E h : Repairs(h, v, s)
  <2>2. m # at /\ Fixing(m) /\ Parent.children[m + 1] = s
    BY <1>0, <1>1
  <2> QED
    BY <2>2, RepairStarts
<1>3. PICK h : Repairs(h, v, s)
  BY <1>2
<1> HIDE DEF v, s
<1>4. PICK l : l = cur.id
  OBVIOUS
<1>5. cur = nodes[l] /\ l # s /\ Parent.children[at + 1] = l
  BY <1>3, <1>4 DEF Repairs
<1>6. Parent.children[i + 1] = l /\ Parent.children[i + 2] = s /\ SamePair(l, s, cur.id, s)
  <2>1. i + 1 = at + 1 /\ i + 2 = 2
    BY <1>0, <1>1
  <2> QED
    BY <1>4, <1>5, <2>1 DEF s, SamePair
<1>7. merge(i, nodes[l], nodes[s])
  BY <1>0, <1>1, <1>5
<1>8. At("fix")
  BY <1>0 DEF Fixing
<1> QED
  BY <1>3, <1>5, <1>6, <1>7, <1>8, MergesOrder

LEMMA MergeLeftOrder ==
    ASSUME IInv, IInv', Structure, Structure', Order, faults = 0, MergeLeft
    PROVE  Order' /\ Leaves(Tuples(nodes))
<1> DEFINE v == Final(path).visitedNode
           s == Parent.children[at - 1 + 1]
<1>0. at > 0 /\ Fixing(at - 1) /\ merge(at - 1, nodes[s], cur) /\ at \in Nat
  BY Parts DEF MergeLeft, Sibling, LocalsOK
<1>1. PICK m \in Nat : m = at - 1
  BY <1>0
<1>2. \E h : Repairs(h, v, s)
  <2>2. m # at /\ Fixing(m) /\ Parent.children[m + 1] = s
    BY <1>0, <1>1
  <2> QED
    BY <2>2, RepairStarts
<1>3. PICK h : Repairs(h, v, s)
  BY <1>2
<1> HIDE DEF v, s
<1>4. PICK r : r = cur.id
  OBVIOUS
<1>5. cur = nodes[r] /\ s # r /\ Parent.children[at + 1] = r
  BY <1>3, <1>4 DEF Repairs
<1>6. Parent.children[m + 1] = s /\ Parent.children[m + 2] = r /\ SamePair(s, r, cur.id, s)
  <2>1. m + 2 = at + 1 /\ m + 1 = at - 1 + 1
    BY <1>0, <1>1
  <2> QED
    BY <1>4, <1>5, <2>1 DEF s, SamePair
<1>7. merge(m, nodes[s], nodes[r])
  BY <1>0, <1>1, <1>5
<1>8. At("fix")
  BY <1>0 DEF Fixing
<1> QED
  BY <1>3, <1>5, <1>6, <1>7, <1>8, MergesOrder

LEMMA BalanceOrder ==
    ASSUME IInv, IInv', Structure, Structure', Order, faults = 0, Balance
    PROVE  Order' /\ Leaves(Tuples(nodes))
<1>1. CASE BalanceRoot \/ BalanceLoad \/ FixDone
  <2>1. /\ todo = <<>> /\ pc \in {"balance", "fix"} /\ nodes' = nodes /\ issued' = issued
        /\ todo' = <<>> /\ pc' \in {"done", "fix"}
    BY <1>1 DEF BalanceRoot, BalanceLoad, FixDone, At, Finish, Goto, Compute, storageVars
  <2>2. Order'
    BY <2>1, RestOrder
  <2>3. Leaves(Tuples(nodes))
    BY <2>1, ToAmountsStill
  <2> QED
    BY <2>2, <2>3
<1> QED
  BY <1>1, BorrowRightOrder, BorrowLeftOrder, MergeRightOrder, MergeLeftOrder DEF Balance

-----------------------------------------------------------------------------
(* The storage calls.                                                      *)

\* The values of m are the first ones of n.
Begins(m, n) == \A i \in DOMAIN m.values : i \in DOMAIN n.values /\ m.values[i] = n.values[i]
OnceIn(n) == \A i, j \in DOMAIN n.values : n.values[i].First = n.values[j].First => i = j
NoneShares(N, n) == \A j \in DOMAIN N \ {n.id} : ~Common(N[j], n)

\* A node whose keys no other node holds is written, whole or not.
LEMMA WriteOnce ==
    ASSUME NEW N, KeysOnce(N), NEW n, NoneShares(N, n), OnceIn(n), NEW m, Begins(m, n),
           NEW M, DOMAIN M = DOMAIN N \cup {n.id}, M[n.id] = m,
           \A j \in DOMAIN N \ {n.id} : M[j] = N[j]
    PROVE  KeysOnce(M)
<1> SUFFICES ASSUME NEW i \in DOMAIN M, NEW j \in DOMAIN M,
                    NEW k \in DOMAIN M[i].values, NEW l \in DOMAIN M[j].values,
                    M[i].values[k].First = M[j].values[l].First
             PROVE  i = j /\ k = l
  BY DEF KeysOnce
<1>1. CASE i = n.id /\ j = n.id
  BY <1>1 DEF Begins, OnceIn
<1>2. CASE i = n.id /\ j # n.id
  BY <1>2 DEF Begins, NoneShares, Common
<1>3. CASE i # n.id /\ j = n.id
  BY <1>3 DEF Begins, NoneShares, Common
<1>4. CASE i # n.id /\ j # n.id
  BY <1>4 DEF KeysOnce
<1> QED
  BY <1>1, <1>2, <1>3, <1>4

\* The node that is persisted next.
LEMMA NextApart ==
    ASSUME IInv, Structure, Order, faults = 0, todo # <<>>, Head(todo).call = "Persist"
    PROVE  /\ KeysOnce(nodes) /\ FitNode(Head(todo).node) /\ Head(todo).node.id \in Ids
           /\ NoneShares(nodes, Head(todo).node) /\ OnceIn(Head(todo).node)
<1> DEFINE n == Head(todo).node
<1>1. FitTodo(todo) /\ pc # "panic"
  BY AtCall
<1>2. PICK V : Leads(nodes, todo, V)
  BY AtCall
<1>3. KeysOnce(V) /\ KeysOnce(nodes) /\ QueueOrder(nodes, todo)
  BY <1>1, <1>2, WantedOnce DEF Order
<1>4. 1 \in DOMAIN todo /\ todo[1] = Head(todo) /\ FitNode(n) /\ n.id \in Ids
  BY <1>1, QueueParts
<1>5. \A k \in DOMAIN todo : ~(k < 1)
  BY <1>1 DEF FitTodo
<1>6. n.id \in DOMAIN V /\ V[n.id] = n
  BY <1>1, <1>2, QueueLater
<1>7. NoneShares(nodes, n)
  BY <1>3, <1>4, <1>5 DEF QueueOrder, NoneShares
<1>8. OnceIn(n)
  BY <1>3, <1>6 DEF KeysOnce, OnceIn
<1> QED
  BY <1>3, <1>4, <1>7, <1>8

\* A call done brings the storage nearer to the nodes that the operation wants, and
\* they stay in order.
LEMMA DoneOrder ==
    ASSUME IInv, Structure, Order, faults = 0, todo # <<>>, UNCHANGED <<pc, req, locals>>,
           todo' = Tail(todo), IsFiniteSet(issued'), KeysOnce(nodes'),
           NEW V, NEW h, Sound(V, h), Leads(nodes', todo', V),
           \A j \in DOMAIN nodes' :
              \/ j \in DOMAIN nodes /\ nodes'[j] = nodes[j] /\ ~Concerns(Head(todo), j)
              \/ j \in DOMAIN V /\ nodes'[j] = V[j]
    PROVE  Order'
<1>1. FitTodo(todo) /\ pc # "panic"
  BY AtCall
<1>2. Leads(nodes, todo, V) /\ Current(V)
  BY DEF Sound
<1>3. KeysOnce(V) /\ QueueOrder(nodes, todo) /\ Tidy(V)
  BY <1>1, <1>2, WantedOnce DEF Order
<1>4. QueueOrder(nodes', todo')
  BY <1>1, <1>2, <1>3, QueueGoesOn
<1>5. pc' = pc /\ req' = req /\ cur' = cur /\ target' = target /\ hole' = hole
  BY DEF locals
<1>6. ASSUME NEW U, Leads(nodes', todo', U) PROVE Tidy(U)'
  <2>1. DOMAIN U = DOMAIN V /\ \A i \in DOMAIN V : U[i] = V[i]
    BY <1>6, LedOnce
  <2>2. pc = "grow" => cur.id \in DOMAIN V
    BY <1>2 DEF Current
  <2>3. GrownBy(U)'
    BY <1>3, <1>5, <2>1, <2>2 DEF Tidy, GrownBy
  <2>4. DOMAIN Grown(U)' = DOMAIN Grown(V) /\ \A i \in DOMAIN Grown(V) : Grown(U)'[i] = Grown(V)[i]
    BY <1>5, <2>1, <2>2 DEF Grown
  <2>5. PICK Lo, Hi : Ordered(Grown(V), Lo, Hi) /\ Routed(Lo, Hi)
    BY <1>3 DEF Tidy
  <2>6. Ordered(Grown(U)', Lo, Hi)
    BY <2>4, <2>5, SameOrder
  <2>7. Routed(Lo, Hi)'
    BY <1>5, <2>5 DEF Routed
  <2> QED
    BY <2>3, <2>6, <2>7 DEF Tidy
<1> QED
  BY <1>4, <1>6 DEF Order

LEMMA CallPersistOrder == ASSUME IInv, Structure, Order, faults = 0, CallPersist PROVE Order'
<1> DEFINE n == Head(todo).node
<1>0. /\ todo # <<>> /\ Head(todo).call = "Persist" /\ nodes' = Put(n.id, Stored(n))
      /\ todo' = Tail(todo) /\ UNCHANGED <<pc, req, locals>> /\ issued' = issued
  BY DEF CallPersist, Pending
<1>1. FitTodo(todo)
  BY <1>0, AtCall
<1>2. PICK V, h : Sound(V, h) /\ Leads(nodes', todo', V)
  <2>1. StorageCall
    BY DEF StorageCall
  <2> QED
    BY CallPersistLeads DEF CallLeads
<1>3. KeysOnce(nodes) /\ FitNode(n) /\ n.id \in Ids /\ NoneShares(nodes, n) /\ OnceIn(n)
  BY <1>0, NextApart
<1>4. n.id \in DOMAIN V /\ V[n.id] = n /\ Shaped(n)
  BY <1>0, <1>1, <1>2, QueueLater DEF Sound
<1>5. Stored(n) = n
  BY <1>3, <1>4, StoredWhole
<1>6. Concerns(Head(todo), n.id) /\ \A j : j # n.id => ~Concerns(Head(todo), j)
  BY <1>0 DEF Concerns
<1> HIDE DEF n
<1>7. /\ DOMAIN nodes' = DOMAIN nodes \cup {n.id} /\ nodes'[n.id] = n
      /\ \A j \in DOMAIN nodes \ {n.id} : nodes'[j] = nodes[j]
  BY <1>0, <1>5 DEF Put
<1>8. KeysOnce(nodes')
  <2>1. Begins(n, n)
    BY DEF Begins
  <2> QED
    BY <1>3, <1>7, <2>1, WriteOnce
<1>9. \A j \in DOMAIN nodes' :
         \/ j \in DOMAIN nodes /\ nodes'[j] = nodes[j] /\ ~Concerns(Head(todo), j)
         \/ j \in DOMAIN V /\ nodes'[j] = V[j]
  BY <1>4, <1>6, <1>7
<1>10. IsFiniteSet(issued')
  BY <1>0 DEF Order
<1> QED
  BY <1>0, <1>2, <1>8, <1>9, <1>10, DoneOrder

LEMMA FewerOnce ==
    ASSUME NEW N, KeysOnce(N), NEW M, DOMAIN M \subseteq DOMAIN N, \A j \in DOMAIN M : M[j] = N[j]
    PROVE  KeysOnce(M)
BY DEF KeysOnce

LEMMA CallRemoveOrder == ASSUME IInv, Structure, Order, faults = 0, CallRemove PROVE Order'
<1> DEFINE d == Head(todo).id
<1>0. /\ todo # <<>> /\ Head(todo).call = "Remove" /\ nodes' = Drop(d)
      /\ todo' = Tail(todo) /\ UNCHANGED <<pc, req, locals>> /\ issued' = issued \ {d}
  BY DEF CallRemove, Pending
<1>1. PICK V, h : Sound(V, h) /\ Leads(nodes', todo', V)
  BY CallRemoveLeads DEF CallLeads
<1>2. \A j : j # d => ~Concerns(Head(todo), j)
  BY <1>0 DEF Concerns
<1> HIDE DEF d
<1>3. DOMAIN nodes' = DOMAIN nodes \ {d} /\ \A j \in DOMAIN nodes' : nodes'[j] = nodes[j]
  BY <1>0 DEF Drop
<1>4. KeysOnce(nodes')
  BY <1>3, FewerOnce DEF Order
<1>5. \A j \in DOMAIN nodes' :
         \/ j \in DOMAIN nodes /\ nodes'[j] = nodes[j] /\ ~Concerns(Head(todo), j)
         \/ j \in DOMAIN V /\ nodes'[j] = V[j]
  BY <1>2, <1>3
<1>6. IsFiniteSet(issued')
  BY <1>0, FS_Subset DEF Order
<1> QED
  BY <1>0, <1>1, <1>4, <1>5, <1>6, DoneOrder

LEMMA CallSetDepthOrder == ASSUME IInv, Structure, Order, faults = 0, CallSetDepth PROVE Order'
<1>0. /\ todo # <<>> /\ Head(todo).call = "SetDepth" /\ nodes' = nodes
      /\ todo' = Tail(todo) /\ UNCHANGED <<pc, req, locals>> /\ issued' = issued
  BY DEF CallSetDepth, Pending
<1>1. PICK V, h : Sound(V, h) /\ Leads(nodes', todo', V)
  BY CallSetDepthLeads DEF CallLeads
<1>2. \A j \in DOMAIN nodes' :
         \/ j \in DOMAIN nodes /\ nodes'[j] = nodes[j] /\ ~Concerns(Head(todo), j)
         \/ j \in DOMAIN V /\ nodes'[j] = V[j]
  BY <1>0 DEF Concerns
<1>3. KeysOnce(nodes') /\ IsFiniteSet(issued')
  BY <1>0 DEF Order
<1> QED
  BY <1>0, <1>1, <1>2, <1>3, DoneOrder

LEMMA StorageCallOrder == ASSUME IInv, Structure, Order, faults = 0, StorageCall PROVE Order'
BY CallPersistOrder, CallRemoveOrder, CallSetDepthOrder DEF StorageCall

-----------------------------------------------------------------------------
(* Errors: a call that fails in the middle leaves no key twice.            *)

LEMMA StoredBegins ==
    ASSUME NEW n, FitNode(n)
    PROVE  Begins(Stored(n), n)
<1>1. n \in Node /\ n.values \in Seq(Tuple) /\ Len(n.values) \in Nat /\ b - 1 \in Nat
  BY NodeParts, Parameters DEF FitNode
<1>2. \A k \in Nat : /\ DOMAIN Prefix(n.values, k) \subseteq DOMAIN n.values
                     /\ \A i \in DOMAIN Prefix(n.values, k) : Prefix(n.values, k)[i] = n.values[i]
  <2> TAKE k \in Nat
  <2> DEFINE m == IF Len(n.values) < k THEN Len(n.values) ELSE k
             w == SubSeq(n.values, 1, m)
  <2>1. m \in Nat /\ m <= Len(n.values)
    BY <1>1
  <2> HIDE DEF m
  <2>2. DOMAIN w = 1 .. m /\ \A i \in 1 .. m : w[i] = n.values[i]
    BY <1>1, <2>1
  <2>3. DOMAIN w \subseteq DOMAIN n.values
    BY <1>1, <2>1, <2>2
  <2> QED
    BY <2>2, <2>3 DEF Prefix, m
<1>3. Stored(n).values = n.values \/ Stored(n).values = Prefix(n.values, b - 1)
  BY <1>1 DEF Stored, Node
<1> QED
  BY <1>1, <1>2, <1>3 DEF Begins

LEMMA TornOnce ==
    ASSUME IInv, Structure, Order, faults = 0, Pending("Persist"), TornPersist(Head(todo).node)
    PROVE  KeysOnce(nodes')
<1> DEFINE n == Head(todo).node
<1>1. /\ KeysOnce(nodes) /\ FitNode(n) /\ n.id \in Ids /\ NoneShares(nodes, n) /\ OnceIn(n)
      /\ StorageOK /\ TornPersist(n)
  BY NextApart, Parts DEF Pending
<1> HIDE DEF n
<1>2. ASSUME NEW m, FitNode(m), nodes' = Put(n.id, Stored(m)), m.values = n.values \/ m.values = <<>>
      PROVE  KeysOnce(nodes')
  <2>1. Begins(Stored(m), m)
    BY <1>2, StoredBegins
  <2>2. Begins(Stored(m), n)
    BY <1>2, <2>1 DEF Begins
  <2>3. /\ DOMAIN nodes' = DOMAIN nodes \cup {n.id} /\ nodes'[n.id] = Stored(m)
        /\ \A j \in DOMAIN nodes \ {n.id} : nodes'[j] = nodes[j]
    BY <1>2 DEF Put
  <2> QED
    BY <1>1, <2>2, <2>3, WriteOnce
<1>3. ASSUME NEW m, FitNode(m), m.id = n.id, nodes' = Put(n.id, Stored(m)),
             n.id \in DOMAIN nodes, m = nodes[n.id]
      PROVE  KeysOnce(nodes')
  <2>1. NoneShares(nodes, m) /\ OnceIn(m)
    BY <1>1, <1>3 DEF KeysOnce, NoneShares, Common, OnceIn
  <2>2. Begins(Stored(m), m)
    BY <1>3, StoredBegins
  <2>3. /\ DOMAIN nodes' = DOMAIN nodes \cup {m.id} /\ nodes'[m.id] = Stored(m)
        /\ \A j \in DOMAIN nodes \ {m.id} : nodes'[j] = nodes[j]
    BY <1>3 DEF Put
  <2> QED
    BY <1>1, <2>1, <2>2, <2>3, WriteOnce
<1> QED
  BY <1>1, <1>2, <1>3, TornParts

\* The operation ends with an error or a panic.
LEMMA EarlyEndOrder ==
    ASSUME IInv, Structure, Order, faults = 0, LoadMissing \/ Panic \/ Fail PROVE Order'
<1>1. ~LoadMissing
  BY LoadsStored DEF LoadMissing
<1>2. KeysOnce(nodes) /\ IsFiniteSet(issued)
  BY DEF Order
<1>3. CASE Panic
  <2>1. pc' = "panic" /\ nodes' = nodes /\ issued' = issued
    BY <1>3 DEF Panic, Abort, storageVars
  <2> QED
    BY <1>2, <2>1 DEF Order
<1>4. CASE Fail
  <2>1. faults' # 0
    BY <1>4 DEF Fail
  <2>2. CASE nodes' = nodes /\ issued' = issued
    BY <1>2, <2>1, <2>2 DEF Order
  <2>3. CASE nodes' = nodes /\ issued' \in {issued} \cup {issued \cup {id} : id \in NextIds(issued)}
    <3>1. \A i : IsFiniteSet(issued \cup {i})
      BY <1>2, FS_AddElement
    <3>2. IsFiniteSet(issued')
      BY <1>2, <2>3, <3>1
    <3> QED
      BY <1>2, <2>1, <2>3, <3>2 DEF Order
  <2>4. CASE Pending("Persist") /\ TornPersist(Head(todo).node) /\ issued' = issued
    <3>1. KeysOnce(nodes')
      BY <2>4, TornOnce
    <3> QED
      BY <1>2, <2>1, <2>4, <3>1 DEF Order
  <2>5. CASE Pending("Remove") /\ nodes' = Drop(Head(todo).id)
             /\ issued' \in {issued, issued \ {Head(todo).id}}
    <3>1. \A i : IsFiniteSet(issued \ {i})
      BY <1>2, FS_Subset
    <3>2. IsFiniteSet(issued')
      BY <1>2, <2>5, <3>1
    <3>3. DOMAIN nodes' \subseteq DOMAIN nodes /\ \A j \in DOMAIN nodes' : nodes'[j] = nodes[j]
      BY <2>5 DEF Drop
    <3>4. KeysOnce(nodes')
      BY <1>2, <3>3, FewerOnce
    <3> QED
      BY <2>1, <3>2, <3>4 DEF Order
  <2> QED
    BY <1>4, <2>2, <2>3, <2>4, <2>5 DEF Fail, storageVars
<1> QED
  BY <1>1, <1>3, <1>4

\* After a failed call the storage stays as it is.
LEMMA FaultySteps ==
    ASSUME IInv, Structure, faults > 0, Next
    PROVE  /\ nodes' = nodes /\ issued' = issued /\ faults \in Nat
           /\ faults' = faults \/ faults' = faults + 1
<1>1. todo = <<>> /\ pc \in {"idle", "get", "done", "error", "panic"} /\ faults \in Nat
  BY Parts DEF Structure, HistoryOK
<1>2. /\ ~Insert /\ ~Delete /\ ~Balance /\ ~StorageCall /\ ~InsertCall /\ ~DeleteCall
  <2>1. ~Insert
    BY <1>1 DEF Insert, InsertReplace, InsertLeaf, InsertDescend, InsertPersist, InsertNewId,
                InsertSplit, InsertSplitRoot, At
  <2>2. ~Delete
    BY <1>1 DEF Delete, DeleteLeaf, DeleteInner, DeleteAbsent, DeleteDescend, PopDescend, PopLeaf, At
  <2>3. ~Balance
    BY <1>1 DEF Balance, BalanceRoot, BalanceLoad, FixDone, BorrowRight, BorrowLeft, MergeRight,
                MergeLeft, Fixing, At
  <2>4. ~StorageCall
    BY <1>1 DEF StorageCall, CallPersist, CallRemove, CallSetDepth, Pending
  <2>5. ~InsertCall /\ ~DeleteCall
    BY <1>1 DEF InsertCall, DeleteCall, Call
  <2> QED
    BY <2>1, <2>2, <2>3, <2>4, <2>5
<1>3. CASE GetCall \/ Get \/ Return \/ LoadMissing \/ Panic
  BY <1>1, <1>3 DEF GetCall, Call, Get, GetFound, GetNotFound, GetDescend, Compute, Return, LoadMissing,
                    Panic, storageVars
<1>4. CASE Fail
  BY <1>1, <1>4 DEF Fail, Pending, At, storageVars
<1> QED
  BY <1>2, <1>3, <1>4 DEF Next, Step

LEMMA FaultyOrder == ASSUME IInv, Structure, Order, faults > 0, Next PROVE Order'
<1>1. nodes' = nodes /\ issued' = issued /\ faults' # 0
  BY FaultySteps
<1> QED
  BY <1>1 DEF Order

\* A stutter.
LEMMA OrderStays == ASSUME Order, UNCHANGED vars PROVE Order'
<1>1. /\ nodes' = nodes /\ issued' = issued /\ todo' = todo /\ faults' = faults /\ pc' = pc
      /\ cur' = cur /\ req' = req /\ target' = target /\ hole' = hole
  BY DEF vars
<1>2. ASSUME NEW V, Tidy(V) PROVE Tidy(V)'
  BY <1>1, <1>2 DEF Tidy, GrownBy, Grown, Routed
<1> QED
  BY <1>1, <1>2 DEF Order

-----------------------------------------------------------------------------
(* The theorems.                                                           *)

LEMMA OrderStep == ASSUME IInv, IInv', Structure, Structure', Order, [Next]_vars PROVE Order'
<1>1. faults = 0 \/ faults > 0
  BY Parts DEF HistoryOK
<1>2. CASE UNCHANGED vars
  BY <1>2, OrderStays
<1>3. CASE Next /\ faults > 0
  BY <1>3, FaultyOrder
<1>4. CASE Next /\ faults = 0
  <2>1. CASE GetCall \/ InsertCall \/ DeleteCall
    <3>1. \E r \in Request : Call(r, "get") \/ Call(r, "insert") \/ Call(r, "delete")
      BY <2>1 DEF GetCall, InsertCall, DeleteCall
    <3> QED
      BY <1>4, <3>1, CallOrder
  <2>2. CASE Get \/ Balance \/ StorageCall
    BY <1>4, <2>2, GetOrder, BalanceOrder, StorageCallOrder
  <2>3. CASE Insert
    BY <1>4, <2>3, InsertReplaceOrder, InsertLeafOrder, InsertDescendOrder, InsertPersistOrder,
       InsertNewIdOrder, InsertSplitOrder, InsertSplitRootOrder DEF Insert
  <2>4. CASE Delete
    BY <1>4, <2>4, DeleteLeafOrder, DeleteInnerOrder, DeleteAbsentOrder, DeleteDescendOrder,
       PopDescendOrder, PopLeafOrder DEF Delete
  <2>5. CASE Return
    <3>1. /\ todo = <<>> /\ pc \in {"done", "error"} /\ nodes' = nodes /\ issued' = issued
          /\ todo' = <<>> /\ pc' = "idle"
      BY <2>5 DEF Return
    <3> QED
      BY <1>4, <3>1, RestOrder
  <2>6. CASE LoadMissing \/ Panic \/ Fail
    BY <1>4, <2>6, EarlyEndOrder
  <2> QED
    BY <1>4, <2>1, <2>2, <2>3, <2>4, <2>5, <2>6 DEF Next, Step
<1> QED
  BY <1>1, <1>2, <1>3, <1>4

LEMMA TreeKeepsOrder == Spec => [](IInv /\ Structure /\ Order)
<1>1. IInv /\ IInv' /\ Structure /\ Structure' /\ Order /\ [Next]_vars => Order'
  BY OrderStep
<1>2. Init => Order
  BY OrderInit
<1> QED
  BY <1>1, <1>2, TreeKeepsStructure, PTL DEF Spec

\* At every moment, also between two writes of an operation and after one that
\* failed half-way, no key is stored twice.
THEOREM TreeStoresKeysOnce == Spec => []KeyStoredOnce
<1>1. Order => KeyStoredOnce
  BY DEF Order, KeysOnce, KeyStoredOnce
<1> QED
  BY <1>1, TreeKeepsOrder, PTL

\* Every node's values are in ascending order, and what a child holds lies between
\* the two values it hangs between, the nodes under it included.
KeysSorted == pc = "idle" /\ faults = 0 => \E Lo, Hi : Ordered(nodes, Lo, Hi)

\* Between operations the tree is a search tree: with TreeStaysBalanced, all that the
\* checker of tree_test.go looks for, for every a and b.
THEOREM TreeStaysSorted == Spec => []KeysSorted
<1>1. IInv /\ Structure /\ Order => KeysSorted
  <2> SUFFICES ASSUME IInv, Structure, Order, pc = "idle", faults = 0
               PROVE  \E Lo, Hi : Ordered(nodes, Lo, Hi)
    BY DEF KeysSorted
  <2>1. todo = <<>>
    BY DEF Structure, Sound, Current
  <2>2. PICK Lo, Hi : Ordered(Grown(nodes), Lo, Hi)
    BY <2>1, AtOrder
  <2> QED
    BY <2>2 DEF Grown
<1> QED
  BY <1>1, TreeKeepsOrder, PTL
=============================================================================
