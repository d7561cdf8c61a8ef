---------------------------- MODULE TreeMapProofs ----------------------------
(***************************************************************************)
(* What the operations of the tree do to the stored tuples and answer, and *)
(* that on InMemoryStorage the tree implements the map of KVStore.         *)
(***************************************************************************)
EXTENDS TreeOrderProofs

-----------------------------------------------------------------------------
(* The invariant.                                                          *)

Unique(T) == \A s, t \in T : s.First = t.First => s = t

\* What the stored tuples are once the queued calls are done, and Insert has written
\* what it is about to write.
Due ==
    IF pc \in {"balance", "fix"} \/ (pc = "done" /\ req.op = "Delete") THEN Without(before, Gone)
    ELSE IF pc = "grow" \/ (pc = "done" /\ req.op = "Insert") THEN Putting(before, req.key, NewTuple)
    ELSE before

Answers(T, k, r) ==
    \/ \E t \in T : t.First = k /\ r = t.Second
    \/ Lacks(T, k) /\ r = "ErrNotFound"

\* The key that went is that of the request or the one before it.
Nearest == Gone # req.key => Before(before, Gone, req.key)

\* The labels belong to operations, Delete replaces the tuple it was asked to delete and
\* takes out that one or the one before it, and what a finished operation returns is right.
Asked ==
    /\ pc = "idle" => req = NoRequest
    /\ pc # "idle" => req \in Request
    /\ pc = "get" => req.op = "Get"
    /\ pc \in {"insert", "grow"} => req.op = "Insert"
    /\ pc \in {"delete", "pop", "balance", "fix"} => req.op = "Delete"
    /\ pc \in {"idle", "get", "insert", "grow", "delete"} => target.leaf
    /\ pc = "pop" => target.values[hole + 1].First = req.key
    /\ pc \in {"balance", "fix"} \/ (pc = "done" /\ req.op = "Delete") => Nearest
    /\ pc = "done" => IF req.op = "Get" THEN todo = <<>> /\ Answers(before, req.key, ret)
                      ELSE ret = "ok"

MapInv == faults = 0 /\ pc # "panic" => Unique(before) /\ Asked /\ Amounts(Due)

-----------------------------------------------------------------------------
(* Tuples.                                                                 *)

LEMMA PairsTuples == Pairs = Tuples(nodes)
BY DEF Pairs, Tuples, Range

LEMMA UniqueTuples ==
    ASSUME NEW N, KeysOnce(N)
    PROVE  Unique(Tuples(N))
<1> SUFFICES ASSUME NEW s \in Tuples(N), NEW t \in Tuples(N), s.First = t.First PROVE s = t
  BY DEF Unique
<1>1. PICK i \in DOMAIN N : s \in Range(N[i].values)
  BY DEF Tuples
<1>2. PICK m \in DOMAIN N[i].values : s = N[i].values[m]
  BY <1>1 DEF Range
<1>3. PICK j \in DOMAIN N : t \in Range(N[j].values)
  BY DEF Tuples
<1>4. PICK n \in DOMAIN N[j].values : t = N[j].values[n]
  BY <1>3 DEF Range
<1>5. i = j /\ m = n
  BY <1>2, <1>4 DEF KeysOnce
<1> QED
  BY <1>2, <1>4, <1>5

LEMMA LacksWithout ==
    ASSUME NEW T, NEW k, Lacks(T, k)
    PROVE  Without(T, k) = T
BY DEF Lacks, Without

\* A tuple of a node is one of all.
LEMMA TupleIn ==
    ASSUME NEW N, NEW i \in DOMAIN N, NEW m \in DOMAIN N[i].values
    PROVE  N[i].values[m] \in Tuples(N)
BY DEF Tuples, Range

\* A step after which the tuples are those of S.
LEMMA DueLeft ==
    ASSUME NEW STATE S, Leaves(S), Due' = S
    PROVE  Amounts(Due)'
BY DEF Leaves, Amounts

LEMMA DueKept ==
    ASSUME Amounts(Due), Due' = Due, nodes' = nodes, todo' = todo, pc # "grow", pc' # "grow"
    PROVE  Amounts(Due)'
<1>1. \A V : Grown(V)' = V /\ Grown(V) = V
  BY DEF Grown
<1> QED
  BY <1>1 DEF Amounts

\* What is stored when nothing is queued.
LEMMA AtMap ==
    ASSUME MapInv, faults = 0, pc # "panic", todo = <<>>
    PROVE  /\ Tuples(Grown(nodes)) = Due /\ Asked /\ Unique(before) /\ Amounts(Due)
           /\ pc # "grow" => Tuples(nodes) = Due
<1>1. Asked /\ Unique(before) /\ Amounts(Due)
  BY DEF MapInv
<1>2. Tuples(Grown(nodes)) = Due
  BY <1>1, AtAmounts
<1>3. pc # "grow" => Grown(nodes) = nodes
  BY DEF Grown
<1> QED
  BY <1>1, <1>2, <1>3

-----------------------------------------------------------------------------
(* The steps.                                                              *)

LEMMA MapInit == Init => MapInv
<1> SUFFICES ASSUME Init PROVE MapInv
  OBVIOUS
<1>1. pc = "idle" /\ req = NoRequest /\ todo = <<>> /\ before = {} /\ StorageInit /\ target.leaf
  BY DEF Init, Idle, NoNode, createNewNode
<1>2. Asked /\ Unique(before)
  BY <1>1 DEF Asked, Unique
<1>3. Due = {}
  BY <1>1 DEF Due
<1>4. ASSUME NEW V, Leads(nodes, todo, V) PROVE Tuples(Grown(V)) = {}
  <2>1. DOMAIN V = DOMAIN nodes /\ \A i \in DOMAIN nodes : V[i] = nodes[i]
    BY <1>1, <1>4, LedNowhere
  <2>2. \A i \in DOMAIN nodes : Range(nodes[i].values) = {}
    BY <1>1 DEF StorageInit, createNewNode, Range
  <2>3. Grown(V) = V
    BY <1>1 DEF Grown
  <2> QED
    BY <2>1, <2>2, <2>3 DEF Tuples
<1> QED
  BY <1>2, <1>3, <1>4 DEF MapInv, Amounts

LEMMA CallMap ==
    ASSUME MapInv, faults = 0, NEW r \in Request, NEW l, Call(r, l),
           \/ l = "get" /\ r.op = "Get"
           \/ l = "insert" /\ r.op = "Insert"
           \/ l = "delete" /\ r.op = "Delete"
    PROVE  MapInv'
<1>1. pc = "idle" /\ req' = r /\ pc' = l /\ nodes' = nodes /\ todo' = todo /\ before' = before
      /\ target' = target
  BY DEF Call, Goto
<1>2. Unique(before) /\ Amounts(Due)
  BY <1>1 DEF MapInv
<1>3. Asked'
  BY <1>1 DEF MapInv, Asked
<1>4. Due' = Due /\ pc # "grow" /\ pc' # "grow"
  BY <1>1 DEF Due
<1>5. Amounts(Due)'
  BY <1>1, <1>2, <1>4, DueKept
<1> QED
  BY <1>1, <1>2, <1>3, <1>5 DEF MapInv

\* A step down the tree.
LEMMA DownMap ==
    ASSUME MapInv, faults = 0, nodes' = nodes, todo' = todo, req' = req, before' = before, pc' = pc,
           target' = target, hole' = hole, pc \in {"get", "insert", "delete", "pop"}
    PROVE  MapInv'
<1>1. Unique(before) /\ Amounts(Due) /\ Asked
  BY DEF MapInv
<1>2. Asked'
  BY <1>1 DEF Asked
<1>3. Due' = Due /\ pc # "grow" /\ pc' # "grow"
  BY DEF Due
<1>4. Amounts(Due)'
  BY <1>1, <1>3, DueKept
<1> QED
  BY <1>1, <1>2, <1>4 DEF MapInv

LEMMA DescendMap ==
    ASSUME MapInv, faults = 0, GetDescend \/ InsertDescend \/ DeleteDescend \/ PopDescend
    PROVE  MapInv'
<1>1. nodes' = nodes /\ todo' = todo /\ req' = req /\ before' = before /\ pc' = pc
  BY DEF GetDescend, InsertDescend, DeleteDescend, PopDescend, Compute, Goto, At
<1>2. target' = target /\ hole' = hole /\ pc \in {"get", "insert", "delete", "pop"}
  BY DEF GetDescend, InsertDescend, DeleteDescend, PopDescend, At
<1> QED
  BY <1>1, <1>2, DownMap

\* The key is not in the leaf where it had to be.
LEMMA AbsentAt ==
    ASSUME IInv, Structure, Order, faults = 0, todo = <<>>, pc \in {"get", "insert", "delete"}, cur.leaf,
           NEW p \in find(cur.values, req.key), ~Found(cur.values, req.key, p)
    PROVE  Lacks(Tuples(nodes), req.key)
<1>1. cur.id \in DOMAIN nodes /\ cur = nodes[cur.id]
      /\ \E h, Lo, Hi : /\ Rests(h) /\ Balanced(nodes, h, NoRepair) /\ Tree(nodes, h)
                        /\ Ordered(nodes, Lo, Hi) /\ Routed(Lo, Hi)
  BY AtKey
<1>2. PICK h, Lo, Hi : /\ Rests(h) /\ Balanced(nodes, h, NoRepair) /\ Tree(nodes, h)
                       /\ Ordered(nodes, Lo, Hi) /\ Routed(Lo, Hi)
  BY <1>1
<1>3. PICK x \in DOMAIN nodes : x = cur.id /\ nodes[x] = cur
  BY <1>1
<1> DEFINE k == req.key
<1>4. h[x] = 0 /\ Within(k, x, Lo, Hi)
  BY <1>2, <1>3 DEF Balanced, NodeOK, Routed
<1>5. p \in find(nodes[x].values, k) /\ ~Found(nodes[x].values, k, p)
  BY <1>3
<1> HIDE DEF k
<1>6. Lacks(Tuples(nodes), k)
  BY <1>2, <1>4, <1>5, AbsentKey
<1> QED
  BY <1>6 DEF k

\* A step that ends the operation and leaves the tuples alone.
LEMMA GetMap ==
    ASSUME IInv, Structure, Order, faults = 0, MapInv, GetFound \/ GetNotFound
    PROVE  MapInv'
<1>1. /\ pc = "get" /\ todo = <<>> /\ pc' = "done" /\ nodes' = nodes /\ todo' = todo /\ req' = req
      /\ before' = before
  BY DEF GetFound, GetNotFound, At, Finish, Compute
<1>2. Tuples(nodes) = Due /\ Unique(before) /\ Asked /\ Amounts(Due)
  BY <1>1, AtMap
<1>3. Due = before /\ req.op = "Get" /\ req \in Request
  BY <1>1, <1>2 DEF Due, Asked
<1>4. Answers(before, req.key, ret')
  <2>1. CASE GetFound
    <3>1. PICK p \in find(cur.values, req.key) : Found(cur.values, req.key, p) /\ ret' = cur.values[p + 1].Second
      BY <2>1 DEF GetFound, Finish
    <3>2. PICK x \in DOMAIN nodes : nodes[x] = cur
      BY <1>1, AtKey
    <3>3. cur.values \in Seq(Tuple)
      BY Parts, NodeParts DEF LocalsOK
    <3>4. PICK m \in DOMAIN nodes[x].values : nodes[x].values[m].First = req.key /\ ret' = nodes[x].values[m].Second
      <4>1. p + 1 \in DOMAIN cur.values /\ cur.values[p + 1].First = req.key
        BY <3>1, <3>3 DEF find, Found
      <4> QED
        BY <3>1, <3>2, <4>1
    <3> DEFINE e == nodes[x].values[m]
    <3>5. e \in before
      BY <1>2, <1>3, TupleIn
    <3> HIDE DEF e
    <3>6. e.First = req.key /\ ret' = e.Second
      BY <3>4 DEF e
    <3> QED
      BY <3>5, <3>6 DEF Answers
  <2>2. CASE GetNotFound
    <3>1. PICK p \in find(cur.values, req.key) : ~Found(cur.values, req.key, p)
      BY <2>2 DEF GetNotFound
    <3>2. cur.leaf /\ ret' = "ErrNotFound"
      BY <2>2 DEF GetNotFound, Finish
    <3>3. Lacks(Tuples(nodes), req.key)
      BY <1>1, <3>1, <3>2, AbsentAt
    <3> QED
      BY <1>2, <1>3, <3>2, <3>3 DEF Answers
  <2> QED
    BY <2>1, <2>2
<1>5. Asked'
  BY <1>1, <1>3, <1>4 DEF Asked
<1>6. Due' = Due /\ pc # "grow" /\ pc' # "grow"
  BY <1>1, <1>3 DEF Due
<1>7. Amounts(Due)'
  BY <1>1, <1>2, <1>6, DueKept
<1> QED
  BY <1>1, <1>2, <1>5, <1>7 DEF MapInv

\* A step of Insert that computes what is stored.
LEMMA InsertMap ==
    ASSUME IInv, IInv', Structure, Structure', Order, faults = 0, MapInv, InsertReplace \/ InsertLeaf
    PROVE  MapInv'
<1>1. /\ pc = "insert" /\ todo = <<>> /\ target' = target /\ req' = req /\ before' = before
      /\ \/ pc' = "done" /\ ret' = "ok"
         \/ pc' = "grow"
  BY DEF InsertReplace, InsertLeaf, locals, At, Finish, Goto, Compute
<1>2. Tuples(nodes) = Due /\ Unique(before) /\ Asked /\ target.leaf
  BY <1>1, AtMap DEF Asked
<1>3. Due = before /\ req.op = "Insert" /\ req \in Request
  BY <1>1, <1>2 DEF Due, Asked
<1>4. Asked'
  BY <1>1, <1>2, <1>3 DEF Asked
<1>5. Leaves(Replaced)
  BY InsertReplaceOrder, InsertLeafOrder
<1>6. NewTuple' = NewTuple
  BY <1>1 DEF NewTuple
<1>7. Due' = Replaced
  BY <1>1, <1>2, <1>3, <1>6 DEF Due, Replaced
<1>8. Amounts(Due)'
  BY <1>5, <1>7, DueLeft
<1> QED
  BY <1>1, <1>2, <1>4, <1>8 DEF MapInv

\* A step of Insert that queues what it has grown, or splits it.
LEMMA GrowMap ==
    ASSUME IInv, IInv', Structure, Structure', Order, faults = 0, MapInv,
           InsertPersist \/ InsertSplit \/ InsertSplitRoot
    PROVE  MapInv'
<1>1. /\ pc = "grow" /\ todo = <<>> /\ target' = target /\ req' = req /\ before' = before
      /\ \/ pc' = "done" /\ ret' = "ok"
         \/ pc' = "grow"
  BY DEF InsertPersist, InsertSplit, InsertSplitRoot, locals, At, Finish, Goto, Compute
<1>2. Tuples(Grown(nodes)) = Due /\ Unique(before) /\ Asked /\ target.leaf
  BY <1>1, AtMap DEF Asked
<1>3. req.op = "Insert" /\ req \in Request
  BY <1>1, <1>2 DEF Asked
<1>4. Asked'
  BY <1>1, <1>2, <1>3 DEF Asked
<1>5. Leaves(Tuples(Grown(nodes)))
  BY InsertPersistOrder, InsertSplitOrder, InsertSplitRootOrder
<1>6. NewTuple' = NewTuple
  BY <1>1 DEF NewTuple
<1>7. Due' = Tuples(Grown(nodes))
  BY <1>1, <1>2, <1>3, <1>6 DEF Due
<1>8. Amounts(Due)'
  BY <1>5, <1>7, DueLeft
<1> QED
  BY <1>1, <1>2, <1>4, <1>8 DEF MapInv

LEMMA NewIdMap == ASSUME MapInv, faults = 0, InsertNewId PROVE MapInv'
<1>1. /\ pc = "grow" /\ todo' = todo /\ req' = req /\ before' = before /\ pc' = "grow"
      /\ nodes' = nodes /\ cur' = cur /\ target' = target
  BY DEF InsertNewId, At, Goto
<1>2. Unique(before) /\ Asked /\ Amounts(Due)
  BY <1>1 DEF MapInv
<1>3. Asked'
  BY <1>1, <1>2 DEF Asked
<1>4. NewTuple' = NewTuple /\ \A V : Grown(V)' = Grown(V)
  BY <1>1 DEF NewTuple, Grown
<1>5. Due' = Due
  BY <1>1, <1>4 DEF Due
<1>6. Amounts(Due)'
  BY <1>1, <1>2, <1>4, <1>5 DEF Amounts
<1> QED
  BY <1>1, <1>2, <1>3, <1>6 DEF MapInv

LEMMA DeleteLeafMap ==
    ASSUME IInv, IInv', Structure, Structure', Order, faults = 0, MapInv, DeleteLeaf
    PROVE  MapInv'
<1>1. pc = "delete" /\ todo = <<>> /\ req' = req /\ before' = before /\ pc' = "balance" /\ target' = target
  BY DEF DeleteLeaf, At, Goto, Compute
<1>2. Tuples(nodes) = Due /\ Unique(before) /\ Asked
  BY <1>1, AtMap
<1>3. Due = before /\ req.op = "Delete" /\ req \in Request /\ target.leaf
  BY <1>1, <1>2 DEF Due, Asked
<1>4. Gone' = req.key
  BY <1>1, <1>3 DEF Gone
<1>5. Asked'
  BY <1>1, <1>3, <1>4 DEF Asked, Nearest
<1>6. Leaves(Without(Tuples(nodes), req.key))
  BY DeleteLeafOrder
<1>7. Due' = Without(Tuples(nodes), req.key)
  BY <1>1, <1>2, <1>3, <1>4 DEF Due
<1>8. Amounts(Due)'
  BY <1>6, <1>7, DueLeft
<1> QED
  BY <1>1, <1>2, <1>5, <1>8 DEF MapInv

LEMMA DeleteInnerMap ==
    ASSUME IInv, faults = 0, MapInv, DeleteInner
    PROVE  MapInv'
<1>1. /\ pc = "delete" /\ todo' = todo /\ req' = req /\ before' = before /\ pc' = "pop" /\ nodes' = nodes
      /\ target' = cur
  BY DEF DeleteInner, At, Goto, Compute
<1>2. Unique(before) /\ Asked /\ Amounts(Due)
  BY <1>1 DEF MapInv
<1>3. Due = before /\ req.op = "Delete" /\ req \in Request
  BY <1>1, <1>2 DEF Due, Asked
<1>4. PICK p \in find(cur.values, req.key) : Found(cur.values, req.key, p) /\ hole' = p
  BY DEF DeleteInner
<1>5. target'.values[hole' + 1].First = req.key
  BY <1>1, <1>4 DEF Found
<1>6. Asked'
  BY <1>1, <1>3, <1>5 DEF Asked
<1>7. Due' = Due /\ pc # "grow" /\ pc' # "grow"
  BY <1>1, <1>3 DEF Due
<1>8. Amounts(Due)'
  BY <1>1, <1>2, <1>7, DueKept
<1> QED
  BY <1>1, <1>2, <1>6, <1>8 DEF MapInv

LEMMA DeleteAbsentMap ==
    ASSUME IInv, Structure, Order, faults = 0, MapInv, DeleteAbsent
    PROVE  MapInv'
<1>1. /\ pc = "delete" /\ todo = <<>> /\ todo' = todo /\ req' = req /\ before' = before
      /\ pc' = "done" /\ ret' = "ok" /\ nodes' = nodes /\ cur.leaf
      /\ target' = target
  BY DEF DeleteAbsent, At, Finish, Compute, locals
<1>2. Tuples(nodes) = Due /\ Unique(before) /\ Asked /\ Amounts(Due)
  BY <1>1, AtMap
<1>3. Due = before /\ req.op = "Delete" /\ req \in Request /\ target.leaf
  BY <1>1, <1>2 DEF Due, Asked
<1>4. Lacks(Tuples(nodes), req.key)
  <2>1. PICK p \in find(cur.values, req.key) : ~Found(cur.values, req.key, p)
    BY DEF DeleteAbsent
  <2> QED
    BY <1>1, <2>1, AbsentAt
<1>5. Without(before, req.key) = before
  BY <1>2, <1>3, <1>4, LacksWithout
<1>6. Gone' = req.key
  BY <1>1, <1>3 DEF Gone
<1>7. Asked'
  BY <1>1, <1>3, <1>6 DEF Asked, Nearest
<1>8. Due' = Due /\ pc # "grow" /\ pc' # "grow"
  BY <1>1, <1>3, <1>5, <1>6 DEF Due
<1>9. Amounts(Due)'
  BY <1>1, <1>2, <1>8, DueKept
<1> QED
  BY <1>1, <1>2, <1>7, <1>9 DEF MapInv

LEMMA PopLeafMap ==
    ASSUME IInv, IInv', Structure, Structure', Order, faults = 0, MapInv, PopLeaf
    PROVE  MapInv'
<1>1. pc = "pop" /\ todo = <<>> /\ req' = req /\ before' = before /\ pc' = "balance"
  BY DEF PopLeaf, At, Goto, Compute
<1>2. Tuples(nodes) = Due /\ Unique(before) /\ Asked
  BY <1>1, AtMap
<1>3. /\ Due = before /\ req.op = "Delete" /\ req \in Request
      /\ target.values[hole + 1].First = req.key
  BY <1>1, <1>2 DEF Due, Asked
<1>4. CASE Backend = "memory"
  <2>1. Gone' = req.key
    BY <1>1, <1>4 DEF Gone
  <2>2. Asked'
    BY <1>1, <1>3, <2>1 DEF Asked, Nearest
  <2>3. Leaves(WithoutTarget)
    BY <1>4, PopLeafOrder
  <2>4. Due' = WithoutTarget
    BY <1>1, <1>2, <1>3, <2>1 DEF Due, WithoutTarget
  <2>5. Amounts(Due)'
    BY <2>3, <2>4, DueLeft
  <2> QED
    BY <1>1, <1>2, <2>2, <2>5 DEF MapInv
<1>5. CASE Backend # "memory"
  <2> DEFINE e == Predecessor(cur)
  <2>1. target' = [target EXCEPT !.values = swap(target.values, hole, e)] /\ hole' = hole
    BY DEF PopLeaf
  <2>2. ~target.leaf
    BY <1>1, AtDescent
  <2>3. target \in Node /\ target.values \in Seq(Tuple) /\ hole \in Nat /\ hole < Len(target.values)
    BY <1>1, Parts, NodeParts DEF LocalsOK, FitNode
  <2>4. ~target'.leaf /\ target'.values = swap(target.values, hole, e)
    BY <2>1, <2>2, <2>3 DEF Node
  <2>5. swap(target.values, hole, e)[hole + 1] = e
    BY <2>3 DEF swap, SX!ReplaceAt
  <2>6. Gone' = e.First
    <3>1. Backend = "file"
      BY <1>5, BackendAssumption
    <3>2. target'.values[hole' + 1] = e
      BY <2>1, <2>4, <2>5
    <3> QED
      BY <2>4, <3>1, <3>2 DEF Gone
  <2>7. Before(Tuples(nodes), e.First, req.key)
    BY <1>3, PopLeafOrder
  <2> HIDE DEF e
  <2>8. Nearest'
    BY <1>1, <1>2, <1>3, <2>6, <2>7 DEF Nearest
  <2>9. Asked'
    BY <1>1, <1>3, <2>8 DEF Asked
  <2>10. Leaves(WithoutLast)
    BY <1>5, PopLeafOrder
  <2>11. Due' = WithoutLast
    BY <1>1, <1>2, <1>3, <2>6 DEF Due, WithoutLast, e
  <2>12. Amounts(Due)'
    BY <2>10, <2>11, DueLeft
  <2> QED
    BY <1>1, <1>2, <2>9, <2>12 DEF MapInv
<1> QED
  BY <1>4, <1>5

LEMMA BalanceMap ==
    ASSUME IInv, IInv', Structure, Structure', Order, faults = 0, MapInv, Balance
    PROVE  MapInv'
<1>1. /\ pc \in {"balance", "fix"} /\ todo = <<>> /\ target' = target /\ hole' = hole /\ req' = req /\ before' = before
      /\ \/ pc' = "done" /\ ret' = "ok"
         \/ pc' = "fix"
  <2>1. CASE BalanceRoot \/ BalanceLoad \/ FixDone
    BY <2>1 DEF BalanceRoot, BalanceLoad, FixDone, At, Finish, Goto, Compute, locals
  <2>2. CASE BorrowRight \/ BorrowLeft \/ MergeRight \/ MergeLeft
    <3>1. At("fix") /\ \E n : NextLevel(n)
      BY <2>2 DEF BorrowRight, BorrowLeft, MergeRight, MergeLeft, merge, Fixing
    <3> QED
      BY <3>1 DEF NextLevel, AfterLevel, At, Finish, Goto, Compute
  <2> QED
    BY <2>1, <2>2 DEF Balance
<1>2. Tuples(nodes) = Due /\ Unique(before) /\ Asked
  BY <1>1, AtMap
<1>3. Due = Without(before, Gone) /\ req.op = "Delete" /\ req \in Request /\ Nearest
  BY <1>1, <1>2 DEF Due, Asked
<1>4. Gone' = Gone
  BY <1>1 DEF Gone
<1>5. Asked'
  BY <1>1, <1>3, <1>4 DEF Asked, Nearest
<1>6. Leaves(Tuples(nodes))
  BY BalanceOrder
<1>7. Due' = Tuples(nodes)
  BY <1>1, <1>2, <1>3, <1>4 DEF Due
<1>8. Amounts(Due)'
  BY <1>6, <1>7, DueLeft
<1> QED
  BY <1>1, <1>2, <1>5, <1>8 DEF MapInv

LEMMA StorageCallMap ==
    ASSUME IInv, Structure, faults = 0, MapInv, StorageCall
    PROVE  MapInv'
<1>1. /\ pc' = pc /\ req' = req /\ cur' = cur /\ target' = target /\ hole' = hole /\ ret' = ret
      /\ before' = before /\ todo # <<>>
  BY DEF StorageCall, CallPersist, CallRemove, CallSetDepth, Pending, locals
<1>2. PICK V, h : Sound(V, h) /\ Leads(nodes', todo', V)
  BY CallPersistLeads, CallRemoveLeads, CallSetDepthLeads DEF StorageCall, CallLeads
<1>3. pc # "panic" /\ pc' # "panic"
  BY <1>1 DEF Structure
<1>4. Unique(before) /\ Asked /\ Amounts(Due)
  BY <1>3 DEF MapInv
<1>5. Leads(nodes, todo, V) /\ (pc = "grow" => cur.id \in DOMAIN V)
  BY <1>2 DEF Sound, Current
<1>6. Tuples(Grown(V)) = Due
  BY <1>4, <1>5 DEF Amounts
<1>7. NewTuple' = NewTuple /\ Gone' = Gone
  BY <1>1 DEF NewTuple, Gone
<1>8. Asked'
  BY <1>1, <1>4, <1>7 DEF Asked, Nearest
<1>9. Due' = Due
  BY <1>1, <1>7 DEF Due
<1>10. ASSUME NEW U, Leads(nodes', todo', U) PROVE Tuples(Grown(U)') = Due
  <2>1. DOMAIN U = DOMAIN V /\ \A i \in DOMAIN V : U[i] = V[i]
    BY <1>2, <1>10, LedOnce
  <2>2. DOMAIN Grown(U)' = DOMAIN Grown(V) /\ \A i \in DOMAIN Grown(V) : Grown(U)'[i] = Grown(V)[i]
    BY <1>1, <1>5, <2>1 DEF Grown
  <2>3. Tuples(Grown(U)') = Tuples(Grown(V))
    BY <2>2 DEF Tuples
  <2> QED
    BY <1>6, <2>3
<1>11. Amounts(Due)'
  BY <1>9, <1>10 DEF Amounts
<1> QED
  BY <1>1, <1>4, <1>8, <1>11 DEF MapInv

LEMMA ReturnMap ==
    ASSUME Structure, Order, faults = 0, Return
    PROVE  MapInv'
<1>1. /\ todo = <<>> /\ todo' = <<>> /\ nodes' = nodes /\ pc' = "idle" /\ req' = NoRequest /\ target'.leaf
      /\ before' = Tuples(nodes)
  BY PairsTuples DEF Return, NoNode, createNewNode
<1>2. Unique(before')
  BY <1>1, UniqueTuples DEF Order
<1>3. Asked'
  BY <1>1 DEF Asked
<1>4. Due' = Tuples(nodes)
  BY <1>1 DEF Due
<1>5. Leaves(Tuples(nodes))
  BY <1>1, ToAmountsStill
<1>6. Amounts(Due)'
  BY <1>4, <1>5, DueLeft
<1>7. Unique(before)'
  BY <1>2 DEF Unique
<1> QED
  BY <1>3, <1>6, <1>7 DEF MapInv

\* A stutter.
LEMMA MapStays == ASSUME MapInv, UNCHANGED vars PROVE MapInv'
<1>1. /\ pc' = pc /\ req' = req /\ cur' = cur /\ target' = target /\ hole' = hole /\ ret' = ret
      /\ before' = before /\ todo' = todo /\ nodes' = nodes
      /\ faults' = faults
  BY DEF vars
<1>2. CASE pc = "panic" \/ faults # 0
  BY <1>1, <1>2 DEF MapInv
<1>3. CASE faults = 0 /\ pc # "panic"
  <2>1. Unique(before) /\ Asked /\ Amounts(Due)
    BY <1>3 DEF MapInv
  <2>2. NewTuple' = NewTuple /\ Gone' = Gone /\ \A V : Grown(V)' = Grown(V)
    BY <1>1 DEF NewTuple, Gone, Grown
  <2>3. Asked'
    BY <1>1, <2>1, <2>2 DEF Asked, Nearest
  <2>4. Due' = Due
    BY <1>1, <2>2 DEF Due
  <2>5. Amounts(Due)'
    BY <1>1, <2>1, <2>2, <2>4 DEF Amounts
  <2> QED
    BY <1>1, <2>1, <2>3, <2>5 DEF MapInv
<1> QED
  BY <1>2, <1>3

\* In memory no call fails, and no node is missing.
LEMMA NoFault ==
    ASSUME Backend = "memory", IInv, IInv', Structure'
    PROVE  faults = 0 /\ faults' = 0 /\ pc' # "error" /\ ~Fail /\ ~LoadMissing
<1>1. faults = 0 /\ faults' = 0
  <2>1. HistoryOK /\ HistoryOK'
    BY Parts, PartsNext
  <2> QED
    BY <2>1, BackendAssumption DEF HistoryOK
<1>2. pc' # "error"
  <2>1. SUFFICES ASSUME pc' = "error" PROVE FALSE
    OBVIOUS
  <2>2. PICK V, h : Sound(V, h)'
    BY <1>1, <2>1 DEF Structure
  <2> QED
    BY <2>1, <2>2 DEF Sound, Current
<1>3. ~Fail /\ ~LoadMissing
  BY <1>1, <1>2 DEF Fail, LoadMissing, Abort
<1> QED
  BY <1>1, <1>2, <1>3

\* After a panic nothing happens any more.
LEMMA PanicEnds == ASSUME Structure, pc = "panic", ~Fail, ~LoadMissing PROVE ~Next
<1>1. todo = <<>>
  BY DEF Structure
<1>2. ~GetCall /\ ~InsertCall /\ ~DeleteCall /\ ~Return
  BY DEF GetCall, InsertCall, DeleteCall, Call, Return
<1>3. ~Get
  BY DEF Get, GetFound, GetNotFound, GetDescend, At
<1>4. ~Insert
  BY DEF Insert, InsertReplace, InsertLeaf, InsertDescend, InsertPersist, InsertNewId,
         InsertSplit, InsertSplitRoot, At
<1>5. ~Delete
  BY DEF Delete, DeleteLeaf, DeleteInner, DeleteAbsent, DeleteDescend, PopDescend, PopLeaf, At
<1>6. ~Balance
  BY DEF Balance, BalanceRoot, BalanceLoad, FixDone, BorrowRight, BorrowLeft, MergeRight,
         MergeLeft, Fixing, At
<1>7. ~StorageCall
  BY <1>1 DEF StorageCall, CallPersist, CallRemove, CallSetDepth, Pending
<1>8. ~Panic
  BY DEF Panic, IndexError, At
<1> QED
  BY <1>2, <1>3, <1>4, <1>5, <1>6, <1>7, <1>8 DEF Next, Step

LEMMA MapStep ==
    ASSUME IInv, IInv', Structure, Structure', Order, MapInv, [Next]_vars
    PROVE  MapInv'
<1>1. faults = 0 \/ faults > 0
  BY Parts DEF HistoryOK
<1>2. CASE UNCHANGED vars
  BY <1>2, MapStays
<1>3. CASE Next /\ faults > 0
  <2>1. faults' # 0
    BY <1>3, FaultySteps
  <2> QED
    BY <2>1 DEF MapInv
<1>4. CASE Next /\ faults = 0
  <2>1. CASE GetCall \/ InsertCall \/ DeleteCall
    <3>1. PICK r \in Request : \/ r.op = "Get" /\ Call(r, "get")
                               \/ r.op = "Insert" /\ Call(r, "insert")
                               \/ r.op = "Delete" /\ Call(r, "delete")
      BY <2>1 DEF GetCall, InsertCall, DeleteCall
    <3> QED
      BY <1>4, <3>1, CallMap
  <2>2. CASE Get
    BY <1>4, <2>2, GetMap, DescendMap DEF Get
  <2>3. CASE Insert
    BY <1>4, <2>3, InsertMap, GrowMap, NewIdMap, DescendMap DEF Insert
  <2>4. CASE Delete
    BY <1>4, <2>4, DeleteLeafMap, DeleteInnerMap, DeleteAbsentMap, PopLeafMap, DescendMap DEF Delete
  <2>5. CASE Balance \/ StorageCall \/ Return
    BY <1>4, <2>5, BalanceMap, StorageCallMap, ReturnMap
  <2>6. CASE Panic
    BY <2>6 DEF Panic, Abort, MapInv
  <2>7. CASE Fail
    <3>1. faults' # 0
      BY <1>4, <2>7 DEF Fail
    <3> QED
      BY <3>1 DEF MapInv
  <2>8. ~LoadMissing
    BY <1>4, LoadsStored DEF LoadMissing
  <2> QED
    BY <1>4, <2>1, <2>2, <2>3, <2>4, <2>5, <2>6, <2>7, <2>8 DEF Next, Step
<1> QED
  BY <1>1, <1>2, <1>4, <1>3

LEMMA TreeKeepsMap == Spec => [](IInv /\ Structure /\ Order /\ MapInv)
<1>1. IInv /\ IInv' /\ Structure /\ Structure' /\ Order /\ MapInv /\ [Next]_vars => MapInv'
  BY MapStep
<1>2. Init => MapInv
  BY MapInit
<1> QED
  BY <1>1, <1>2, TreeKeepsOrder, PTL DEF Spec

\* On either storage, as long as no call failed, an operation that returned changed
\* one tuple at most, and a Get answered what is stored: of a key in an inner node, a
\* Delete on a file (PersistentStorage) takes out the key before it instead.
THEOREM TreeChangesOneTuple == Spec => []OneTupleChanges
<1>1. IInv /\ Structure /\ MapInv => OneTupleChanges
  <2> SUFFICES ASSUME IInv, Structure, MapInv, pc = "done", todo = <<>>, faults = 0 PROVE OneTupleChanges
    BY DEF OneTupleChanges
  <2>1. Pairs = Due /\ Asked
    BY AtMap, PairsTuples
  <2>2. ASSUME req.op = "Get"
        PROVE  /\ Pairs = before
               /\ \/ \E t \in before : t.First = req.key /\ ret = t.Second
                  \/ (\A t \in before : t.First # req.key) /\ ret = "ErrNotFound"
    BY <2>1, <2>2 DEF Due, Asked, Answers, Lacks
  <2>3. ASSUME req.op = "Insert"
        PROVE  Pairs = {t \in before : t.First # req.key} \cup {NewTuple}
    BY <2>1, <2>3 DEF Due, Putting, Without
  <2>4. ASSUME req.op = "Delete"
        PROVE  /\ Pairs = {t \in before : t.First # Gone}
               /\ Gone # req.key =>
                     Gone < req.key /\ \A t \in before : t.First < req.key => t.First <= Gone
    <3>1. Pairs = Without(before, Gone) /\ Nearest
      BY <2>1, <2>4 DEF Due, Asked
    <3> QED
      BY <3>1 DEF Without, Nearest, Before
  <2> QED
    BY <2>2, <2>3, <2>4 DEF OneTupleChanges
<1> QED
  BY <1>1, TreeKeepsMap, PTL

-----------------------------------------------------------------------------
(* The map the tuples stand for.                                           *)

LEMMA DictDomain ==
    ASSUME NEW T
    PROVE  /\ DOMAIN Dict(T) = {t.First : t \in T}
           /\ \A j : j \in DOMAIN Dict(T) <=> \E t \in T : j = t.First
BY DEF Dict

LEMMA DictAt ==
    ASSUME NEW T, Unique(T), NEW t \in T
    PROVE  t.First \in DOMAIN Dict(T) /\ Dict(T)[t.First] = t.Second
<1>1. t.First \in {s.First : s \in T}
  OBVIOUS
<1> DEFINE c == CHOOSE s \in T : s.First = t.First
<1>2. c \in T /\ c.First = t.First
  OBVIOUS
<1>3. Dict(T)[t.First] = c.Second
  BY <1>1 DEF Dict
<1> HIDE DEF c
<1>4. c = t
  BY <1>2 DEF Unique
<1> QED
  BY <1>1, <1>3, <1>4, DictDomain

LEMMA DictLacks ==
    ASSUME NEW T, NEW k, Lacks(T, k)
    PROVE  k \notin DOMAIN Dict(T)
<1>1. k \in DOMAIN Dict(T) <=> \E t \in T : k = t.First
  BY DictDomain
<1> QED
  BY <1>1 DEF Lacks

LEMMA UniqueWithout ==
    ASSUME NEW T, NEW k, NEW e, Unique(T), e.First = k
    PROVE  Unique(Without(T, k)) /\ Unique(Putting(T, k, e))
BY DEF Unique, Without, Putting

LEMMA DictWithout ==
    ASSUME NEW T, NEW k, Unique(T)
    PROVE  Dict(Without(T, k)) = [j \in DOMAIN Dict(T) \ {k} |-> Dict(T)[j]]
<1> DEFINE D == Dict(T)
           E == Dict(Without(T, k))
<1>1. Unique(Without(T, k))
  BY DEF Unique, Without
<1>2. DOMAIN E = DOMAIN D \ {k}
  <2>1. /\ \A j : j \in DOMAIN E <=> \E t \in Without(T, k) : j = t.First
        /\ \A j : j \in DOMAIN D <=> \E t \in T : j = t.First
    BY DictDomain
  <2> HIDE DEF D, E
  <2> QED
    BY <2>1 DEF Without
<1>3. ASSUME NEW j \in DOMAIN E PROVE E[j] = D[j]
  <2>1. PICK t \in Without(T, k) : j = t.First
    BY <1>3, DictDomain
  <2>2. E[j] = t.Second
    BY <1>1, <2>1, DictAt
  <2>3. t \in T
    BY <2>1 DEF Without
  <2>4. D[j] = t.Second
    BY <2>1, <2>3, DictAt
  <2> QED
    BY <2>2, <2>4
<1>4. E = [j \in DOMAIN E |-> E[j]]
  BY DEF Dict
<1> QED
  BY <1>2, <1>3, <1>4

Mapping(D, k, v) == [j \in DOMAIN D \cup {k} |-> IF j = k THEN v ELSE D[j]]

LEMMA DictPutting ==
    ASSUME NEW T, NEW k, NEW e, Unique(T), e.First = k
    PROVE  Dict(Putting(T, k, e)) = Mapping(Dict(T), k, e.Second)
<1> DEFINE D == Dict(T)
           E == Dict(Putting(T, k, e))
<1>1. Unique(Putting(T, k, e))
  BY UniqueWithout
<1>2. DOMAIN E = DOMAIN D \cup {k}
  <2>1. /\ \A j : j \in DOMAIN E <=> \E t \in Putting(T, k, e) : j = t.First
        /\ \A j : j \in DOMAIN D <=> \E t \in T : j = t.First
    BY DictDomain
  <2> HIDE DEF D, E
  <2>2. ASSUME NEW j \in DOMAIN E PROVE j \in DOMAIN D \cup {k}
    BY <2>1, <2>2 DEF Without, Putting
  <2>3. ASSUME NEW j \in DOMAIN D, j # k PROVE j \in DOMAIN E
    BY <2>1, <2>3 DEF Without, Putting
  <2>4. k \in DOMAIN E
    BY <2>1 DEF Putting
  <2> QED
    BY <2>2, <2>3, <2>4
<1>3. ASSUME NEW j \in DOMAIN E PROVE E[j] = IF j = k THEN e.Second ELSE D[j]
  <2>1. CASE j = k
    <3>1. e \in Putting(T, k, e)
      BY DEF Putting
    <3>2. E[e.First] = e.Second
      BY <1>1, <3>1, DictAt
    <3> QED
      BY <2>1, <3>2
  <2>2. CASE j # k
    <3>1. PICK t \in Putting(T, k, e) : j = t.First
      <4>1. j \in DOMAIN E <=> \E t \in Putting(T, k, e) : j = t.First
        BY DictDomain
      <4> QED
        BY <1>3, <4>1
    <3>2. E[j] = t.Second
      BY <1>1, <3>1, DictAt
    <3>3. t \in T
      BY <2>2, <3>1 DEF Putting, Without
    <3>4. D[j] = t.Second
      BY <3>1, <3>3, DictAt
    <3> QED
      BY <2>2, <3>2, <3>4
  <2> QED
    BY <2>1, <2>2
<1>4. E = [j \in DOMAIN E |-> E[j]]
  BY DEF Dict
<1> QED
  BY <1>2, <1>3, <1>4 DEF Mapping

-----------------------------------------------------------------------------
(* Every step is one of the map's, or none.                                *)

\* What is stored and remembered when nothing runs, and when an operation is done.
Agrees == pc = "idle" \/ Committed => Pairs = Due /\ Asked /\ Unique(before)

LEMMA RestAgrees ==
    ASSUME Structure, faults = 0, MapInv
    PROVE  Agrees
<1> SUFFICES ASSUME pc = "idle" \/ Committed PROVE Pairs = Due /\ Asked /\ Unique(before)
  BY DEF Agrees
<1>1. todo = <<>> /\ pc # "panic" /\ pc # "grow"
  BY DEF Structure, Sound, Current, Committed
<1> QED
  BY <1>1, AtMap, PairsTuples

\* A step of a running operation.
LEMMA OwnStep ==
    ASSUME Structure, faults = 0, Get \/ Insert \/ Delete \/ Balance \/ StorageCall \/ Panic
    PROVE  req' = req /\ before' = before /\ pc # "idle" /\ pc' # "idle" /\ ~Committed
<1>1. CASE Get
  BY <1>1 DEF Get, GetFound, GetNotFound, GetDescend, Compute, Goto, Finish, At, Committed
<1>2. CASE Insert
  BY <1>2 DEF Insert, InsertReplace, InsertLeaf, InsertDescend, InsertPersist, InsertNewId,
              InsertSplit, InsertSplitRoot, Compute, Goto, Finish, At, Committed
<1>3. CASE Delete
  BY <1>3 DEF Delete, DeleteLeaf, DeleteInner, DeleteAbsent, DeleteDescend, PopDescend, PopLeaf,
              Compute, Goto, Finish, At, Committed
<1>4. CASE BalanceRoot \/ BalanceLoad \/ FixDone
  BY <1>4 DEF BalanceRoot, BalanceLoad, FixDone, Compute, Goto, Finish, At, Committed
<1>5. CASE BorrowRight \/ BorrowLeft \/ MergeRight \/ MergeLeft
  <2>1. At("fix") /\ \E n : NextLevel(n)
    BY <1>5 DEF BorrowRight, BorrowLeft, MergeRight, MergeLeft, merge, Fixing
  <2> QED
    BY <2>1 DEF NextLevel, AfterLevel, Compute, Goto, Finish, At, Committed
<1>6. CASE StorageCall
  <2>1. pc' = pc /\ req' = req /\ before' = before /\ todo # <<>>
    BY <1>6 DEF StorageCall, CallPersist, CallRemove, CallSetDepth, Pending
  <2>2. pc # "idle"
    BY <2>1 DEF Structure, Sound, Current
  <2> QED
    BY <2>1, <2>2 DEF Committed
<1>7. CASE Panic
  BY <1>7 DEF Panic, Abort, IndexError, At, Committed
<1> QED
  BY <1>1, <1>2, <1>3, <1>4, <1>5, <1>6, <1>7 DEF Balance

\* An operation is accepted.
LEMMA AcceptStep ==
    ASSUME Agrees, NEW r \in Request, NEW l \in {"get", "insert", "delete"}, Call(r, l)
    PROVE  KV!Next
<1>1. pc = "idle" /\ pc' = l /\ req' = r /\ before' = before /\ nodes' = nodes
  BY DEF Call, Goto
<1>2. Pairs = before /\ req = NoRequest
  BY <1>1 DEF Agrees, Due, Asked
<1>3. ~Committed /\ ~Committed'
  BY <1>1 DEF Committed
<1>4. KV!Accept(r)
  BY <1>1, <1>2, <1>3 DEF KV!Accept, KV!NoRequest, NoRequest
<1>5. r \in KV!Request
  BY DEF KV!Request, Request
<1> QED
  BY <1>4, <1>5 DEF KV!Next

\* An operation returns.
LEMMA AnsweredStep ==
    ASSUME "none" \notin Values, before \subseteq Tuple, Agrees, Return, pc # "error"
    PROVE  KV!Next
<1>1. Committed /\ pc' = "idle" /\ req' = NoRequest /\ nodes' = nodes
  BY DEF Return, Committed
<1>2. pc = "done" /\ Asked
  BY <1>1 DEF Agrees, Committed
<1>3. ret # "none"
  <2>1. CASE req.op = "Get"
    <3>1. Answers(before, req.key, ret)
      BY <1>2, <2>1 DEF Asked
    <3>2. \A t \in before : t.Second # "none"
      BY DEF Tuple
    <3> QED
      BY <3>1, <3>2 DEF Answers
  <2>2. CASE req.op # "Get"
    BY <1>2, <2>2 DEF Asked
  <2> QED
    BY <2>1, <2>2
<1>4. Pairs' = Pairs
  BY <1>1 DEF Pairs
<1>5. ~Committed'
  BY <1>1 DEF Committed
<1>6. KV!Answered
  BY <1>1, <1>3, <1>4, <1>5 DEF KV!Answered, KV!NoRequest, KV!NoAnswer, NoRequest
<1> QED
  BY <1>6 DEF KV!Next

\* An operation takes effect.
LEMMA ServeStep ==
    ASSUME Backend = "memory", Agrees', Committed', ~Committed, pc # "idle", req' = req, before' = before, req \in Request
    PROVE  KV!Next
<1>1. pc' = "done"
  BY DEF Committed
<1>2. Pairs' = Due' /\ Asked' /\ Unique(before)
  BY DEF Agrees, Unique
<1> DEFINE D == Dict(before)
<1>3. req # NoRequest
  BY DEF Request, NoRequest
<1>4. \/ req.op = "Get" \/ req.op = "Insert" \/ req.op = "Delete"
  BY DEF Request
<1>5. CASE req.op = "Get"
  <2>1. Pairs' = before /\ Answers(before, req.key, ret')
    BY <1>1, <1>2, <1>5 DEF Due, Asked, Answers, Lacks
  <2>2. ret' = IF req.key \in DOMAIN D THEN D[req.key] ELSE "ErrNotFound"
    BY <1>2, <2>1, DictAt, DictLacks DEF Answers
  <2>3. KV!Serve
    BY <1>3, <1>5, <2>1, <2>2 DEF KV!Serve, KV!NoRequest, KV!NoAnswer, NoRequest
  <2> QED
    BY <2>3 DEF KV!Next
<1>6. CASE req.op = "Insert"
  <2>1. Pairs' = Putting(before, req.key, NewTuple) /\ ret' = "ok"
    BY <1>1, <1>2, <1>6 DEF Due, Asked, NewTuple
  <2>2. NewTuple.First = req.key /\ NewTuple.Second = req.value
    BY DEF NewTuple
  <2>3. Dict(Pairs') = [k \in DOMAIN D \cup {req.key} |-> IF k = req.key THEN req.value ELSE D[k]]
    <3> DEFINE e == NewTuple
               r == req.key
    <3>1. Unique(before) /\ e.First = r
      BY <1>2, <2>2
    <3> HIDE DEF e, r
    <3>2. Dict(Putting(before, r, e)) = Mapping(D, r, e.Second)
      BY <3>1, DictPutting
    <3> QED
      BY <2>1, <2>2, <3>2 DEF e, r, Mapping
  <2>4. KV!Serve
    BY <1>3, <1>6, <2>1, <2>3 DEF KV!Serve, KV!NoRequest, KV!NoAnswer, NoRequest
  <2> QED
    BY <2>4 DEF KV!Next
<1>7. CASE req.op = "Delete"
  <2>1. Pairs' = Without(before, req.key) /\ ret' = "ok"
    BY <1>1, <1>2, <1>7 DEF Due, Asked, Gone
  <2>2. Dict(Pairs') = [k \in DOMAIN D \ {req.key} |-> D[k]]
    BY <1>2, <2>1, DictWithout
  <2>3. KV!Serve
    BY <1>3, <1>7, <2>1, <2>2 DEF KV!Serve, KV!NoRequest, KV!NoAnswer, NoRequest
  <2> QED
    BY <2>3 DEF KV!Next
<1> QED
  BY <1>4, <1>5, <1>6, <1>7

LEMMA RefinementStep ==
    ASSUME Backend = "memory", "none" \notin Values, IInv, IInv', Structure, Structure', MapInv,
           Agrees, Agrees', [Next]_vars
    PROVE  [KV!Next]_KV!vars
<1>1. /\ faults = 0 /\ pc' # "error" /\ ~Fail /\ ~LoadMissing
      /\ before \subseteq Tuple
  BY NoFault, Parts DEF HistoryOK
<1>2. CASE UNCHANGED vars
  <2>1. /\ nodes' = nodes /\ pc' = pc /\ todo' = todo /\ req' = req /\ ret' = ret /\ before' = before
    BY <1>2 DEF vars
  <2> QED
    BY <2>1 DEF KV!vars, Committed, Pairs
<1>3. CASE Next
  <2>1. CASE GetCall \/ InsertCall \/ DeleteCall
    <3>1. PICK r \in Request : Call(r, "get") \/ Call(r, "insert") \/ Call(r, "delete")
      BY <2>1 DEF GetCall, InsertCall, DeleteCall
    <3> QED
      BY <3>1, AcceptStep
  <2>2. CASE Get \/ Insert \/ Delete \/ Balance \/ StorageCall \/ Panic
    <3>1. req' = req /\ before' = before /\ pc # "idle" /\ pc' # "idle" /\ ~Committed
      BY <1>1, <2>2, OwnStep
    <3>2. CASE Committed'
      <4>1. pc # "panic"
        BY <1>1, <1>3, PanicEnds
      <4>2. req \in Request
        BY <1>1, <3>1, <4>1 DEF MapInv, Asked
      <4> QED
        BY <3>1, <3>2, <4>2, ServeStep
    <3>3. CASE ~Committed'
      BY <3>1, <3>3 DEF KV!vars
    <3> QED
      BY <3>2, <3>3
  <2>3. CASE Return
    <3>1. pc # "error"
      BY <1>1 DEF Structure, Sound, Current
    <3> QED
      BY <1>1, <2>3, <3>1, AnsweredStep
  <2> QED
    BY <1>1, <1>3, <2>1, <2>2, <2>3 DEF Next, Step
<1> QED
  BY <1>2, <1>3

LEMMA RefinementInit == Init => KV!Init
<1> SUFFICES ASSUME Init PROVE KV!Init
  OBVIOUS
<1>1. pc = "idle" /\ req = NoRequest /\ StorageInit
  BY DEF Init, Idle
<1>2. Pairs = {}
  BY <1>1 DEF Pairs, StorageInit, createNewNode
<1>3. Dict({}) = [k \in {} |-> k]
  BY DEF Dict
<1> QED
  BY <1>1, <1>2, <1>3 DEF KV!Init, KV!NoRequest, KV!NoAnswer, NoRequest, Committed

\* On InMemoryStorage Get, Insert and Delete of tree.go, tree_insert.go and
\* tree_delete.go are those of a map, for all keys, values, a and b: an operation
\* takes effect with its last write, changes the stored tuples as the map does and
\* answers what the map answers.  "none" stands for no answer and is no value.
THEOREM MemoryImplementsMap ==
    ASSUME Backend = "memory", "none" \notin Values
    PROVE  Spec => ImplementsMap
<1>1. Init => KV!Init
  BY RefinementInit
<1>2. IInv /\ Structure /\ MapInv => Agrees
  <2> SUFFICES ASSUME IInv, Structure, MapInv PROVE Agrees
    OBVIOUS
  <2>1. faults = 0
    BY Parts, BackendAssumption DEF HistoryOK
  <2> QED
    BY <2>1, RestAgrees
<1>3. /\ IInv /\ IInv' /\ Structure /\ Structure' /\ MapInv
      /\ Agrees /\ Agrees' /\ [Next]_vars
      => [KV!Next]_KV!vars
  BY RefinementStep
<1>4. Spec => [](IInv /\ Structure /\ Order /\ MapInv)
  BY TreeKeepsMap
<1> QED
  BY <1>1, <1>2, <1>3, <1>4, PTL DEF Spec, ImplementsMap, KV!Spec
=============================================================================
