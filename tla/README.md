# eternal in TLA+

Specifications of `eternal`, a Go package that keeps key-value pairs in an
(a,b)-tree whose nodes live in memory or in a file. The modules are translated
from the source (paths below are relative to `src/`); `PROJECT.json` maps every
definition to its lines, lists the model-checking runs, the proofs and the
hazards the properties are for.

## 1. The system

| Component | Source | State | Operations | Module |
|---|---|---|---|---|
| Tree | `tree.go`, `tree_insert.go`, `tree_delete.go` | `a`, `b`, `depth`; per call the current node and a stack of visited nodes | `Get`, `Insert`, `Delete` (with `splitFullNode`, `popLargest`, `balanceTreeAfterDelete`, `merge`) | `Tree` |
| Slice helpers | `slices.go` | none | `pop`, `popFirst`, `popLast`, `swap`, `prepend`, `prependBefore` | `Slices` |
| Stack | `internal/stack` | a slice | `Push`, `Pop`, `Count`, `Empty` | in `Tree` and `InMemory` |
| NodeStorage | `tree.go:11` | interface | `GetRoot`, `Get`, `Persist`, `Remove`, `NewId`, `GetDepth`, `SetDepth` | `NodeStorage` (contract) |
| InMemoryStorage | `in_memory.go` | map of nodes, stack of unused ids, `idCap`, `depth` | the interface | `InMemory` |
| PersistentStorage | `persistent.go` | the file (header, depth, start of the free chain, blocks) and the fields `depth`, `freeId` | the interface, `NewPersistentStorage`, `Close` | `PersistentStorage` |
| Layout of the file | `persistent.go:151-206`, `:342`, `tree.go:44` | sizes computed once | `NewPersistentStorage`, `calculatePaddedNodeSize`, `idToOffset`, the check of `NewTree` | `Layout` |
| Defragmentation | `persistent_defragmentation.go` | the file, the place of the walk | `Defragment` | `Defragmentation` |
| Blueprints, Serializer | `encoding/schema.go`, `serializer.go` | blueprints, immutable once made | `size`, `to`, `from`, `describe`; `Serialize`, `Deserialize`, `Signature` | `Blueprints`, `Encoding` |
| Generated numbers | `encoding/schema_gen.go`, `gen/numbers.go` | none | big-endian numbers | in `Blueprints`, `Encoding` |
| Introspection | `encoding/introspect.go` | a cache of struct blueprints; per call the structs it is inside of | `Create` and its like, `parseConfig`, `handleType` | `Introspection` |

How they interact. The tree calls the storage, one call at a time; nothing calls
back and no component takes a lock, so a tree and its storage have one caller at
a time ("shouldn't be called in parallel with tree operations", `Defragment`).
The tree keeps a copy of the storage's depth, and local copies of nodes while
an operation runs. `InMemoryStorage` hands out nodes whose slices are its own,
`PersistentStorage` hands out copies. `PersistentStorage` uses the encoding for
values, child ids, the header and its signature.

The schemas are made by
introspection, once, before the storage is opened.

Which behaviours are hard. A tree and its storage have no concurrency. What is
hard is that an operation of the tree is a long sequence of storage calls, and a
storage call a sequence of file writes, of which each can be the last: an error
is returned from the middle, or the process ends. Other hazards: the order of
the writes; the balancing, whose correctness is a relation between many nodes
established by all earlier operations; the recycling of ids; `Defragment`, which
moves nodes while links still point to them; copies that are stale when used;
the boundaries `a-1` and `b-1`, of sizes and of text. Introspection alone is
concurrent: any number of goroutines share its cache.

What makes each component correct:

* Tree: it behaves as a map; between operations the nodes form a search tree
  with all leaves at `depth` and no node lost or leaked; no index is out of
  range; a node never exceeds its block; every operation returns; it keeps the
  rules of `NodeStorage`; a half-done operation never leaves a key twice.
* Storages: an id in use is never handed out, no space leaks, `Persist` and
  `Remove` change one node; for the file, at every moment the free chain is
  sound, and a file the storage prepared can be opened again.
* Defragmentation: the tree is the same afterwards, also after an error, unless
  the links themselves could not be written; what is free afterwards can be used.
* Layout: a node fits its block, blocks do not overlap, padding is as documented.
* Encoding: deserialising gives back what was serialised (up to the declared
  cuts), within `size()` bytes; equal signatures mean that the one schema reads what
  the other wrote.
* Introspection: the blueprint is a function of the type, whoever else asks;
  types that contain themselves are refused; every call returns.

## 2. Modules

```
KVStore  (abstract: a map)                NodeStorage (abstract: the contract)
   ^ implements                              ^ respects        ^ implements
   |                                         |                 |
Tree (EXTENDS Slices, NodeStorage) ----------+     InMemory, PersistentStorage
   TreeProperties -- TreeChecker -- MCTree         MCInMemory, MCPersistentStorage
   TreeProofs                                      InMemoryProofs, PersistentStorageProofs
     ^ EXTENDS                                                 ^ EXTENDS PersistentStorage
   TreeStructureProofs                                  Defragmentation -- MCDefragmentation
     ^ EXTENDS
   SearchTreeProofs
     ^ EXTENDS
   TreeOrderProofs                                 Layout -- LayoutProofs
     ^ EXTENDS
   TreeMapProofs

Blueprints <-- Encoding -- MCEncoding
           <-- Introspection -- MCIntrospection
```

**`Slices`** -- the value each helper of `slices.go` returns. Positions are
0-based as in the source. A helper that would index outside its slice is applied
only where the caller's guard keeps it inside; where the guard fails, `Panic` of
`Tree` is what the code does.

**`KVStore`** -- the promise of `readme.md`: requests are accepted, take effect
at once at some later moment on a map, and are answered.

**`NodeStorage`** -- the contract in the comments of the interface: `Persist`
only under ids that are the root's or were handed out and not removed since,
`Remove` only of stored nodes and not of the root, `NewId` only answers ids that
are not in use. `issued` is the set of ids in use.

**`Tree`** -- an operation is a sequence of steps. `pc` is the point the
operation has reached:

| `pc` | Code |
|---|---|
| `get`, `insert`, `delete` | head of the descent loop (`tree.go:67`, `tree_insert.go:18`, `tree_delete.go:16`) |
| `pop` | head of the loop of `popLargest` (`tree_delete.go:62`) |
| `grow` | head of the second loop of `Insert` (`tree_insert.go:39`) |
| `balance`, `fix` | start and loop head of `balanceTreeAfterDelete` (`tree_delete.go:118`, `:127`) |
| `done`, `error`, `panic` | it returns a result, it returns an error, it panicked |

A step loads the nodes the code loads there, computes on local copies (`cur`,
`path`, `at`, `target`, `hole`, `fresh`) and appends the storage calls it makes,
in the order of the code, to `todo`. The calls of `todo` are then executed one
per step (`CallPersist`, `CallRemove`, `CallSetDepth`), before the next step of
the operation, so that all intermediate states of the storage are states of the
model. `Fail` is a call that returns an error, at every point where the code
makes one; the operation then returns that error and does nothing more.
`TornPersist` says what a failed `Persist` may leave: nothing, the flag only
(bringing back what the block holds, which is why `stale` remembers the children
left in a removed block), or the flag and the values. `LoadMissing` is a `Get`
of an id without node, `Panic` an index outside a slice.

Points worth knowing when reading `Tree` next to the code:

* `Backend` is "memory" or "file". `Delete` of a key in an inner node assigns
  the predecessor to an element of the slice it got from the storage and never
  persists the node. With `InMemoryStorage` that slice is the stored one and the
  assignment takes effect at once (it is the last call of `todo` in `PopLeaf`);
  with `PersistentStorage` it is lost. Elsewhere the in-place changes of shared
  slices need no mention: whatever the code changes in a node, it persists
  before it loads that node again, memory never fails, and nobody else reads.
* `Stored` is what a later `Get` of the file returns: at most `b-1` values and
  `b` children, and a node without children is a leaf.
* `find` is a set of positions: the one `BinarySearchFunc` returns when the
  values are sorted, several or none when they are not; all are explored.
* `NextIds` is the choice of `NewId`. The proofs cover every choice; the runs
  take the lowest free id.
* After a call failed, the caller only reads. `readme.md:86` promises no
  recovery, so what a second mutation makes of a damaged tree is nobody's claim.

**`TreeProperties`** states what is checked and proved, **`TreeChecker`** the
order and shape of the tree between operations: `checkNode` is the
`treeChecker.checkNode` of `tree_test.go`, applied in every reachable state
between operations instead of after a few hand-written ones. It is recursive and
therefore apart from the modules that are proved about. The checker's
`expectedNodeCount` becomes `NothingLost`: `EachNodeOnce` and `issued = DOMAIN
nodes`.

**`InMemory`** -- the map, the stack and `idCap`, under any caller that keeps
the contract's rules. `issued` is a history variable: the ids in use.

**`PersistentStorage`** -- the file as header, depth, start of the free chain
and blocks. A method hands its writes to `writes`; each reaches the file in a
step of its own, and before each the process may stop (`Stop`) or the write fail
(`Fail`). A block holds a flag, then values or a link of the free chain (`body`
tells which), then children. Opening follows `checkFile`: an empty file gets
header, depth, free id, a first block and the root; another one is checked by
`checkHeader` as it is written, and needs no free id behind the depth (a short read is
no error). `tail` counts the bytes that failed `NewId`s leave behind the last block;
they are taken to be fewer than a block. Blocks are told apart by their index;
`AllBlocksApart` of `LayoutProofs` is why that loses nothing.
`ImplementsStorage` holds up to the first failure or stop: it maps the file, with
the pending writes applied, to the nodes of `NodeStorage`.

**`Layout`** -- what `NewPersistentStorage` computes of `b`, the size of an
entry and the block size asked for: the node size, the loop of
`calculatePaddedNodeSize` with one step per round (`Halve`), and then the check
of `NewTree`, in a `uint` of `UintSpan` values. `halved` remembers the powers of
two divided out.

**`Defragmentation`** -- `PersistentStorage` extended by the walk of
`Defragment`. `frag.pc` is where it stands: `load` (head of the loop,
`persistent_defragmentation.go:39`), `scan` (the children, `:51`), `moving`
(`moveNode`'s writes are under way, `:55`), `persist` (`:84`), `finish` (`:92`),
`giveUp` (the save of the links before the error is returned, `:59`), `done`.
Its writes go through `writes` like those of the other methods, so that every
state between two of them is a state of the model; `WriteFails` and `ReadFails`
are the failures at each place, with what the code makes of them there: an error
of `moveNode` is followed by a save and returned, one of `persistWithoutValues`
in the walk is dropped. Before and between the calls the tree changes the file:
`SplitChild`, `SplitRoot` and `Merge` are the storage calls of `Insert` and
`Delete`, in their order, each operation as one step. Nodes are told apart by a
name in place of their values, so that five blocks hold trees of every shape,
also shapes an (a,b)-tree never takes; what holds for them holds for its.
`called.tree` is the tree as it was at the call, by names.

**`Blueprints`**, **`Encoding`** -- a blueprint is a record that says its kind
and its parts; `Size` and `describe` are the methods of each kind, `to` and
`from` write to and read from a sequence of bytes. A value is written under one
schema with anything behind it (`beyond`), and read under any schema of equal
signature. `Cut` is the reference: what a value is after the declared cuts.

**`Introspection`** -- each caller has a stack of calls of `handleType`; a step
takes one of them to its next call, return, `Load` or `Store`, so that other
callers run between the two. A tag is a sequence of words and signs, split by
`parseConfig` as the code does. `BlueprintOf` is the reference: the blueprint of
a type without a cache, a context or other callers.

## 3. Runs

| Run | cfg | Instance | Properties | Shows |
|---|---|---|---|---|
| tree_memory (pass) | `TreeMemory.cfg` | (2,3), 7 keys, 2 values, memory | `TypeOK`, `PanicFree`, `ErrorFree`, `KeyStoredOnce`, `ValuesFit`, `ChildrenFit`, `NothingLost`, `WellFormed`, `ImplementsMap`, `RespectsStorage`, `OperationsReturn` | A (2,3)-tree of up to seven keys over InMemoryStorage, every sequence of Get, Insert and Delete, one key changing its value: splits and merges up to depth 3, root splits and collapses; the tree is a map, its structure is restored by every operation, and every operation returns. |
| tree_file_faults (pass) | `TreeFileFaults.cfg` | (2,3), 9 of 10 keys, file, 1 failure | `ErrorFree`, `KeyStoredOnce`, `NothingLost`, `WellFormed`, `OneTupleChanges` | The tree over PersistentStorage, nine keys inserted in ascending or in descending order and deleted in every order that the constraints of the callers leave, so that inner nodes borrow values and children from either sibling; one failing call at any point of the operations on trees filled from below, Persist torn between its writes. No half-done operation leaves a key twice; without a failure the structure holds and an operation changes one tuple at most, a Delete that of its key or of the key before it. |
| in_memory (pass) | `InMemory.cfg` | ids 0 to 4, two contents | `TypeOK`, `IdsPartitioned`, `ImplementsStorage` | InMemoryStorage under any legal caller: the ids below idCap are in use or wait on the stack, each once, and the storage implements the contract NodeStorage. |
| persistent (pass) | `Persistent.cfg` | 4 blocks, 2 failures, 1 stop | `TypeOK`, `FreeChainSound`, `DiskChainSound`, `NoBlockLeaks`, `ImplementsStorage` | PersistentStorage on a new file, up to two failed writes at any point and a stop of the process: the free chains in memory and in the file stay sound; until the first failure it implements the contract NodeStorage write by write and loses no block. |
| defragment (pass) | `Defragment.cfg` | 5 blocks, 4 names, 3 failures | `DefragmentKeepsTree`, `NoNodeLost`, `FileIsCompact`, `FreeChainKept` | Every history of splits, merges and calls of Defragment on a file of five blocks, the last of which meets up to three failing reads and writes: the tree is kept unless a write of changed links is among the failures; without one the file holds nothing else afterwards and the free chain is sound; at every moment in between each node is held by a block in use. |
| encoding (pass) | `Encoding.cfg` | 28 schemas, 12 texts, bytes of 2 digits | `RoundTrip`, `OnlyInvalidTextOverruns`, `SignatureFixesParts` | Blueprints of every kind and of two levels, with every value of theirs and strings of valid and of invalid UTF-8: a value with valid strings is written within size() bytes and is read back with its declared cuts, an invalid one writes two bytes further at most, and schemas with equal signatures agree on the stored parts. |
| introspection (pass) | `Introspection.cfg` | 2 callers, 14 and 4 requests | `ResultIsTheTypes`, `RecursiveRefused`, `CreatesReturn` | Two callers create serializers for fourteen requests again and again over one cache: each result is that of the type alone, types that contain themselves are refused every time, and every call returns. |
| layout (pass) | `Layout.cfg` | 8 b, 5 a, 4 entry and 14 block sizes | `TypeOK`, `NodeFits`, `SmallestPadding`, `BlocksApart` | Parameters, entry sizes and block sizes on both sides of every branch: a node fits its block, blocks do not overlap, the padding is the documented one. |
| tree_file (violation) | `TreeFile.cfg` | (2,3), 4 keys, file | `DeleteDeletes` | Over PersistentStorage a Delete of a key in an inner node returns without error and leaves the key in the file. |
| persistent_reopen (violation) | `PersistentReopen.cfg` | 2 blocks, 1 stop, two configurations | `OwnFileOpens` | A file that NewPersistentStorage prepared is refused when it is opened again with the same parameters. |
| defragment_swallows (violation) | `DefragmentSwallows.cfg` | 5 blocks, 1 failure | `SuccessKeepsTree` | A write of a node's links fails, Defragment returns nil, and the tree is broken. |
| encoding_ignored_field (violation) | `EncodingIgnoredField.cfg` | two versions of a struct | `HeaderGuardsData` | Two versions of a struct that ignore different fields have one signature, and a value stored under the one is read into the other field. |

### Bounds, and why they are enough

* `Keys`, `a`, `b`. A (2,3)-tree is the smallest legal one and has the most
  structure per key. With seven keys it reaches depth 3, so that leaves and
  inner nodes split, merge and are repaired over two levels, the root is split
  at both kinds of node and collapses again. Nine keys are needed for an inner
  node to *lend* a child; the state space of all orders of nine keys is out of
  reach, so `TreeFileFaults` restricts the inserts to one end (`FromOneEnd`, an
  ACTION_CONSTRAINT): filled from below, inner nodes borrow from the right, filled
  from above, from the left. Deletes come in every order, from above only once
  there are nine keys, and then first one that leaves a gap, so that the tree is not
  filled up again (`NineFirst`). `OnlyChanges` drops, for all keys but two, `Get` and the deletion
  of absent keys. These constraints remove calls of the caller only, never a step
  of an operation; `FaultsAscending` removes failing calls on trees filled from above.
  `ImplementsMap` is checked with seven keys (and proved for all); over nine,
  `WellFormed`, `NothingLost` and `OneTupleChanges` say what it would, for the file.
  Wider nodes (b > 3) are covered by the proofs, not by a run.
* `Values`. A second value for one key (`OneKeyChanges`), which different
  insertion orders place in leaves, inner nodes and the root, makes replacing
  differ from keeping; where a property is about structure one value is enough.
* `Ids` has more ids than the largest tree, and the split in progress, need in the
  memory runs; the checks would see a tree that runs out, because `InsertNewId`
  would block and TLC report a deadlock. CHECK_DEADLOCK FALSE is said only where
  the system really stops: after a panic (`TreeFileFaults`, where a `Get` may
  panic on what a failure left), when the storage was refused or stopped as
  often as `MaxStops` allows (`Persistent`, `PersistentReopen`), after a
  `Defragment` that failed, after the value was read (`Encoding`), after `NewTree`
  (`Layout`). In `Introspection` a system that stops is what `CreatesReturn` looks
  for.
* `MaxFaults`. In `Tree` one failing call ends the operation, and no mutation
  follows, so one is all there is. A failure does not end `Defragment`: one in the
  save of a scanned node goes unnoticed, and one in a move is followed by a save that
  may fail too; three are the longest such sequence without a repetition. Nothing
  is called after it. `PersistentStorage` has two, so that a failure can meet the
  traces of an earlier one, and one stop of the process.
* `MaxId` (storages). Four blocks let the free chain have three links and be
  consumed in a different order than the file grew. Five let `Defragment` meet
  free blocks before, between and behind the nodes of a tree of three levels, and
  nodes whose children are moved before and after their parent.
* `Base = 2`, `Texts`, `Schemas`. With two digits to a byte every value of an
  8-byte number occurs, and with them every carry and sign. Runes of one, two and
  three bytes make a string end inside a rune at every offset; the invalid texts have
  either byte of a rune without the other, alone, behind and before a valid one. The schemas nest
  each kind in each kind that holds others, and slices are given one element more
  than they declare.
* `Types`, `Requests`. Every branch of `handleType` and `parseConfig` is taken by
  a type; the second caller asks for the types that share structs with the first
  one's, also through recursion. `MaxStack` is above the deepest call of a type
  that is refused in time.
* `Layout`. A word of 2 bytes and a `MaxUint32` of 8 bring both sides of each
  comparison within small numbers; block sizes are multiples, powers of two, odd
  and smaller than a node.

### Fairness

`FairSpec` is `Spec /\ WF_vars(Step)`. `Step` is what a running operation does
by itself: it is a loop of a running goroutine that waits for nobody, so it
keeps taking steps. Nothing is assumed of the caller: no operation need be
called and none need fail. `OperationsReturn` thus says that the loops end.

`FairSpec` of `Introspection` is weak fairness of `handleType(c)` for each caller:
a goroutine that runs keeps running, whatever the others do; `sync.Map` lets no
one wait. Nobody need call `Create`. `CreatesReturn` says that every call returns.

### What the violations show

Each is a disagreement between the code and what its documentation says.

* `tree_file` / `DeleteDeletes`: `Delete` of a key in an inner node does not
  delete it from a file (`tree_delete.go:35`, no `Persist`), and its predecessor
  is lost. Three inserts split the root; then the key left in
  the root is deleted. `OneTupleChanges` (`tree_file_faults`) says that this is
  all that goes wrong: the tuple with the next smaller key goes instead, no other.
* `persistent_reopen` / `OwnFileOpens`: `checkHeader` refuses the eternal
  identifier instead of everything else (`persistent.go:56`), so that no file
  can be opened a second time.
* `defragment_swallows` / `SuccessKeepsTree`: when a write of a node's links
  fails in the walk, `Defragment` goes on, cuts the file and returns nil
  (`persistent_defragmentation.go:84`), and the tree points to blocks that are
  gone.
* `encoding_ignored_field` / `HeaderGuardsData`: which field of the struct a stored
  field belongs to (`fieldIndex`) is not in the signature (`encoding/schema.go:204`), so a
  file written with one field ignored is accepted, and read into the other field,
  by a version that ignores that one.

The passing runs avoid the first (`ImplementsMap` is checked in memory only). The second
means that no passing run reads a file back after a stop: `DiskChainSound` speaks
about what the file holds at that moment. `DefragmentKeepsTree` leaves out the calls
in which a write of changed links failed (`called.unsaved`), whether `Defragment` then
reports success, as in the third, or returns the error of a move; that nothing else
loses the tree is what it says. `FreeChainKept` and `FileIsCompact` are stated for calls
without a failure. The tree runs have an odd b. `RoundTrip`
and `SignatureFixesParts` are about values whose strings are valid;
`OnlyInvalidTextOverruns` is about all. "method must write only upto size bytes"
(`encoding/schema.go:329`) does not hold as it stands: `stringBlueprint.to` checks the
bound with the width of the rune read and advances by that of the rune written
(`:157`, `:165`). An invalid byte is read as one byte and written as three, up to two of
them behind the string; where the buffer ends there, as it does for the last part of a
value in `Serialize`, `EncodeRune` panics. The property says that this happens to no
value whose strings are valid, and to the others by no more than two bytes.
`SignatureFixesParts` compares the stored parts in order, without the field each one is.

### What the properties do not claim

* `FreeChainSound` assumes the caller does not repeat a `Remove` that returned
  an error. A repeated one whose last write failed would link the block to
  itself, because `updateFreeId` has changed the field already. `Tree` never
  repeats a call.
* After a failed call `Tree` claims nothing about structure: `WellFormed`,
  `NothingLost`, `PanicFree` and `ErrorFree` are stated for `faults = 0`.
  `KeyStoredOnce`, `ValuesFit`, `ChildrenFit` and the types hold through failures. A failed split of the root
  can leave a root that points to two blocks without nodes: everything below is
  unreachable.
* `PanicFree` is proved for every odd `b`. With an even `b`, which `NewTree` accepts
  (`tree.go:46`), `splitFullNode` (`tree_insert.go:106`) reads the value behind the last
  one of a full node, and the first split ends in a panic. The other proofs include
  an even `b`.
* Nothing is called after a `Defragment` that failed. It resets `freeId` at its end
  only, so that after an error (`persistent_defragmentation.go:62`) the field may name a
  block that holds a node by then, and `NewId` refuses with "should be free but isn't"
  (`persistent.go:329`) until a `Remove` puts another block first. It may also leave a node in two blocks in use, and a repeated `Defragment` would move the
  children of the one nobody links to. Nor do the tree's operations fail in
  `Defragmentation`: a link to a freed block, which a `Delete` that failed half-way
  leaves, would be moved like a node.
* `TornPersist` is that of a 64-bit build: a link of the free chain has eight bytes,
  of which the first four are zero (ids below 2^32), so that a removed block that is
  brought back has no values. In a 32-bit build the link covers only the length of
  the values, which come back as many as the link's id says.
* The id of `NewId` is the number of whole blocks in `PersistentStorage`; that the
  division of `persistent.go:307` gives this number is `BlocksApart` of `Layout`.
* A file whose preparation was cut off before its metadata or its root were written:
  it cannot be opened again, and no comment says what should become of it.
* The tag of the example in the comments of `Create` (`size=10:elementSize=1`,
  `encoding/introspect.go:71`, `:87`) is refused, because the code separates by `;`.
  The type `Documented` has it; the reference `BlueprintOf` splits a tag as the code
  does, so that no property compares it with the comment.
* Types that refer to themselves without a struct (`type P *P`) are not among the
  types of `Introspection`: `handleType` never returns from them.
* The table of `file_format.md:34` places depth and free id of a 64-bit system in
  4 bytes each; the code writes a serialized `uint`, 8 bytes there. `Layout` has the size as `WordSize`.

## 4. Proofs

All with TLAPS, for every value of the constants that satisfies the named
assumptions: `KeysAssumption` (integer keys), `ParametersAssumption` (the check
of `NewTree` over unbounded naturals), `BackendAssumption` (memory never fails),
`NextIdsAssumption` (`NewId` answers ids not in use), `RootAssumption`,
`BoundsAssumption` for `InMemory`; `BoundsAssumption` (the bounds are naturals) and
`ContentsAssumption` (a node may be without values and without children) for
`PersistentStorage`; `LayoutAssumption` for `Layout`.

**`TreeProofs`** -- `TreeKeepsInvariant`: `Spec => []IInv`, and from it
`TreeTypes` (`[]TypeOK`) and `NodesFit` (`[]ValuesFit`). Neither is inductive by
itself. That the root stays stored needs that `Remove` is never pending for it,
which needs that the nodes on the path above its first element, and the current
node once there is a path, are not the root (`RootStays`), which in turn needs
that no node has the root as a child. That no node overflows needs that a node
holds `b` values only between the insertion into it and its split, at `grow`
(`CurFits`), and that the loop of `balanceTreeAfterDelete` always carries a node
with fewer than `b`: a merge joins at most `a-2` and `a-1` values and the one
between them, `2a-2 <= b-1` in all, which is where `b >= 2a-1` is used. The
position `hole` in `target` must exist because `PopLeaf` assigns to it.
`IInv == TypeOK /\ RootStays /\ ValuesFit /\ CurFits`.

`IInv` is split into four parts that the actions disturb separately
(`StorageOK`, `FitTodo`, `LocalsOK`, `HistoryOK`; lemma `Parts`), one lemma per
action shows that it keeps them, and one per mutated node that the result fits
(`SplitFits` and its like). The lemmas on the slice helpers stand
first: for each its type and length, and, for the helpers that move
children, the set of elements of the result and that none of them occurs twice. The
proofs cover failing calls and torn writes, both backends and even `b`: where the
code panics, the invariant still holds.

**`TreeStructureProofs`** -- the shape of the tree at every step of every
operation, as an inductive invariant `Structure` on top of `IInv`. While no call
has failed there are nodes `V`, those the storage holds once the calls of `todo`
are done, and a height `h` of every id, such that:

* `Leads`: the queued calls lead from `nodes` to `V`. They persist each node of `V`
  they mention as `V` has it, remove only stored nodes and none twice.
* `Ledger`: an issued id is a node's of `V`, is about to be removed, or is kept in
  `fresh` for a split that is under way; it is one of the three. This is what makes
  leaking an id, or removing one twice, a contradiction.
* `DepthOK`: the depth kept, or about to be, is the height of the root plus one.
* `Balanced`: an inner node has one child more than values, no child twice; a leaf
  has height 0; a node is one level above its children and has one parent; and no
  node but the root has fewer than `a-1` values. At `balance` and `fix` the node
  `Delete` has still to repair may lack one more (`Weak`), and at `grow` the tree is
  taken with `cur` in place of its node (`Grown`), since `Insert` persists a node
  only after it was split. The heights carry
  the depth of the leaves through merges and splits: a node keeps its own when it gets
  another parent.
* `Current`: the node the code holds is stored, as the code holds it.
* `Trail`: the stack is a path from the root down, and at every step of `Delete` the
  position it remembers is that of the child it went to. The siblings it then
  borrows from or merges with are found through these positions.

After a call failed only a `Get` may run. Each action has a lemma that gives the new
`V` and `h`: the lemmas `Linked...` say what moving children between two nodes,
splitting one off, joining two and putting in a new root or taking out the old one
do to parents and heights, free of sequences; the `...Shapes` lemmas
say what the slice operations make of a node. The height of a stored node changes only
for the root.

What follows, in the same module:

* `TreeKeepsStructure`: `Spec => [](IInv /\ Structure)`.
* `TreeAnswersNoError`: `ErrorFree`. Every node an operation loads is stored, because
  it is a child of a stored one, or on the path.
* `TreeNeverPanics`: `PanicFree`, for every odd `b`. A descent finds the child it
  goes to (`Shaped`), a repair has a sibling, because a parent has at least one
  value, and a sibling lends only what it has; an even `b` is the case the code gets wrong.
* `TreeRespectsStorage`: `RespectsStorage`, when no call fails (`MaxFaults = 0`;
  a call that fails is outside the contract of `NodeStorage`).
* `ChildrenFitBlocks`: `ChildrenFit`, through failures too: in `todo` it follows from
  `Shaped` and `ValuesFit`; a torn write leaves a block with the children it had.
* `TreeLosesNothing`: `NothingLost`.
* `TreeStaysBalanced`: `HeightBalanced`, which is what `checkNode` checks but for the
  order of the keys, without recursion: a level of each node takes the place of
  the walk.

**`SearchTreeProofs`** -- search trees without the steps of `Tree`. `Lo` and `Hi`
give each node the key above it and the one below it (sets of at most one key, the
root's are empty: `checkNode`'s `l` and `u`). A node's values with its two bounds at the ends
are its `Fences`, which ascend (`Rising`), and a child has the fences it hangs between
as its bounds (`Hung`); `Ordered` says so of all nodes. The lemmas:

* No key occurs twice (`TreeKeysOnce`). All keys of a node lie within the bounds of
  all the nodes above it (by induction on the height), and two nodes of which none is
  above the other lie in different gaps of a third one.
* A split, a new root, a borrow from either side, a merge and a root that is taken
  out leave the tree `Ordered`: for each there is what it does to the fences of the nodes
  concerned (`HungGrow`, `HungDrop`, `HungMove`, ...) and the new bounds.
* So do a tuple put in or taken out of a leaf, and the replacement of a key in an inner
  node by the largest in the subtree before it: the bound changes for the whole path down to
  the leaf it came from, which is done by mapping every key that is the old one to the new.

**`TreeOrderProofs`** -- the invariant `Order` on top of `IInv` and `Structure`. While no
call has failed:

* what is stored once the queued calls are done is `Ordered` (`Tidy`), at `grow` with `cur` in
  place of its node, which has just one value more than the stored one (`GrownBy`);
* the key that is looked for lies within the bounds of `cur`, and while `popLargest` descends
  the key that is to be replaced is the upper bound of `cur` (`Routed`);
* a queued call that brings a key to a node comes after the one that takes it from the node
  that holds it now (`QueueOrder`): the order of the writes in `splitFullNode`, `merge` and the
  borrows of `balanceTreeAfterDelete`.

At every moment, also after a failure, `KeysOnce(nodes)`. A call that is done keeps it by `QueueOrder`;
a torn write puts at most a prefix of the new values there, or of those that were there.
It follows:

* `TreeKeepsOrder`: `Spec => [](IInv /\ Structure /\ Order)`.
* `TreeStoresKeysOnce`: `KeyStoredOnce`, on either storage and through failures.
* `TreeStaysSorted`: `KeysSorted`, the part of `checkNode` that `TreeStaysBalanced` leaves out.

A split of the root that wrote the new root last would break `QueueOrder`; the runs then find a
key in two nodes.

**`TreeMapProofs`** -- `MemoryImplementsMap`: on `InMemoryStorage` `Spec => ImplementsMap`, for all
keys, values, `a` and `b`, an even `b` and its panic included. `Backend = "memory"` is a hypothesis
because the property is false of the file: the predecessor `Delete` puts in place of a key never
gets there (the finding of `DeleteDeletes`). The other hypothesis, that `"none"` is not in `Values`, is about the
specification: `"none"` stands for the answer that is not there yet. `TreeChangesOneTuple` is what
remains on either storage, as long as no call failed (a failing call leaves an operation half done,
and nothing puts it right): `Get` changes nothing and answers what is stored, `Insert` changes the
tuple of its key, `Delete` takes out the tuple of its key or, on a file, of the key before it.

An operation takes effect with its last write (`Committed`), so the tuples that are stored
in between are not those of any map; the invariant `MapInv` is about what is stored once the queued
calls are done, on either storage, until a call fails:

* `Amounts(Due)`: whatever nodes `todo` leads to, with `cur` in place of its node at `grow`, the
  tuples in them are `Due`: those stored when the operation began (`before`); without the
  key once `Delete` has decided to take it out (`Gone`: on a file, the predecessor's once `PopLeaf` took that); with the new tuple once `Insert` has put it into
  `cur`. Splits, borrows and merges move tuples and leave `Due` as it is. That holds of sets of
  tuples: each action's lemma in `TreeOrderProofs` also says of which tuples `todo` then
  holds the calls (`Leaves`), and `SearchTreeProofs` counts them (`Tuples`).
* `Asked`: the label belongs to the operation, the tuple `PopLeaf` replaces has the key of the request,
  a key that goes instead is the one before it (`Nearest`: the last value of the last leaf under a
  child is next to the value behind the child, `LastBefore`), and
  what an operation that is done returns is right. Here order comes in: where the key is not in the
  leaf it is routed to, it is in no node (`AbsentKey`), so that "not found" is the truth and a
  `Delete` that stops there has nothing to do.
* `Unique(before)`: from `KeysOnce`, without which tuples do not make a map.

`Dict...` say what taking a tuple out and putting one in do to the map. Then every step is one of
`KVStore` or a stutter (`RefinementStep`): a call is its `Accept`, the step after which an
operation is done and nothing is queued is its `Serve`, `Return` its `Answered`; a panic stutters, and nothing
follows it.

**`PersistentStorageProofs`** -- for every number of blocks, failing writes and
stops: `FreeChainIsSound`, `DiskChainIsSound`, `BlocksDoNotLeak`, `PersistentTypes`.
The properties walk the chain by its links; the invariant has the chains as
sequences, `s` the one the process follows from `freeId`, `t` the one in the file
(`LinkedFrom`: each block links to the next, none twice, none in use, none issued), and
the writes that are pending, method by method. The two chains differ where a failed
or an unfinished `Remove` or `NewId` was between the write to the block and the one to
the start. `Remove` needs that the block it writes to is in neither: it is in use, and no
block of a chain is. That no block leaks before the first failure is that `s`, the
ids in use and the one on its way are all blocks of the file. That the set of blocks the
links reach is the set of `s` is by induction over a finite set. The proof never
unfolds `checkHeader`, so it holds for any check of the header, the intended one
included, of a file that holds at least a header and a depth; one without a depth is
refused.

`PersistentImplementsStorage`: until the first failure or stop, every step of
`PersistentStorage` is one of the contract or a stutter. The mapping reads the file as
the pending writes will leave it (`Finished`), so that a method takes effect when it
starts: the writes of `Persist`, `Remove` and `SetDepth` change one block or the depth
and no other (`PersistApplied`, `RemoveApplied`), and a `Write` takes the first of
them and leaves `Finished` as it was (`AfterFirstWrite`). `NewId` takes effect with its
last write, which issues an id; that it is not in use is where the chain of `IInv`
comes in, or that the new block is beyond all others.

**`InMemoryProofs`** -- `IdsStayPartitioned`: the ids below `idCap` are in use
or on the stack, once each; inductive together with `TypeOK`.
`InMemoryImplementsStorage`: with that invariant every step of `InMemory` is a
step of the contract, or a stutter, under the identity mapping; the one that
needs it is `NewId`, whose id must not be in use.

`InMemoryTypes`: its `TypeOK`.

**`LayoutProofs`** -- for all parameters, entry sizes and block sizes: a node and
a link of the chain fit their block (`NodesFitTheirBlocks`), the padded size is
the smallest of the documented form (`PaddingIsSmallest`), blocks of different ids
share no byte and an end of the file inside a block is computed to be in it
(`AllBlocksApart`, for any set of ids), and `LayoutTypes`. The inductive invariant
`IInv` adds to `TypeOK` that a node fits at every round of the loop and that
`paddedNodeSize * halved` is the block size all the time, without which the last
round says nothing of the form `blockSize/2^n`. The nonlinear facts (`Apart`,
`IdInBlock` and the like) are lemmas of their own.

Model-checked only: the liveness properties (fairness and ENABLED are beyond this
prover); `WellFormed`, which is the recursive `checkNode` (`HeightBalanced` is proved in
its place, and `KeysSorted`); `DeleteDeletes`, which is
violated on a file and, of memory, part of `OneTupleChanges`; `Defragmentation`,
`Encoding` and `Introspection`, whose trees, blueprints and types are walked by
recursive operators, over data the prover has no induction for. `IInv` of
`TreeProofs` was checked with TLC on the instance of `TreeMemory.cfg` and on a file
with failures before it was proved; of `Structure`, whose nodes and heights TLC cannot
enumerate, `NothingLost`, `WellFormed`, `ChildrenFit`, `PanicFree` and
`RespectsStorage` are checked.

## 5. Not modelled, and why

* Reads and seeks that fail in `PersistentStorage` outside `Defragment`: they
  change nothing. (In `Tree` a failing read is part of `Fail`.)
* A write cut in the middle. The code has no protection against it, and no
  comment claims any.
* Opening a file again beyond the check of its header: no file passes it.
* `uint` wrap-around of `idCap` and of the depth (2^64 nodes), and an `a` or a
  depth that only a damaged file or a caller beyond reason brings (`a*2-1` wraps
  in `Layout` for `a` above half of `UintSpan`; the run stays below).
* Errors of writing to a `bytes.Buffer`, which do not occur; unexported
  fields, which reflection panics to set; the wording of errors.
* `CreateSliceForSerializer` and `CreateForTuple` beyond the constructors they
  apply; the generator's text templates, of which the generated methods are
  modelled.
* Storages and trees used by more than one goroutine: the package does not
  support it.

## 6. Plan

Done, in this order: `Slices`, `NodeStorage`, `KVStore`, `Tree` with its
properties and runs, `InMemory`, `PersistentStorage`, `TreeProofs`,
`InMemoryProofs`; `Defragmentation`, `Blueprints`, `Encoding`,
`Introspection`, `Layout`, `LayoutProofs`; `PersistentStorageProofs`,
`TreeStructureProofs`, `SearchTreeProofs`, `TreeOrderProofs`, `TreeMapProofs`.

Left:

* `PersistentTree`: `Tree`'s calls over `PersistentStorage` composed for a stop
  of the process in the middle of an operation.
