------------------------- MODULE PersistentStorage -------------------------
(***************************************************************************)
(* PersistentStorage (persistent.go): nodes in the blocks of a file, with  *)
(* the blocks of removed nodes linked into a chain that starts in the      *)
(* file's metadata.                                                        *)
(*                                                                         *)
(* A method hands the writes it makes, in the order of the code, to        *)
(* writes; they reach the file one per step, and the process may stop, or  *)
(* a write fail, before each of them.  One write of the code is taken to   *)
(* reach the file wholly or not at all.  The caller keeps the rules of the *)
(* interface NodeStorage.                                                  *)
(***************************************************************************)
EXTENDS Integers, Sequences

CONSTANTS Contents,   \* what the values of a node may be
          Links,      \* what its children may be
          Configs,    \* a, b, block size and serializers: what checkHeader compares
          MaxId,      \* bound on the blocks of the file
          MaxDepth,   \* bound on the depths the caller sets
          MaxFaults,  \* bound on the writes that fail
          MaxStops    \* bound on the times the process stops

ASSUME BoundsAssumption ==
    MaxId \in Nat /\ MaxDepth \in Nat /\ MaxFaults \in Nat /\ MaxStops \in Nat
\* A node may be without values, and is without children in a leaf.
ASSUME ContentsAssumption == <<>> \in Contents /\ <<>> \in Links

VARIABLES disk,     \* the file
          pc,       \* "closed", "open", "refused" (NewPersistentStorage failed)
          config,   \* the parameters the storage was last opened with
          depth, freeId,  \* the fields of PersistentStorage
          op,       \* the running method
          writes,   \* the writes it still makes
          issued,   \* history: the ids in use: the root's, and those handed out once
                    \* and not removed since
          faults, stops

vars == <<disk, pc, config, depth, freeId, op, writes, issued, faults, stops>>

rootId == 0
noFreeId == 0
Ids == 0 .. MaxId

\* A block: the flag, then either the values or, in a free block, the next free
\* id over the first bytes of the values, then the children.  A block of zeros
\* is free with next id 0.
Values(values) == [kind |-> "values", values |-> values]
NextFree(id) == [kind |-> "link", next |-> id]
ZeroBlock == [inUse |-> FALSE, body |-> NextFree(0), children |-> <<>>]

\* What is not written yet.  tail counts the bytes behind the last whole block.
NoHeader == [Identifier |-> "none", config |-> "none"]
NotWritten == -1
EmptyFile == [header |-> NoHeader, depth |-> NotWritten, free |-> NotWritten, blocks |-> <<>>,
              tail |-> 0]

Block(d, id) == d.blocks[id + 1]
Allocated(d) == 0 .. Len(d.blocks) - 1
Set(d, id, block) == [d EXCEPT !.blocks[id + 1] = block]

NoOp == [op |-> "none"]

Init ==
    /\ disk = EmptyFile
    /\ pc = "closed"
    /\ config \in Configs
    /\ depth = 0 /\ freeId = 0
    /\ op = NoOp /\ writes = <<>>
    /\ issued = {rootId}
    /\ faults = 0 /\ stops = 0

-----------------------------------------------------------------------------
(* The writes.                                                             *)

WriteHeader(c) == [to |-> "header", value |-> [Identifier |-> "eternal", config |-> c]]
WriteDepth(d) == [to |-> "depth", value |-> d]
WriteFree(id) == [to |-> "free", value |-> id]
WriteFlag(id, inUse) == [to |-> "flag", id |-> id, value |-> inUse]
WriteBody(id, body) == [to |-> "body", id |-> id, value |-> body]
WriteChildren(id, children) == [to |-> "children", id |-> id, value |-> children]
\* NewId writes the flag of a new block at the end of the file, and then zeros.
ExtendFlag == [to |-> "extend"]
ExtendRest == [to |-> "rest"]
\* Defragment copies whole blocks, and cuts the file before a block.
WriteBlock(id, block) == [to |-> "block", id |-> id, value |-> block]
Truncate(id) == [to |-> "truncate", id |-> id]

\* The file after write w.  After a lone ExtendFlag the file ends in one byte of a
\* block; the next pair of writes completes one block and leaves as much behind, and
\* one byte more when its ExtendRest fails too.  That these bytes are zeros and fewer
\* than a block bounds the failures by the block size.
Apply(d, w) ==
    CASE w.to = "header" -> [d EXCEPT !.header = w.value]
      [] w.to = "depth" -> [d EXCEPT !.depth = w.value]
      [] w.to = "free" -> [d EXCEPT !.free = w.value]
      [] w.to = "flag" -> Set(d, w.id, [Block(d, w.id) EXCEPT !.inUse = w.value])
      [] w.to = "body" -> Set(d, w.id, [Block(d, w.id) EXCEPT !.body = w.value])
      [] w.to = "children" -> Set(d, w.id, [Block(d, w.id) EXCEPT !.children = w.value])
      [] w.to = "block" -> Set(d, w.id, w.value)
      [] w.to = "truncate" -> [d EXCEPT !.blocks = SubSeq(d.blocks, 1, w.id), !.tail = 0]
      [] w.to = "extend" -> [d EXCEPT !.tail = @ + 1]
      [] w.to = "rest" -> [d EXCEPT !.blocks = Append(d.blocks, ZeroBlock), !.tail = @ - 1]

PersistWrites(node) ==
    <<WriteFlag(node.id, TRUE), WriteBody(node.id, Values(node.values)),
      WriteChildren(node.id, node.children)>>

RootNode == [id |-> rootId, values |-> <<>>, children |-> <<>>, leaf |-> TRUE]

-----------------------------------------------------------------------------
(* NewPersistentStorage and checkFile.                                     *)

\* An empty file: the header, the metadata, a first NewId and the root.
OpenEmpty(c) ==
    /\ pc = "closed"
    /\ disk.header = NoHeader
    /\ pc' = "open"
    /\ config' = c
    /\ depth' = 1 /\ freeId' = noFreeId
    /\ op' = [op |-> "open"]
    /\ writes' = <<WriteHeader(c), WriteDepth(1), WriteFree(noFreeId), ExtendFlag, ExtendRest>>
                   \o PersistWrites(RootNode)
    /\ UNCHANGED <<disk, issued, faults, stops>>

\* checkHeader: it is the eternal identifier that is refused (persistent.go:56).
checkHeader(header, c) ==
    /\ header.Identifier # "eternal"
    /\ header.config = c

\* A file with a header: it is checked, and then the metadata are loaded.  A file that
\* ends behind the depth gives no error: the free id is read as 0.
OpenExisting(c) ==
    /\ pc = "closed"
    /\ disk.header # NoHeader
    /\ config' = c
    /\ IF checkHeader(disk.header, c) /\ disk.depth # NotWritten
         THEN /\ pc' = "open" /\ depth' = disk.depth
              /\ freeId' = IF disk.free = NotWritten THEN noFreeId ELSE disk.free
         ELSE pc' = "refused" /\ UNCHANGED <<depth, freeId>>
    /\ UNCHANGED <<disk, op, writes, issued, faults, stops>>

\* Close, or the end of the process at any moment.
Stop ==
    /\ pc = "open"
    /\ stops < MaxStops
    /\ stops' = stops + 1
    /\ pc' = "closed"
    /\ depth' = 0 /\ freeId' = 0
    /\ op' = NoOp /\ writes' = <<>>
    /\ UNCHANGED <<disk, config, issued, faults>>

-----------------------------------------------------------------------------
(* The methods of NodeStorage.                                             *)

Ready == pc = "open" /\ op = NoOp

Start(o, w) ==
    /\ Ready
    /\ op' = o
    /\ writes' = w
    /\ UNCHANGED <<disk, pc, config, depth, freeId, faults, stops>>

Node == [id : Ids, values : Contents, children : Links, leaf : BOOLEAN]

\* A node read back is a leaf when it has no children.
Persist(node) ==
    /\ node.id \in issued
    /\ node.leaf <=> node.children = <<>>
    /\ Start([op |-> "Persist"], PersistWrites(node))
    /\ UNCHANGED issued

\* What Get finds: the block exists and its flag is set.
Stored(d) == {id \in Allocated(d) : Block(d, id).inUse}

\* Mutant: the chain's start is written before the link to the old start.
RemoveWrites_FreeFirst(id) ==
    <<WriteFlag(id, FALSE), WriteFree(id), WriteBody(id, NextFree(freeId))>>
\* Mutant: the old chain is dropped.
RemoveWrites_NoLink(id) ==
    <<WriteFlag(id, FALSE), WriteBody(id, NextFree(noFreeId)), WriteFree(id)>>
RemoveWrites(id) ==
    <<WriteFlag(id, FALSE), WriteBody(id, NextFree(freeId)), WriteFree(id)>>

Remove(id) ==
    /\ id \in Stored(disk) \ {rootId}
    /\ Start([op |-> "Remove"], RemoveWrites(id))
    /\ issued' = issued \ {id}

\* No block is free: the file grows by one.  The id is that of the end of the
\* file, rounded down when the file ends in a part of a block.
NewIdAtEnd ==
    /\ freeId = noFreeId
    /\ Len(disk.blocks) <= MaxId
    /\ Start([op |-> "NewId", id |-> Len(disk.blocks)], <<ExtendFlag, ExtendRest>>)
    /\ UNCHANGED issued

\* The first block of the chain; the link is read from the block.  A free block
\* whose link was overwritten by values would give any id.
NextIn(block) == IF block.body.kind = "link" THEN {block.body.next} ELSE Ids
\* Mutant: the start of the chain is not moved.
NewIdWrites_Stay(next) == <<WriteFree(freeId)>>
\* Mutant: the start is moved one too far.
NewIdWrites_PastNext(next) == <<WriteFree(next + 1)>>
NewIdWrites(next) == <<WriteFree(next)>>

NewIdFromChain ==
    /\ freeId # noFreeId
    /\ freeId \in Allocated(disk)
    /\ ~Block(disk, freeId).inUse
    /\ \E next \in NextIn(Block(disk, freeId)) :
          Start([op |-> "NewId", id |-> freeId], NewIdWrites(next))
    /\ UNCHANGED issued

SetDepth(d) ==
    /\ Start([op |-> "SetDepth"], <<WriteDepth(d)>>)
    /\ UNCHANGED issued

\* updateFreeId and SetDepth change the field before they write it to the file.
SetFields(w) ==
    /\ freeId' = IF w.to = "free" THEN w.value ELSE freeId
    /\ depth' = IF w.to = "depth" THEN w.value ELSE depth

\* An id in use that is handed out again has two owners and is in nobody's use
\* alone: it leaves issued without a Remove, which the contract forbids.
HandOut(id) == IF id \in issued THEN issued \ {id} ELSE issued \cup {id}

\* The next write reaches the file; after the last one the method returns.
Write ==
    /\ writes # <<>>
    /\ disk' = Apply(disk, Head(writes))
    /\ SetFields(Head(writes))
    /\ writes' = Tail(writes)
    /\ op' = IF Tail(writes) = <<>> THEN NoOp ELSE op
    /\ issued' = IF Tail(writes) = <<>> /\ op.op = "NewId" THEN HandOut(op.id) ELSE issued
    /\ UNCHANGED <<pc, config, faults, stops>>

\* The next write fails and the method returns its error; NewId's id is lost.
\* When it happens in NewPersistentStorage, there is no storage.
Fail ==
    /\ writes # <<>>
    /\ faults < MaxFaults
    /\ faults' = faults + 1
    /\ SetFields(Head(writes))
    /\ writes' = <<>>
    /\ op' = NoOp
    /\ pc' = IF op.op = "open" THEN "refused" ELSE pc
    /\ UNCHANGED <<disk, config, issued, stops>>

Next ==
    \/ \E c \in Configs : OpenEmpty(c)
    \/ \E c \in Configs : OpenExisting(c)
    \/ Stop
    \/ \E node \in Node : Persist(node)
    \/ \E id \in Ids : Remove(id)
    \/ NewIdAtEnd
    \/ NewIdFromChain
    \/ \E d \in 1 .. MaxDepth : SetDepth(d)
    \/ Write
    \/ Fail

Spec == Init /\ [][Next]_vars

-----------------------------------------------------------------------------
(* Properties.                                                             *)

Headers == {NoHeader} \cup [Identifier : {"eternal"}, config : Configs]
Bodies == {Values(v) : v \in Contents} \cup {NextFree(id) : id \in Ids}
Blocks == [inUse : BOOLEAN, body : Bodies, children : Links]
Files ==
    [header : Headers, depth : 0 .. MaxDepth + 1 \cup {NotWritten}, free : Ids \cup {NotWritten},
     blocks : Seq(Blocks), tail : Int]
Methods == [op : {"none", "open", "Persist", "Remove", "SetDepth"}] \cup [op : {"NewId"}, id : Ids]

\* The file, the fields and the running method have their types, and the file grows
\* to at most MaxId + 1 blocks.
TypeOK ==
    /\ disk \in Files
    /\ Len(disk.blocks) <= MaxId + 1
    /\ depth \in 0 .. MaxDepth + 1
    /\ freeId \in Ids
    /\ config \in Configs
    /\ pc \in {"closed", "open", "refused"}
    /\ op \in Methods
    /\ issued \subseteq Ids
    /\ faults \in 0 .. MaxFaults /\ stops \in 0 .. MaxStops

\* The blocks met when the links are followed from the block start; as many
\* steps as the file has blocks leave a sound chain.
Chain(start) ==
    LET visit[n \in 0 .. MaxId + 1] ==
            IF n = 0 THEN start
            ELSE IF visit[n - 1] = noFreeId THEN noFreeId
            ELSE IF visit[n - 1] \notin Allocated(disk) THEN visit[n - 1]
            ELSE CHOOSE next \in NextIn(Block(disk, visit[n - 1])) : TRUE
    IN [n \in 0 .. MaxId + 1 |-> visit[n]]
ChainIds(start) == {Chain(start)[n] : n \in 0 .. MaxId + 1} \ {noFreeId}

\* A chain ends, visits only blocks of the file that are not in use, hold a link
\* and belong to nobody.
SoundChain(start) ==
    /\ Chain(start)[MaxId + 1] = noFreeId
    /\ \A id \in ChainIds(start) :
          /\ id \in Allocated(disk) \ issued
          /\ ~Block(disk, id).inUse
          /\ Block(disk, id).body.kind = "link"

\* NewId never hands out a block in use nor one it handed out before, and never
\* answers "should be free but isn't": at every moment, also within Remove and
\* after a write that failed, the chain the process follows is sound.
FreeChainSound == pc = "open" => SoundChain(freeId)

\* So is the chain in the file at every moment: whenever the process stops, what
\* it leaves behind loses blocks at worst.
DiskChainSound == disk.free # NotWritten => SoundChain(disk.free)

\* When no write failed and no method is running, every block of the file is in
\* somebody's hands or in the chain: no space leaks.
NoBlockLeaks ==
    Ready /\ faults = 0 /\ stops = 0 => Allocated(disk) = issued \cup ChainIds(freeId)

\* A method takes effect on what Get returns when it starts, and NewId when it
\* returns.  Its remaining writes finish what the caller already counts on.
AfterWrites(d, w) ==
    LET file[n \in 0 .. Len(w)] == IF n = 0 THEN d ELSE Apply(file[n - 1], w[n])
    IN file[Len(w)]
Finished == AfterWrites(disk, writes)
StoredNode(d, id) ==
    LET block == Block(d, id) IN
    [id |-> id, values |-> block.body.values, children |-> block.children,
     leaf |-> block.children = <<>>]
ReadNodes ==
    IF disk.header = NoHeader /\ writes = <<>> THEN [id \in {rootId} |-> RootNode]
    ELSE [id \in Stored(Finished) |-> StoredNode(Finished, id)]
ReadDepth == IF disk.header = NoHeader /\ writes = <<>> THEN 1 ELSE Finished.depth
NS == INSTANCE NodeStorage WITH nodes <- ReadNodes, depth <- ReadDepth

\* As long as no write failed and the process runs, a storage on a new file keeps
\* the contract of NodeStorage: Persist and Remove change the node they are given
\* and no other, and NewId returns only ids that are not in use.
ImplementsStorage ==
    /\ NS!StorageInit
    /\ [][faults' = 0 /\ stops' = 0 => NS!StorageNext \/ UNCHANGED NS!storageVars]_vars

\* NewPersistentStorage refuses only a file that "contains incompatible data"
\* (persistent.go:152): one it prepared completely itself opens again with the same
\* parameters.
OwnFileOpens ==
    pc = "refused" /\ faults = 0 /\ rootId \in Stored(disk) => disk.header.config # config
=============================================================================
