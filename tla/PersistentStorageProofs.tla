---------------------- MODULE PersistentStorageProofs ----------------------
(***************************************************************************)
(* The free chain of PersistentStorage, for every number of blocks, of     *)
(* writes that fail and of times the process stops, and whatever nodes are *)
(* stored.                                                                 *)
(***************************************************************************)
EXTENDS PersistentStorage, SequenceTheorems, FiniteSetTheorems, WellFoundedInduction, TLAPS

-----------------------------------------------------------------------------
(* The inductive invariant.                                                *)

\* The links of file d lead from the block start through the blocks of s: blocks
\* of the file that are not in use and belong to nobody.
LinkedFrom(d, owned, start, s) ==
    /\ s \in Seq(Ids)
    /\ start = IF s = <<>> THEN noFreeId ELSE s[1]
    /\ \A j, k \in DOMAIN s : s[j] = s[k] => j = k
    /\ \A k \in DOMAIN s :
          /\ s[k] # noFreeId
          /\ s[k] \in Allocated(d) \ owned
          /\ ~Block(d, s[k]).inUse
          /\ Block(d, s[k]).body = NextFree(IF k = Len(s) THEN noFreeId ELSE s[k + 1])

\* A file without a header is empty; the depth is in the file before the start of the
\* chain, and before any method of the storage runs; a file that was never closed and
\* is not open has not been opened.
FileOK ==
    /\ disk.header = NoHeader =>
          /\ disk = EmptyFile
          /\ issued = {rootId}
    /\ disk.free # NotWritten => disk.depth # NotWritten
    /\ pc = "open" /\ op.op # "open" => disk.header # NoHeader /\ disk.depth # NotWritten
    /\ pc = "closed" /\ stops = 0 => disk.header = NoHeader

\* The process follows the chain s, the file holds the chain t; extra is the block
\* that is on its way from its owner to the chain.
NoLeak(s, extra) ==
    faults = 0 /\ stops = 0 => Allocated(disk) = issued \cup Range(s) \cup extra

NonePending(s) ==
    /\ op = NoOp
    /\ writes = <<>>
    /\ pc = "open" => NoLeak(s, {})

OpenPending ==
    /\ op = [op |-> "open"] /\ pc = "open"
    /\ freeId = noFreeId
    /\ issued = {rootId}
    /\ LET flag == WriteFlag(rootId, TRUE)
           body == WriteBody(rootId, Values(<<>>))
           children == WriteChildren(rootId, <<>>)
       IN \/ /\ disk = EmptyFile
             /\ writes = <<WriteHeader(config), WriteDepth(1), WriteFree(noFreeId),
                           ExtendFlag, ExtendRest, flag, body, children>>
          \/ /\ disk.header # NoHeader
             /\ disk.blocks = <<>>
             /\ writes = <<WriteDepth(1), WriteFree(noFreeId), ExtendFlag, ExtendRest,
                           flag, body, children>>
          \/ /\ disk.header # NoHeader /\ disk.depth # NotWritten
             /\ disk.blocks = <<>>
             /\ \/ writes = <<WriteFree(noFreeId), ExtendFlag, ExtendRest, flag, body, children>>
                \/ writes = <<ExtendFlag, ExtendRest, flag, body, children>>
                \/ writes = <<ExtendRest, flag, body, children>>
          \/ /\ disk.header # NoHeader /\ disk.depth # NotWritten
             /\ Len(disk.blocks) = 1
             /\ \/ writes = <<flag, body, children>>
                \/ writes = <<body, children>>
                \/ writes = <<children>>

PersistPending(s) ==
    /\ op = [op |-> "Persist"] /\ pc = "open"
    /\ NoLeak(s, {})
    /\ \E id \in issued, v \in Contents, c \in Links :
          \/ writes = <<WriteFlag(id, TRUE), WriteBody(id, Values(v)), WriteChildren(id, c)>>
          \/ writes = <<WriteBody(id, Values(v)), WriteChildren(id, c)>>
          \/ writes = <<WriteChildren(id, c)>>

RemovePending(s, t) ==
    /\ op = [op |-> "Remove"] /\ pc = "open"
    /\ \E id \in Allocated(disk) \ issued :
          /\ id \in Ids \ {rootId} /\ id \notin Range(s) \cup Range(t)
          /\ NoLeak(s, {id})
          /\ \/ writes = <<WriteFlag(id, FALSE), WriteBody(id, NextFree(freeId)), WriteFree(id)>>
             \/ /\ ~Block(disk, id).inUse
                /\ writes = <<WriteBody(id, NextFree(freeId)), WriteFree(id)>>
             \/ /\ ~Block(disk, id).inUse
                /\ Block(disk, id).body = NextFree(freeId)
                /\ writes = <<WriteFree(id)>>

NewIdPending(s) ==
    /\ pc = "open"
    /\ NoLeak(s, {})
    /\ \/ /\ op = [op |-> "NewId", id |-> Len(disk.blocks)]
          /\ freeId = noFreeId
          /\ Len(disk.blocks) <= MaxId
          /\ writes \in {<<ExtendFlag, ExtendRest>>, <<ExtendRest>>}
       \/ /\ op = [op |-> "NewId", id |-> freeId]
          /\ s # <<>>
          /\ writes = <<WriteFree(IF Len(s) = 1 THEN noFreeId ELSE s[2])>>

SetDepthPending(s) ==
    /\ op = [op |-> "SetDepth"] /\ pc = "open"
    /\ NoLeak(s, {})
    /\ \E d \in 1 .. MaxDepth : writes = <<WriteDepth(d)>>

ChainsOK(s, t) ==
    /\ IF pc = "open" THEN LinkedFrom(disk, issued, freeId, s) ELSE s = <<>>
    /\ IF disk.free # NotWritten THEN LinkedFrom(disk, issued, disk.free, t) ELSE t = <<>>
    /\ \/ NonePending(s)
       \/ OpenPending
       \/ PersistPending(s)
       \/ RemovePending(s, t)
       \/ NewIdPending(s)
       \/ SetDepthPending(s)

IInv == TypeOK /\ FileOK /\ \E s, t \in Seq(Ids) : ChainsOK(s, t)

-----------------------------------------------------------------------------
(* Writes.                                                                 *)

\* File e is file d but for the block id.
OnlyBlock(d, e, id) ==
    /\ e \in Files
    /\ e.header = d.header /\ e.depth = d.depth /\ e.free = d.free
    /\ Len(e.blocks) = Len(d.blocks)
    /\ Allocated(e) = Allocated(d)
    /\ \A i \in Allocated(d) : i # id => Block(e, i) = Block(d, i)

LEMMA FileParts ==
    ASSUME NEW d \in Files
    PROVE  /\ d.header \in Headers /\ d.depth \in 0 .. MaxDepth + 1 \cup {NotWritten}
           /\ d.free \in Ids \cup {NotWritten}
           /\ d.blocks \in Seq(Blocks) /\ Len(d.blocks) \in Nat
           /\ DOMAIN d.blocks = 1 .. Len(d.blocks)
           /\ Allocated(d) = 0 .. Len(d.blocks) - 1
           /\ \A i \in Allocated(d) : Block(d, i) \in Blocks
BY DEF Files, Allocated, Block

LEMMA SetBlock ==
    ASSUME NEW d \in Files, NEW id \in Ids, NEW block, id \in Allocated(d) => block \in Blocks
    PROVE  /\ OnlyBlock(d, Set(d, id, block), id)
           /\ id \in Allocated(d) => Block(Set(d, id, block), id) = block
<1> DEFINE old == d.blocks
           new == [d.blocks EXCEPT ![id + 1] = block]
<1>1. id \in Int /\ old \in Seq(Blocks) /\ Len(old) \in Nat /\ DOMAIN old = 1 .. Len(old)
  BY FileParts, BoundsAssumption DEF Ids
<1>2. DOMAIN new = DOMAIN old /\ \A k \in DOMAIN old : new[k] = IF k = id + 1 THEN block ELSE old[k]
  BY <1>1
<1>3. \A k \in DOMAIN old : new[k] \in Blocks
  <2>1. \A k \in DOMAIN old : k = id + 1 => id \in Allocated(d)
    BY <1>1 DEF Allocated
  <2> QED
    BY <1>1, <1>2, <2>1
<1>4. new \in Seq(Blocks) /\ Len(new) = Len(old)
  <2>1. new = [k \in 1 .. Len(old) |-> new[k]]
    BY <1>1
  <2> HIDE DEF new
  <2>2. new \in [1 .. Len(old) -> Blocks]
    BY <1>1, <1>2, <1>3, <2>1
  <2> QED
    BY <1>1, <2>2
<1>5. Set(d, id, block) = [d EXCEPT !.blocks = new]
  BY DEF Set
<1> HIDE DEF new
<1>6. LET e == [d EXCEPT !.blocks = new]
      IN e \in Files /\ e.header = d.header /\ e.depth = d.depth /\ e.free = d.free /\ e.blocks = new
  BY <1>4 DEF Files
<1> DEFINE e == [d EXCEPT !.blocks = new]
<1>7. e \in Files /\ e.header = d.header /\ e.depth = d.depth /\ e.free = d.free /\ e.blocks = new
  BY <1>6
<1> HIDE DEF e
<1>8. \A i \in Allocated(d) : Block(e, i) = IF i = id THEN block ELSE Block(d, i)
  BY <1>1, <1>2, <1>7 DEF Allocated, Block
<1>9. OnlyBlock(d, e, id) /\ (id \in Allocated(d) => Block(e, id) = block)
  BY <1>4, <1>7, <1>8 DEF OnlyBlock, Allocated
<1> QED
  BY <1>5, <1>9 DEF e

\* The three writes to one block.
LEMMA ApplyFlag ==
    ASSUME NEW d \in Files, NEW id \in Ids, NEW v \in BOOLEAN
    PROVE  LET e == Apply(d, WriteFlag(id, v))
           IN /\ OnlyBlock(d, e, id)
              /\ id \in Allocated(d) /\ ~v => ~Block(e, id).inUse
<1>1. Apply(d, WriteFlag(id, v)) = Set(d, id, [Block(d, id) EXCEPT !.inUse = v])
  BY DEF Apply, WriteFlag
<1>2. id \in Allocated(d) => [Block(d, id) EXCEPT !.inUse = v] \in Blocks
                             /\ [Block(d, id) EXCEPT !.inUse = v].inUse = v
  BY FileParts DEF Blocks
<1> HIDE DEF Apply, Set
<1> QED
  BY <1>1, <1>2, SetBlock

LEMMA ApplyBody ==
    ASSUME NEW d \in Files, NEW id \in Ids, NEW b \in Bodies
    PROVE  LET e == Apply(d, WriteBody(id, b))
           IN /\ OnlyBlock(d, e, id)
              /\ id \in Allocated(d) =>
                    Block(e, id).inUse = Block(d, id).inUse /\ Block(e, id).body = b
<1>1. Apply(d, WriteBody(id, b)) = Set(d, id, [Block(d, id) EXCEPT !.body = b])
  BY DEF Apply, WriteBody
<1>2. id \in Allocated(d) => /\ [Block(d, id) EXCEPT !.body = b] \in Blocks
                             /\ [Block(d, id) EXCEPT !.body = b].body = b
                             /\ [Block(d, id) EXCEPT !.body = b].inUse = Block(d, id).inUse
  BY FileParts DEF Blocks
<1> QED
  BY <1>1, <1>2, SetBlock

LEMMA ApplyChildren ==
    ASSUME NEW d \in Files, NEW id \in Ids, NEW c \in Links
    PROVE  OnlyBlock(d, Apply(d, WriteChildren(id, c)), id)
<1>1. Apply(d, WriteChildren(id, c)) = Set(d, id, [Block(d, id) EXCEPT !.children = c])
  BY DEF Apply, WriteChildren
<1>2. id \in Allocated(d) => [Block(d, id) EXCEPT !.children = c] \in Blocks
  BY FileParts DEF Blocks
<1> QED
  BY <1>1, <1>2, SetBlock

\* The writes to the metadata leave the blocks alone.
LEMMA ApplyMetadata ==
    ASSUME NEW d \in Files
    PROVE  /\ \A c \in Configs : LET e == Apply(d, WriteHeader(c)) IN
                 /\ e \in Files /\ e.header # NoHeader
                 /\ e.depth = d.depth /\ e.free = d.free /\ e.blocks = d.blocks
           /\ \A n \in 0 .. MaxDepth + 1 : LET e == Apply(d, WriteDepth(n)) IN
                 /\ e \in Files /\ e.header = d.header
                 /\ e.depth = n /\ e.free = d.free /\ e.blocks = d.blocks
           /\ \A id \in Ids : LET e == Apply(d, WriteFree(id)) IN
                 /\ e \in Files /\ e.header = d.header
                 /\ e.depth = d.depth /\ e.free = id /\ e.blocks = d.blocks
BY DEF Apply, WriteHeader, WriteDepth, WriteFree, Files, Headers, NoHeader

\* The file grows by one free block.
LEMMA ApplyExtend ==
    ASSUME NEW d \in Files
    PROVE  /\ LET e == Apply(d, ExtendFlag) IN
                 /\ e \in Files /\ e.header = d.header
                 /\ e.depth = d.depth /\ e.free = d.free /\ e.blocks = d.blocks
           /\ LET e == Apply(d, ExtendRest) IN
                 /\ e \in Files /\ e.header = d.header
                 /\ e.depth = d.depth /\ e.free = d.free
                 /\ Len(e.blocks) = Len(d.blocks) + 1
                 /\ Allocated(e) = Allocated(d) \cup {Len(d.blocks)}
                 /\ \A i \in Allocated(d) : Block(e, i) = Block(d, i)
                 /\ Block(e, Len(d.blocks)) = ZeroBlock
<1>1. ZeroBlock \in Blocks
  BY ContentsAssumption, BoundsAssumption DEF ZeroBlock, Blocks, Bodies, Ids
<1> DEFINE new == Append(d.blocks, ZeroBlock)
<1>2. /\ new \in Seq(Blocks) /\ Len(new) = Len(d.blocks) + 1
      /\ \A k \in DOMAIN d.blocks : new[k] = d.blocks[k]
      /\ new[Len(d.blocks) + 1] = ZeroBlock
  <2>1. d.blocks \in Seq(Blocks)
    BY FileParts
  <2> QED
    BY <1>1, <2>1
<1> HIDE DEF new
<1>3. Apply(d, ExtendRest) = [d EXCEPT !.blocks = new, !.tail = @ - 1]
  BY DEF Apply, ExtendRest, new
<1>4. Apply(d, ExtendFlag) = [d EXCEPT !.tail = @ + 1]
  BY DEF Apply, ExtendFlag
<1>5. LET e == [d EXCEPT !.blocks = new, !.tail = @ - 1]
      IN /\ e \in Files /\ e.header = d.header
         /\ e.depth = d.depth /\ e.free = d.free /\ e.blocks = new
  <2>1. d.tail - 1 \in Int
    BY DEF Files
  <2> DEFINE tail == d.tail - 1
  <2> HIDE DEF tail
  <2>2. tail \in Int
    BY <2>1 DEF tail
  <2>3. LET e == [d EXCEPT !.blocks = new, !.tail = tail]
        IN /\ e \in Files /\ e.header = d.header
           /\ e.depth = d.depth /\ e.free = d.free /\ e.blocks = new
    BY <1>2, <2>2 DEF Files
  <2> QED
    BY <2>3 DEF tail
<1>6. LET e == [d EXCEPT !.tail = @ + 1]
      IN /\ e \in Files /\ e.header = d.header
         /\ e.depth = d.depth /\ e.free = d.free /\ e.blocks = d.blocks
  BY DEF Files
<1> DEFINE e == Apply(d, ExtendRest)
<1>7. e \in Files /\ e.header = d.header /\ e.depth = d.depth /\ e.free = d.free /\ e.blocks = new
  BY <1>3, <1>5
<1> HIDE DEF e
<1>8. /\ Allocated(e) = Allocated(d) \cup {Len(d.blocks)}
      /\ \A i \in Allocated(d) : Block(e, i) = Block(d, i)
      /\ Block(e, Len(d.blocks)) = ZeroBlock
  BY <1>2, <1>7, FileParts DEF Allocated, Block
<1> QED
  BY <1>2, <1>4, <1>6, <1>7, <1>8 DEF e

-----------------------------------------------------------------------------
(* Chains.                                                                 *)

LEMMA RanParts ==
    ASSUME NEW s \in Seq(Ids)
    PROVE  /\ Len(s) \in Nat /\ DOMAIN s = 1 .. Len(s)
           /\ \A k \in 1 .. Len(s) : s[k] \in Ids /\ s[k] \in Range(s)
           /\ s # <<>> => s[1] \in Range(s)
           /\ s = <<>> => Range(s) = {}
           /\ Range(s) \subseteq Ids
BY DEF Range

\* A chain is not disturbed by what happens to other blocks.
LEMMA LinkedStays ==
    ASSUME NEW d \in Files, NEW e \in Files, NEW owned, NEW others, NEW start, NEW s,
           LinkedFrom(d, owned, start, s),
           Len(d.blocks) <= Len(e.blocks),
           \A i \in Range(s) : Block(e, i) = Block(d, i) /\ i \notin others
    PROVE  LinkedFrom(e, others, start, s)
<1>1. Allocated(d) \subseteq Allocated(e)
  BY FileParts DEF Allocated
<1> QED
  BY <1>1 DEF LinkedFrom, Range

\* Neither by writes to the metadata.
LEMMA LinkedBlocks ==
    ASSUME NEW d, NEW e, e.blocks = d.blocks, NEW owned, NEW start, NEW s,
           LinkedFrom(d, owned, start, s)
    PROVE  LinkedFrom(e, owned, start, s)
BY DEF LinkedFrom, Allocated, Block

LEMMA ChainAllocated ==
    ASSUME NEW d, NEW owned, NEW start, NEW s, LinkedFrom(d, owned, start, s)
    PROVE  /\ s \in Seq(Ids) /\ Range(s) \subseteq Allocated(d) \ owned
           /\ \A i \in Range(s) : ~Block(d, i).inUse /\ i # noFreeId
           /\ start = noFreeId <=> s = <<>>
BY DEF LinkedFrom, Range

\* A block joins the chain at its start.
LEMMA ChainGrows ==
    ASSUME NEW d, NEW owned, NEW start, NEW s, LinkedFrom(d, owned, start, s),
           NEW id \in Ids \ {noFreeId}, id \in Allocated(d) \ owned, id \notin Range(s),
           ~Block(d, id).inUse, Block(d, id).body = NextFree(start)
    PROVE  /\ LinkedFrom(d, owned, id, <<id>> \o s)
           /\ <<id>> \o s \in Seq(Ids)
           /\ Range(<<id>> \o s) = Range(s) \cup {id}
<1> DEFINE t == <<id>> \o s
<1>1. s \in Seq(Ids) /\ Len(s) \in Nat /\ DOMAIN s = 1 .. Len(s)
  BY DEF LinkedFrom
<1>2. /\ t \in Seq(Ids) /\ t # <<>> /\ Len(t) = Len(s) + 1 /\ DOMAIN t = 1 .. Len(s) + 1
      /\ t[1] = id /\ \A k \in 2 .. Len(s) + 1 : t[k] = s[k - 1]
  BY <1>1
<1>3. \A k \in 1 .. Len(s) : t[k + 1] = s[k]
  BY <1>1, <1>2
<1> HIDE DEF t
<1>4. Range(t) = Range(s) \cup {id}
  <2>1. \A k \in DOMAIN t : t[k] \in Range(s) \cup {id}
    <3> TAKE k \in DOMAIN t
    <3>1. k # 1 => k \in 2 .. Len(s) + 1 /\ k - 1 \in DOMAIN s
      BY <1>1, <1>2
    <3>2. k # 1 => t[k] = s[k - 1]
      BY <1>2, <3>1
    <3> QED
      BY <1>2, <3>1, <3>2 DEF Range
  <2>2. \A k \in DOMAIN s : k + 1 \in DOMAIN t
    BY <1>1, <1>2
  <2>3. 1 \in DOMAIN t
    BY <1>1, <1>2
  <2> QED
    BY <1>1, <1>2, <1>3, <2>1, <2>2, <2>3 DEF Range
<1>5. \A j, k \in DOMAIN t : t[j] = t[k] => j = k
  <2>1. \A k \in 1 .. Len(s) : s[k] # id
    BY <1>1 DEF Range
  <2>2. \A j, k \in 1 .. Len(s) : s[j] = s[k] => j = k
    BY <1>1 DEF LinkedFrom
  <2> QED
    BY <1>1, <1>2, <2>1, <2>2
<1>6. ASSUME NEW k \in DOMAIN t
      PROVE  /\ t[k] # noFreeId
             /\ t[k] \in Allocated(d) \ owned
             /\ ~Block(d, t[k]).inUse
             /\ Block(d, t[k]).body = NextFree(IF k = Len(t) THEN noFreeId ELSE t[k + 1])
  <2>1. CASE k = 1
    <3>1. start = IF s = <<>> THEN noFreeId ELSE s[1]
      BY DEF LinkedFrom
    <3>2. start = IF k = Len(t) THEN noFreeId ELSE t[k + 1]
      BY <1>1, <1>2, <1>3, <2>1, <3>1
    <3> QED
      BY <1>2, <2>1, <3>2
  <2>2. CASE k # 1
    <3>1. k - 1 \in 1 .. Len(s) /\ t[k] = s[k - 1]
      BY <1>1, <1>2, <2>2
    <3>2. IF k = Len(t) THEN k - 1 = Len(s) ELSE k - 1 # Len(s) /\ t[k + 1] = s[k - 1 + 1]
      BY <1>1, <1>2, <2>2
    <3> QED
      BY <1>1, <3>1, <3>2 DEF LinkedFrom
  <2> QED
    BY <2>1, <2>2
<1>7. LinkedFrom(d, owned, id, t)
  BY <1>2, <1>5, <1>6 DEF LinkedFrom
<1> QED
  BY <1>2, <1>4, <1>7 DEF t

\* The start of the chain where NewId moves it.
AfterFirst(s) == IF Len(s) = 1 THEN noFreeId ELSE s[2]

LEMMA ChainShrinks ==
    ASSUME NEW d, NEW owned, NEW start, NEW s, LinkedFrom(d, owned, start, s), s # <<>>
    PROVE  /\ LinkedFrom(d, owned, AfterFirst(s), Tail(s))
           /\ LinkedFrom(d, owned \cup {start}, AfterFirst(s), Tail(s))
           /\ Tail(s) \in Seq(Ids)
           /\ start = s[1] /\ start \in Range(s) /\ Range(Tail(s)) = Range(s) \ {start}
           /\ AfterFirst(s) \in Ids
           /\ Block(d, start).body = NextFree(AfterFirst(s))
<1> DEFINE t == Tail(s)
<1>1. s \in Seq(Ids) /\ Len(s) \in Nat \ {0} /\ DOMAIN s = 1 .. Len(s) /\ start = s[1]
  BY DEF LinkedFrom
<1>2. /\ t \in Seq(Ids) /\ Len(t) = Len(s) - 1 /\ DOMAIN t = 1 .. Len(s) - 1
      /\ \A k \in 1 .. Len(s) - 1 : t[k] = s[k + 1]
      /\ t = <<>> <=> Len(s) = 1
  <2>1. t \in Seq(Ids) /\ Len(t) = Len(s) - 1 /\ \A k \in 1 .. Len(t) : t[k] = s[k + 1]
    BY <1>1, HeadTailProperties
  <2> HIDE DEF t
  <2> QED
    BY <1>1, <2>1, EmptySeq
<1> HIDE DEF t
<1>3. \A j, k \in 1 .. Len(s) : s[j] = s[k] => j = k
  BY <1>1 DEF LinkedFrom
<1>4. Range(t) = Range(s) \ {start}
  <2>1. \A k \in 2 .. Len(s) : s[k] = t[k - 1] /\ s[k] # start
    BY <1>1, <1>2, <1>3
  <2>2. Range(t) \subseteq Range(s) \ {start}
    <3>1. \A k \in DOMAIN t : t[k] = s[k + 1] /\ k + 1 \in DOMAIN s /\ k + 1 \in 2 .. Len(s)
      BY <1>1, <1>2
    <3> QED
      BY <2>1, <3>1 DEF Range
  <2>3. Range(s) \ {start} \subseteq Range(t)
    <3>1. \A k \in DOMAIN s : k # 1 => k \in 2 .. Len(s) /\ k - 1 \in DOMAIN t
      BY <1>1, <1>2
    <3> QED
      BY <1>1, <2>1, <3>1 DEF Range
  <2> QED
    BY <2>2, <2>3
<1>5. AfterFirst(s) \in Ids /\ AfterFirst(s) = IF t = <<>> THEN noFreeId ELSE t[1]
  <2>1. noFreeId \in Ids
    BY BoundsAssumption DEF Ids, noFreeId
  <2> QED
    BY <1>1, <1>2, <2>1 DEF AfterFirst
<1>6. \A k \in 1 .. Len(s) :
          /\ s[k] # noFreeId
          /\ s[k] \in Allocated(d) \ owned
          /\ ~Block(d, s[k]).inUse
          /\ Block(d, s[k]).body = NextFree(IF k = Len(s) THEN noFreeId ELSE s[k + 1])
  BY <1>1 DEF LinkedFrom
<1>7. Block(d, start).body = NextFree(AfterFirst(s))
  <2>1. 1 \in 1 .. Len(s)
    BY <1>1
  <2>2. AfterFirst(s) = IF 1 = Len(s) THEN noFreeId ELSE s[1 + 1]
    BY <1>1 DEF AfterFirst
  <2>3. Block(d, s[1]).body = NextFree(AfterFirst(s))
    BY <1>6, <2>1, <2>2, Zenon
  <2> QED
    BY <1>1, <2>3
<1>8. \A j, k \in DOMAIN t : t[j] = t[k] => j = k
  BY <1>1, <1>2, <1>3
<1>9. \A k \in DOMAIN t :
          /\ t[k] # noFreeId
          /\ t[k] \in Allocated(d) \ owned
          /\ ~Block(d, t[k]).inUse
          /\ Block(d, t[k]).body = NextFree(IF k = Len(t) THEN noFreeId ELSE t[k + 1])
  <2> TAKE k \in DOMAIN t
  <2>1. k + 1 \in 1 .. Len(s) /\ t[k] = s[k + 1]
    BY <1>1, <1>2
  <2>2. IF k = Len(t) THEN k + 1 = Len(s) ELSE k + 1 # Len(s) /\ t[k + 1] = s[k + 1 + 1]
    BY <1>1, <1>2
  <2> QED
    BY <1>6, <2>1, <2>2
<1>10. LinkedFrom(d, owned, AfterFirst(s), t)
  BY <1>2, <1>5, <1>8, <1>9 DEF LinkedFrom
<1>11. LinkedFrom(d, owned \cup {start}, AfterFirst(s), t)
  <2>1. \A k \in DOMAIN t : t[k] # start
    BY <1>4 DEF Range
  <2> QED
    BY <1>2, <1>5, <1>8, <1>9, <2>1 DEF LinkedFrom
<1>12. start \in Range(s)
  BY <1>1 DEF Range
<1> QED
  BY <1>1, <1>2, <1>4, <1>5, <1>7, <1>10, <1>11, <1>12 DEF t

-----------------------------------------------------------------------------
(* A method starts.                                                        *)

LEMMA ReadyIsIdle ==
    ASSUME NEW s, NEW t, ChainsOK(s, t), op = NoOp
    PROVE  NonePending(s)
BY DEF ChainsOK, NoOp, OpenPending, PersistPending, RemovePending, NewIdPending, SetDepthPending

\* The file and the fields stay, issued may lose an id.
LEMMA StartKeeps ==
    ASSUME TypeOK, FileOK, NEW s \in Seq(Ids), NEW t \in Seq(Ids), ChainsOK(s, t),
           NEW o \in Methods, NEW w, Start(o, w), issued' \subseteq issued
    PROVE  /\ TypeOK' /\ FileOK'
           /\ pc = "open" /\ pc' = "open" /\ op' = o /\ writes' = w
           /\ UNCHANGED <<disk, freeId, faults, stops>>
           /\ LinkedFrom(disk, issued, freeId, s)
           /\ LinkedFrom(disk', issued', freeId', s)
           /\ IF disk'.free # NotWritten THEN LinkedFrom(disk', issued', disk'.free, t) ELSE t = <<>>
           /\ NoLeak(s, {})
<1>1. /\ pc = "open" /\ op = NoOp /\ op' = o /\ writes' = w
      /\ UNCHANGED <<disk, pc, config, depth, freeId, faults, stops>>
  BY DEF Start, Ready
<1>2. NonePending(s)
  BY <1>1, ReadyIsIdle
<1>3. TypeOK'
  BY <1>1 DEF TypeOK
<1>4. FileOK'
  <2>1. disk.header # NoHeader /\ disk.depth # NotWritten
    BY <1>1 DEF FileOK, NoOp
  <2> QED
    BY <1>1, <2>1 DEF FileOK
<1>5. LinkedFrom(disk, issued, freeId, s)
  BY <1>1 DEF ChainsOK
<1>6. LinkedFrom(disk', issued', freeId', s)
  BY <1>1, <1>5 DEF LinkedFrom
<1>7. IF disk'.free # NotWritten THEN LinkedFrom(disk', issued', disk'.free, t) ELSE t = <<>>
  BY <1>1 DEF ChainsOK, LinkedFrom
<1> QED
  BY <1>1, <1>2, <1>3, <1>4, <1>5, <1>6, <1>7 DEF NonePending

LEMMA NoLeakStays ==
    ASSUME NEW s, NoLeak(s, {}), UNCHANGED <<disk, issued, faults, stops>>
    PROVE  NoLeak(s, {})'
BY DEF NoLeak

LEMMA PersistStep == ASSUME IInv, NEW node \in Node, Persist(node) PROVE IInv'
<1>1. PICK s, t \in Seq(Ids) : TypeOK /\ FileOK /\ ChainsOK(s, t)
  BY DEF IInv
<1> DEFINE o == [op |-> "Persist"]
           w == PersistWrites(node)
<1>2. Start(o, w) /\ UNCHANGED issued /\ node.id \in issued /\ o \in Methods
  BY DEF Persist, Methods
<1> HIDE DEF o, w
<1>3. /\ TypeOK' /\ FileOK' /\ pc' = "open" /\ op' = o /\ writes' = w
      /\ UNCHANGED <<disk, freeId, faults, stops>>
      /\ LinkedFrom(disk', issued', freeId', s) /\ NoLeak(s, {})
      /\ IF disk'.free # NotWritten THEN LinkedFrom(disk', issued', disk'.free, t) ELSE t = <<>>
  BY <1>1, <1>2, StartKeeps
<1>4. NoLeak(s, {})'
  BY <1>2, <1>3, NoLeakStays
<1>5. PersistPending(s)'
  <2>1. node.id \in issued' /\ node.values \in Contents /\ node.children \in Links
    BY <1>2 DEF Node
  <2> QED
    BY <1>3, <1>4, <2>1 DEF PersistPending, PersistWrites, o, w
<1> QED
  BY <1>3, <1>5 DEF ChainsOK, IInv

LEMMA SetDepthStep == ASSUME IInv, NEW d \in 1 .. MaxDepth, SetDepth(d) PROVE IInv'
<1>1. PICK s, t \in Seq(Ids) : TypeOK /\ FileOK /\ ChainsOK(s, t)
  BY DEF IInv
<1> DEFINE o == [op |-> "SetDepth"]
           w == <<WriteDepth(d)>>
<1>2. Start(o, w) /\ UNCHANGED issued /\ o \in Methods
  BY DEF SetDepth, Methods
<1> HIDE DEF o, w
<1>3. /\ TypeOK' /\ FileOK' /\ pc' = "open" /\ op' = o /\ writes' = w
      /\ UNCHANGED <<disk, freeId, faults, stops>>
      /\ LinkedFrom(disk', issued', freeId', s) /\ NoLeak(s, {})
      /\ IF disk'.free # NotWritten THEN LinkedFrom(disk', issued', disk'.free, t) ELSE t = <<>>
  BY <1>1, <1>2, StartKeeps
<1>4. NoLeak(s, {})'
  BY <1>2, <1>3, NoLeakStays
<1>5. SetDepthPending(s)'
  BY <1>3, <1>4 DEF SetDepthPending, o, w
<1> QED
  BY <1>3, <1>5 DEF ChainsOK, IInv

\* A block in use is in no chain.
LEMMA RemoveStep == ASSUME IInv, NEW id \in Ids, Remove(id) PROVE IInv'
<1>1. PICK s, t \in Seq(Ids) : TypeOK /\ FileOK /\ ChainsOK(s, t)
  BY DEF IInv
<1> DEFINE o == [op |-> "Remove"]
           w == RemoveWrites(id)
<1>2. /\ Start(o, w) /\ issued' = issued \ {id} /\ o \in Methods
      /\ id \in Allocated(disk) /\ Block(disk, id).inUse /\ id # rootId
  BY DEF Remove, Methods, Stored
<1> HIDE DEF o, w
<1>3. /\ TypeOK' /\ FileOK' /\ pc' = "open" /\ op' = o /\ writes' = w
      /\ UNCHANGED <<disk, freeId, faults, stops>>
      /\ LinkedFrom(disk, issued, freeId, s)
      /\ LinkedFrom(disk', issued', freeId', s) /\ NoLeak(s, {})
      /\ IF disk'.free # NotWritten THEN LinkedFrom(disk', issued', disk'.free, t) ELSE t = <<>>
  BY <1>1, <1>2, StartKeeps
<1>4. id \notin Range(s) \cup Range(t)
  <2>1. id \notin Range(s)
    BY <1>2, <1>3, ChainAllocated
  <2>2. id \notin Range(t)
    BY <1>2, <1>3, ChainAllocated, RanParts
  <2> QED
    BY <2>1, <2>2
<1>5. NoLeak(s, {id})'
  BY <1>2, <1>3 DEF NoLeak
<1>6. RemovePending(s, t)'
  <2>1. id \in Allocated(disk') \ issued' /\ id \in Ids \ {rootId}
    BY <1>2, <1>3
  <2> QED
    BY <1>3, <1>4, <1>5, <2>1 DEF RemovePending, RemoveWrites, o, w
<1> QED
  BY <1>3, <1>6 DEF ChainsOK, IInv

LEMMA NewIdAtEndStep == ASSUME IInv, NewIdAtEnd PROVE IInv'
<1>1. PICK s, t \in Seq(Ids) : TypeOK /\ FileOK /\ ChainsOK(s, t)
  BY DEF IInv
<1> DEFINE o == [op |-> "NewId", id |-> Len(disk.blocks)]
           w == <<ExtendFlag, ExtendRest>>
<1>2. Start(o, w) /\ UNCHANGED issued /\ freeId = noFreeId /\ Len(disk.blocks) <= MaxId
  BY DEF NewIdAtEnd
<1>3. o \in Methods
  BY <1>1, <1>2, FileParts, BoundsAssumption DEF TypeOK, Methods, Ids
<1> HIDE DEF o, w
<1>4. /\ TypeOK' /\ FileOK' /\ pc' = "open" /\ op' = o /\ writes' = w
      /\ UNCHANGED <<disk, freeId, faults, stops>>
      /\ LinkedFrom(disk', issued', freeId', s) /\ NoLeak(s, {})
      /\ IF disk'.free # NotWritten THEN LinkedFrom(disk', issued', disk'.free, t) ELSE t = <<>>
  BY <1>1, <1>2, <1>3, StartKeeps
<1>5. NoLeak(s, {})'
  BY <1>2, <1>4, NoLeakStays
<1>6. NewIdPending(s)'
  BY <1>2, <1>4, <1>5 DEF NewIdPending, o, w
<1> QED
  BY <1>4, <1>6 DEF ChainsOK, IInv

\* The link read from the first block is the one to the second.
LEMMA NewIdFromChainStep == ASSUME IInv, NewIdFromChain PROVE IInv'
<1>1. PICK s, t \in Seq(Ids) : TypeOK /\ FileOK /\ ChainsOK(s, t)
  BY DEF IInv
<1>2. PICK next \in NextIn(Block(disk, freeId)) :
          Start([op |-> "NewId", id |-> freeId], NewIdWrites(next))
  BY DEF NewIdFromChain
<1> DEFINE o == [op |-> "NewId", id |-> freeId]
           w == NewIdWrites(next)
<1>3. Start(o, w) /\ UNCHANGED issued /\ freeId # noFreeId /\ o \in Methods
  BY <1>1, <1>2 DEF NewIdFromChain, TypeOK, Methods
<1> HIDE DEF o, w
<1>4. /\ TypeOK' /\ FileOK' /\ pc' = "open" /\ op' = o /\ writes' = w
      /\ UNCHANGED <<disk, freeId, faults, stops>>
      /\ LinkedFrom(disk, issued, freeId, s)
      /\ LinkedFrom(disk', issued', freeId', s) /\ NoLeak(s, {})
      /\ IF disk'.free # NotWritten THEN LinkedFrom(disk', issued', disk'.free, t) ELSE t = <<>>
  BY <1>1, <1>3, StartKeeps
<1>5. NoLeak(s, {})'
  BY <1>3, <1>4, NoLeakStays
<1>6. s # <<>> /\ Block(disk, freeId).body = NextFree(AfterFirst(s))
  <2>1. s # <<>>
    BY <1>3, <1>4, ChainAllocated
  <2>2. LinkedFrom(disk, issued, freeId, s)
    BY <1>4
  <2>3. Block(disk, freeId).body = NextFree(AfterFirst(s))
    BY <2>1, <2>2, ChainShrinks
  <2> QED
    BY <2>1, <2>3
<1>7. next = AfterFirst(s)
  BY <1>2, <1>6 DEF NextIn, NextFree
<1>8. NewIdPending(s)'
  BY <1>4, <1>5, <1>6, <1>7 DEF NewIdPending, NewIdWrites, AfterFirst, o, w
<1> QED
  BY <1>4, <1>8 DEF ChainsOK, IInv

-----------------------------------------------------------------------------
(* The file is opened and closed.                                          *)

LEMMA EmptyIsFile == EmptyFile \in Files /\ EmptyFile.blocks = <<>> /\ EmptyFile.free = NotWritten
BY DEF EmptyFile, Files, Headers

LEMMA InitStep == Init => IInv
<1> SUFFICES ASSUME Init PROVE IInv
  OBVIOUS
<1>1. TypeOK
  BY EmptyIsFile, BoundsAssumption
     DEF Init, TypeOK, Methods, NoOp, Ids, rootId
<1>2. FileOK
  BY DEF Init, FileOK, EmptyFile
<1>3. ChainsOK(<<>>, <<>>)
  BY EmptyIsFile DEF Init, ChainsOK, NonePending
<1> QED
  BY <1>1, <1>2, <1>3, EmptySeq DEF IInv

LEMMA EmptyChain ==
    ASSUME NEW d, NEW owned
    PROVE  LinkedFrom(d, owned, noFreeId, <<>>)
BY DEF LinkedFrom

LEMMA FiveAndThree ==
    ASSUME NEW v1, NEW v2, NEW v3, NEW v4, NEW v5, NEW v6, NEW v7, NEW v8
    PROVE  <<v1, v2, v3, v4, v5>> \o <<v6, v7, v8>> = <<v1, v2, v3, v4, v5, v6, v7, v8>>
<1> DEFINE S == {v1, v2, v3, v4, v5, v6, v7, v8}
           x == <<v1, v2, v3, v4, v5>>
           y == <<v6, v7, v8>>
           z == <<v1, v2, v3, v4, v5, v6, v7, v8>>
<1>1. x \in Seq(S) /\ Len(x) = 5 /\ x[1] = v1 /\ x[2] = v2 /\ x[3] = v3 /\ x[4] = v4 /\ x[5] = v5
  OBVIOUS
<1>2. y \in Seq(S) /\ Len(y) = 3 /\ y[1] = v6 /\ y[2] = v7 /\ y[3] = v8
  OBVIOUS
<1>3. /\ z \in Seq(S) /\ Len(z) = 8 /\ z[1] = v1 /\ z[2] = v2 /\ z[3] = v3 /\ z[4] = v4
      /\ z[5] = v5 /\ z[6] = v6 /\ z[7] = v7 /\ z[8] = v8
  OBVIOUS
<1> HIDE DEF S, x, y, z
<1>4. /\ x \o y \in Seq(S) /\ Len(x \o y) = Len(x) + Len(y)
      /\ \A i \in 1 .. Len(x) + Len(y) : (x \o y)[i] = IF i <= Len(x) THEN x[i] ELSE y[i - Len(x)]
  BY <1>1, <1>2, ConcatProperties, Zenon
<1> DEFINE w == x \o y
<1> HIDE DEF w
<1>5. /\ w \in Seq(S) /\ Len(w) = 8
      /\ \A i \in 1 .. 8 : w[i] = IF i <= 5 THEN x[i] ELSE y[i - 5]
  BY <1>1, <1>2, <1>4 DEF w
<1>6. \A i \in 1 .. 8 : w[i] = z[i]
  <2> TAKE i \in 1 .. 8
  <2>1. i \in {1, 2, 3, 4, 5, 6, 7, 8}
    OBVIOUS
  <2> QED
    BY <1>1, <1>2, <1>3, <1>5, <2>1
<1>7. x \o y = z
  <2>1. w = z
    BY <1>3, <1>5, <1>6, SeqEqual
  <2> QED
    BY <2>1 DEF w
<1> QED
  BY <1>7 DEF x, y, z

\* The writes of a first opening.
LEMMA OpenEmptyStep == ASSUME IInv, NEW c \in Configs, OpenEmpty(c) PROVE IInv'
<1>1. PICK s, t \in Seq(Ids) : TypeOK /\ FileOK /\ ChainsOK(s, t)
  BY DEF IInv
<1>2. /\ disk = EmptyFile /\ disk' = EmptyFile /\ issued = {rootId} /\ issued' = {rootId}
      /\ freeId' = noFreeId /\ pc' = "open" /\ op' = [op |-> "open"] /\ config' = c
      /\ pc = "closed" /\ disk.header = NoHeader
  BY <1>1 DEF OpenEmpty, FileOK
<1>3. TypeOK'
  BY <1>1, <1>2, BoundsAssumption DEF OpenEmpty, TypeOK, Methods, Ids, noFreeId
<1>4. FileOK'
  BY <1>1, <1>2, EmptyIsFile DEF OpenEmpty, FileOK, EmptyFile
<1>5. OpenPending'
  <2> DEFINE v1 == WriteHeader(c)
             v2 == WriteDepth(1)
             v3 == WriteFree(noFreeId)
             v4 == ExtendFlag
             v5 == ExtendRest
             v6 == WriteFlag(rootId, TRUE)
             v7 == WriteBody(rootId, Values(<<>>))
             v8 == WriteChildren(rootId, <<>>)
  <2>1. writes' = <<v1, v2, v3, v4, v5>> \o <<v6, v7, v8>>
    BY DEF OpenEmpty, PersistWrites, RootNode
  <2> HIDE DEF v1, v2, v3, v4, v5, v6, v7, v8
  <2>2. <<v1, v2, v3, v4, v5>> \o <<v6, v7, v8>> = <<v1, v2, v3, v4, v5, v6, v7, v8>>
    BY FiveAndThree
  <2>3. writes' = <<v1, v2, v3, v4, v5, v6, v7, v8>>
    BY <2>1, <2>2
  <2> QED
    BY <1>2, <2>3 DEF OpenPending, v1, v2, v3, v4, v5, v6, v7, v8
<1>6. ChainsOK(<<>>, <<>>)'
  BY <1>2, <1>5, EmptyChain, EmptyIsFile DEF ChainsOK
<1> QED
  BY <1>3, <1>4, <1>6, EmptySeq DEF IInv

\* What checkHeader accepts does not matter.
LEMMA OpenExistingStep == ASSUME IInv, NEW c \in Configs, OpenExisting(c) PROVE IInv'
<1>1. PICK s, t \in Seq(Ids) : TypeOK /\ FileOK /\ ChainsOK(s, t)
  BY DEF IInv
<1>2. /\ pc = "closed" /\ disk.header # NoHeader /\ config' = c
      /\ UNCHANGED <<disk, op, writes, issued, faults, stops>>
  BY DEF OpenExisting
<1>3. op = NoOp /\ writes = <<>>
  BY <1>1, <1>2 DEF ChainsOK, NonePending, OpenPending, PersistPending, RemovePending,
                    NewIdPending, SetDepthPending
<1>4. CASE pc' = "open" /\ depth' = disk.depth /\ freeId' = disk.free /\ disk.free # NotWritten
  <2>1. freeId' \in Ids /\ depth' \in 0 .. MaxDepth + 1
    BY <1>1, <1>4, FileParts DEF TypeOK, FileOK
  <2>2. TypeOK'
    BY <1>1, <1>2, <1>4, <2>1 DEF TypeOK
  <2>3. FileOK'
    BY <1>1, <1>2, <1>4 DEF FileOK
  <2>4. ~(faults = 0 /\ stops = 0)
    BY <1>1, <1>2 DEF FileOK
  <2>5. NonePending(t)'
    BY <1>2, <1>3, <2>4 DEF NonePending, NoLeak
  <2>6. LinkedFrom(disk', issued', freeId', t) /\ LinkedFrom(disk', issued', disk'.free, t)
    BY <1>1, <1>2, <1>4 DEF ChainsOK
  <2>7. ChainsOK(t, t)'
    BY <1>2, <1>4, <2>5, <2>6 DEF ChainsOK
  <2> QED
    BY <2>2, <2>3, <2>7 DEF IInv
<1>6. CASE /\ pc' = "open" /\ depth' = disk.depth /\ disk.depth # NotWritten
           /\ freeId' = noFreeId /\ disk.free = NotWritten
  <2>1. freeId' \in Ids /\ depth' \in 0 .. MaxDepth + 1
    BY <1>1, <1>6, FileParts, BoundsAssumption DEF TypeOK, Ids, noFreeId
  <2>2. TypeOK'
    BY <1>1, <1>2, <1>6, <2>1 DEF TypeOK
  <2>3. FileOK'
    BY <1>1, <1>2, <1>6 DEF FileOK
  <2>4. ~(faults = 0 /\ stops = 0)
    BY <1>1, <1>2 DEF FileOK
  <2>5. NonePending(<<>>)'
    BY <1>2, <1>3, <2>4 DEF NonePending, NoLeak
  <2>6. LinkedFrom(disk', issued', freeId', <<>>)
    BY <1>6, EmptyChain
  <2>7. disk'.free = NotWritten
    BY <1>2, <1>6
  <2>8. ChainsOK(<<>>, <<>>)'
    BY <1>6, <2>5, <2>6, <2>7 DEF ChainsOK
  <2> QED
    BY <2>2, <2>3, <2>8, EmptySeq DEF IInv
<1>5. CASE pc' = "refused" /\ UNCHANGED <<depth, freeId>>
  <2>1. TypeOK'
    BY <1>1, <1>2, <1>5 DEF TypeOK
  <2>2. FileOK'
    BY <1>1, <1>2, <1>5 DEF FileOK
  <2>3. NonePending(<<>>)'
    BY <1>2, <1>3, <1>5 DEF NonePending
  <2>4. IF disk'.free # NotWritten THEN LinkedFrom(disk', issued', disk'.free, t) ELSE t = <<>>
    BY <1>1, <1>2 DEF ChainsOK
  <2>5. ChainsOK(<<>>, t)'
    BY <1>5, <2>3, <2>4 DEF ChainsOK
  <2> QED
    BY <2>1, <2>2, <2>5, EmptySeq DEF IInv
<1> QED
  BY <1>4, <1>5, <1>6 DEF OpenExisting

LEMMA StopStep == ASSUME IInv, Stop PROVE IInv'
<1>1. PICK s, t \in Seq(Ids) : TypeOK /\ FileOK /\ ChainsOK(s, t)
  BY DEF IInv
<1>2. /\ pc' = "closed" /\ freeId' = 0 /\ op' = NoOp /\ writes' = <<>>
      /\ stops' = stops + 1 /\ stops < MaxStops
      /\ UNCHANGED <<disk, issued, config, faults>> /\ depth' = 0
  BY DEF Stop
<1>3. TypeOK'
  BY <1>1, <1>2, BoundsAssumption DEF TypeOK, Methods, NoOp, Ids
<1>4. FileOK'
  BY <1>1, <1>2 DEF FileOK, TypeOK
<1>5. IF disk'.free # NotWritten THEN LinkedFrom(disk', issued', disk'.free, t) ELSE t = <<>>
  BY <1>1, <1>2 DEF ChainsOK
<1>6. ChainsOK(<<>>, t)'
  BY <1>2, <1>5 DEF ChainsOK, NonePending
<1> QED
  BY <1>3, <1>4, <1>6, EmptySeq DEF IInv

-----------------------------------------------------------------------------
(* A write reaches the file.                                               *)

LEMMA Fields ==
    /\ \A c : SetFields(WriteHeader(c)) => UNCHANGED <<freeId, depth>>
    /\ \A n : SetFields(WriteDepth(n)) => freeId' = freeId /\ depth' = n
    /\ \A id : SetFields(WriteFree(id)) => freeId' = id /\ depth' = depth
    /\ \A id, v : SetFields(WriteFlag(id, v)) => UNCHANGED <<freeId, depth>>
    /\ \A id, v : SetFields(WriteBody(id, v)) => UNCHANGED <<freeId, depth>>
    /\ \A id, v : SetFields(WriteChildren(id, v)) => UNCHANGED <<freeId, depth>>
    /\ SetFields(ExtendFlag) => UNCHANGED <<freeId, depth>>
    /\ SetFields(ExtendRest) => UNCHANGED <<freeId, depth>>
BY DEF SetFields, WriteHeader, WriteDepth, WriteFree, WriteFlag, WriteBody, WriteChildren,
       ExtendFlag, ExtendRest

LEMMA LastWrite ==
    ASSUME Write, NEW w, writes = <<w>>
    PROVE  /\ disk' = Apply(disk, w) /\ SetFields(w) /\ writes' = <<>> /\ op' = NoOp
           /\ issued' = IF op.op = "NewId" THEN HandOut(op.id) ELSE issued
<1>1. Head(<<w>>) = w /\ Tail(<<w>>) = <<>>
  OBVIOUS
<1> QED
  BY <1>1 DEF Write

\* Any other write, r the writes after it.
WriteThen(w, r) ==
    /\ disk' = Apply(disk, w) /\ SetFields(w) /\ writes' = r
    /\ UNCHANGED <<op, issued>>

LEMMA WriteFirst ==
    ASSUME Write
    PROVE  /\ \A v, w : writes = <<v, w>> => WriteThen(v, <<w>>)
           /\ \A v, w, x : writes = <<v, w, x>> => WriteThen(v, <<w, x>>)
           /\ \A v, w, x, y : writes = <<v, w, x, y>> => WriteThen(v, <<w, x, y>>)
           /\ \A v, w, x, y, z :
                 writes = <<v, w, x, y, z>> => WriteThen(v, <<w, x, y, z>>)
           /\ \A u, v, w, x, y, z :
                 writes = <<u, v, w, x, y, z>> => WriteThen(u, <<v, w, x, y, z>>)
           /\ \A u1, u, v, w, x, y, z :
                 writes = <<u1, u, v, w, x, y, z>> => WriteThen(u1, <<u, v, w, x, y, z>>)
           /\ \A u1, u2, u, v, w, x, y, z :
                 writes = <<u1, u2, u, v, w, x, y, z>> => WriteThen(u1, <<u2, u, v, w, x, y, z>>)
<1>1. ASSUME NEW v, NEW r, writes # <<>>, Head(writes) = v, Tail(writes) = r, r # <<>>
      PROVE  WriteThen(v, r)
  BY <1>1 DEF Write, WriteThen
<1>2. ASSUME NEW v, NEW w, writes = <<v, w>>
      PROVE  WriteThen(v, <<w>>)
  <2>1. writes # <<>> /\ Head(writes) = v
    BY <1>2
  <2>2. Tail(writes) = <<w>> /\ <<w>> # <<>>
    BY <1>2
  <2> QED
    BY <1>1, <2>1, <2>2, Zenon
<1>3. ASSUME NEW v, NEW w, NEW x, writes = <<v, w, x>>
      PROVE  WriteThen(v, <<w, x>>)
  <2>1. writes # <<>> /\ Head(writes) = v
    BY <1>3
  <2>2. Tail(writes) = <<w, x>> /\ <<w, x>> # <<>>
    BY <1>3
  <2> QED
    BY <1>1, <2>1, <2>2, Zenon
<1>4. ASSUME NEW v, NEW w, NEW x, NEW y, writes = <<v, w, x, y>>
      PROVE  WriteThen(v, <<w, x, y>>)
  <2>1. writes # <<>> /\ Head(writes) = v
    BY <1>4
  <2>2. Tail(writes) = <<w, x, y>> /\ <<w, x, y>> # <<>>
    BY <1>4
  <2> QED
    BY <1>1, <2>1, <2>2, Zenon
<1>5. ASSUME NEW v, NEW w, NEW x, NEW y, NEW z, writes = <<v, w, x, y, z>>
      PROVE  WriteThen(v, <<w, x, y, z>>)
  <2>1. writes # <<>> /\ Head(writes) = v
    BY <1>5
  <2>2. Tail(writes) = <<w, x, y, z>> /\ <<w, x, y, z>> # <<>>
    BY <1>5
  <2> QED
    BY <1>1, <2>1, <2>2, Zenon
<1>6. ASSUME NEW u, NEW v, NEW w, NEW x, NEW y, NEW z, writes = <<u, v, w, x, y, z>>
      PROVE  WriteThen(u, <<v, w, x, y, z>>)
  <2>1. writes # <<>> /\ Head(writes) = u
    BY <1>6
  <2>2. Tail(writes) = <<v, w, x, y, z>> /\ <<v, w, x, y, z>> # <<>>
    BY <1>6
  <2> QED
    BY <1>1, <2>1, <2>2, Zenon
<1>7. ASSUME NEW u1, NEW u, NEW v, NEW w, NEW x, NEW y, NEW z, writes = <<u1, u, v, w, x, y, z>>
      PROVE  WriteThen(u1, <<u, v, w, x, y, z>>)
  <2>1. writes # <<>> /\ Head(writes) = u1
    BY <1>7
  <2>2. Tail(writes) = <<u, v, w, x, y, z>> /\ <<u, v, w, x, y, z>> # <<>>
    BY <1>7
  <2> QED
    BY <1>1, <2>1, <2>2, Zenon
<1>8. ASSUME NEW u1, NEW u2, NEW u, NEW v, NEW w, NEW x, NEW y, NEW z, writes = <<u1, u2, u, v, w, x, y, z>>
      PROVE  WriteThen(u1, <<u2, u, v, w, x, y, z>>)
  <2>1. writes # <<>> /\ Head(writes) = u1
    BY <1>8
  <2>2. Tail(writes) = <<u2, u, v, w, x, y, z>> /\ <<u2, u, v, w, x, y, z>> # <<>>
    BY <1>8
  <2> QED
    BY <1>1, <2>1, <2>2, Zenon
<1> QED
  BY <1>2, <1>3, <1>4, <1>5, <1>6, <1>7, <1>8

LEMMA WriteKeeps ==
    ASSUME TypeOK, FileOK, Write, pc = "open",
           disk' \in Files, Len(disk'.blocks) <= MaxId + 1,
           freeId' \in Ids, depth' \in 0 .. MaxDepth + 1, issued' \subseteq Ids,
           disk'.header # NoHeader,
           disk'.free # NotWritten => disk'.depth # NotWritten,
           op'.op # "open" => disk'.depth # NotWritten
    PROVE  TypeOK' /\ FileOK' /\ pc' = "open"
<1>1. UNCHANGED <<pc, config, faults, stops>> /\ op' \in {NoOp, op}
  BY DEF Write
<1>2. TypeOK'
  BY <1>1 DEF TypeOK, Methods, NoOp
<1> QED
  BY <1>1, <1>2 DEF FileOK

\* No block of a chain is written to.
LEMMA ChainsStay ==
    ASSUME disk \in Files, disk' \in Files, NEW s, NEW t, pc = "open", ChainsOK(s, t),
           Len(disk.blocks) <= Len(disk'.blocks),
           disk'.free = disk.free, UNCHANGED <<freeId, issued>>,
           \A i \in Range(s) \cup Range(t) : Block(disk', i) = Block(disk, i)
    PROVE  /\ LinkedFrom(disk', issued', freeId', s)
           /\ IF disk'.free # NotWritten THEN LinkedFrom(disk', issued', disk'.free, t) ELSE t = <<>>
<1>1. LinkedFrom(disk, issued, freeId, s)
  BY DEF ChainsOK
<1>2. LinkedFrom(disk', issued', freeId', s)
  <2>1. \A i \in Range(s) : i \notin issued'
    BY <1>1, ChainAllocated
  <2> QED
    BY <1>1, <2>1, LinkedStays
<1>3. CASE disk.free # NotWritten
  <2>1. LinkedFrom(disk, issued, disk.free, t)
    BY <1>3 DEF ChainsOK
  <2>2. \A i \in Range(t) : i \notin issued'
    BY <2>1, ChainAllocated
  <2>3. LinkedFrom(disk', issued', disk'.free, t)
    BY <2>1, <2>2, LinkedStays
  <2> QED
    BY <1>2, <1>3, <2>3
<1>4. CASE disk.free = NotWritten
  BY <1>2, <1>4 DEF ChainsOK
<1> QED
  BY <1>3, <1>4

\* What the chains have in common: blocks that are there and belong to nobody.
LEMMA ChainsApart ==
    ASSUME NEW s \in Seq(Ids), NEW t \in Seq(Ids), pc = "open", ChainsOK(s, t)
    PROVE  /\ Range(s) \cup Range(t) \subseteq Allocated(disk) \ issued
           /\ \A i \in Range(s) \cup Range(t) : i # noFreeId /\ ~Block(disk, i).inUse
<1>1. LinkedFrom(disk, issued, freeId, s)
  BY DEF ChainsOK
<1>2. t # <<>> => LinkedFrom(disk, issued, disk.free, t)
  BY DEF ChainsOK
<1>3. t = <<>> => Range(t) = {}
  BY RanParts
<1> QED
  BY <1>1, <1>2, <1>3, ChainAllocated

LEMMA WritePersist ==
    ASSUME TypeOK, FileOK, NEW s \in Seq(Ids), NEW t \in Seq(Ids), ChainsOK(s, t),
           Write, PersistPending(s)
    PROVE  IInv'
<1>1. PICK id \in issued, v \in Contents, c \in Links :
          \/ writes = <<WriteFlag(id, TRUE), WriteBody(id, Values(v)), WriteChildren(id, c)>>
          \/ writes = <<WriteBody(id, Values(v)), WriteChildren(id, c)>>
          \/ writes = <<WriteChildren(id, c)>>
  BY DEF PersistPending
<1>2. id \in Ids /\ Values(v) \in Bodies /\ disk \in Files
  BY DEF TypeOK, Bodies
<1>3. /\ OnlyBlock(disk, disk', id) /\ UNCHANGED <<freeId, depth, issued>>
      /\ \/ op' = NoOp /\ writes' = <<>>
         \/ op' = op /\ writes' = <<WriteBody(id, Values(v)), WriteChildren(id, c)>>
         \/ op' = op /\ writes' = <<WriteChildren(id, c)>>
  <2>1. CASE writes = <<WriteFlag(id, TRUE), WriteBody(id, Values(v)), WriteChildren(id, c)>>
    <3>1. WriteThen(WriteFlag(id, TRUE), <<WriteBody(id, Values(v)), WriteChildren(id, c)>>)
      BY <2>1, WriteFirst
    <3> QED
      BY <1>2, <3>1, ApplyFlag, Fields DEF WriteThen
  <2>2. CASE writes = <<WriteBody(id, Values(v)), WriteChildren(id, c)>>
    <3>1. WriteThen(WriteBody(id, Values(v)), <<WriteChildren(id, c)>>)
      BY <2>2, WriteFirst
    <3> QED
      BY <1>2, <3>1, ApplyBody, Fields DEF WriteThen
  <2>3. CASE writes = <<WriteChildren(id, c)>>
    <3>1. /\ disk' = Apply(disk, WriteChildren(id, c)) /\ SetFields(WriteChildren(id, c))
          /\ writes' = <<>> /\ op' = NoOp /\ issued' = issued
      BY <2>3, LastWrite DEF PersistPending
    <3> QED
      BY <1>2, <3>1, ApplyChildren, Fields
  <2> QED
    BY <1>1, <2>1, <2>2, <2>3
<1>4. /\ pc = "open" /\ op = [op |-> "Persist"]
      /\ disk.header # NoHeader /\ disk.depth # NotWritten
  BY DEF PersistPending, FileOK
<1>5. TypeOK' /\ FileOK' /\ pc' = "open"
  BY <1>3, <1>4, WriteKeeps DEF OnlyBlock, TypeOK, FileOK
<1>6. id \notin Range(s) \cup Range(t) /\ Range(s) \cup Range(t) \subseteq Allocated(disk)
  BY <1>4, ChainsApart
<1>7. /\ LinkedFrom(disk', issued', freeId', s)
      /\ IF disk'.free # NotWritten THEN LinkedFrom(disk', issued', disk'.free, t) ELSE t = <<>>
  <2>1. \A i \in Range(s) \cup Range(t) : Block(disk', i) = Block(disk, i)
    BY <1>3, <1>6 DEF OnlyBlock
  <2>2. Len(disk.blocks) <= Len(disk'.blocks) /\ disk' \in Files /\ disk'.free = disk.free
    BY <1>2, <1>3, FileParts DEF OnlyBlock
  <2> QED
    BY <1>2, <1>3, <1>4, <2>1, <2>2, ChainsStay
<1>8. NoLeak(s, {})'
  BY <1>3 DEF PersistPending, NoLeak, OnlyBlock, Write
<1>9. NonePending(s)' \/ PersistPending(s)'
  BY <1>3, <1>4, <1>5, <1>8 DEF NonePending, PersistPending
<1> QED
  BY <1>5, <1>7, <1>9 DEF ChainsOK, IInv

LEMMA WriteSetDepth ==
    ASSUME TypeOK, FileOK, NEW s \in Seq(Ids), NEW t \in Seq(Ids), ChainsOK(s, t),
           Write, SetDepthPending(s)
    PROVE  IInv'
<1>1. PICK n \in 1 .. MaxDepth : writes = <<WriteDepth(n)>>
  BY DEF SetDepthPending
<1>2. n \in 0 .. MaxDepth + 1 /\ n # NotWritten /\ disk \in Files
  BY BoundsAssumption DEF TypeOK, NotWritten
<1>3. /\ pc = "open" /\ op = [op |-> "SetDepth"] /\ disk.header # NoHeader
      /\ disk' = Apply(disk, WriteDepth(n)) /\ SetFields(WriteDepth(n))
      /\ writes' = <<>> /\ op' = NoOp /\ issued' = issued
  BY <1>1, LastWrite DEF SetDepthPending, FileOK
<1>4. /\ disk' \in Files /\ disk'.header = disk.header /\ disk'.depth = n
      /\ disk'.free = disk.free /\ disk'.blocks = disk.blocks
      /\ freeId' = freeId /\ depth' = n
  BY <1>2, <1>3, ApplyMetadata, Fields
<1>5. TypeOK' /\ FileOK' /\ pc' = "open"
  BY <1>2, <1>3, <1>4, WriteKeeps DEF TypeOK
<1>6. /\ LinkedFrom(disk', issued', freeId', s)
      /\ IF disk'.free # NotWritten THEN LinkedFrom(disk', issued', disk'.free, t) ELSE t = <<>>
  <2>1. Len(disk.blocks) <= Len(disk'.blocks)
    BY <1>2, <1>4, FileParts
  <2>2. \A i \in Range(s) \cup Range(t) : Block(disk', i) = Block(disk, i)
    BY <1>4 DEF Block
  <2> QED
    BY <1>2, <1>3, <1>4, <2>1, <2>2, ChainsStay
<1>7. NoLeak(s, {})'
  BY <1>3, <1>4 DEF SetDepthPending, NoLeak, Write, Allocated
<1>8. NonePending(s)'
  BY <1>3, <1>7 DEF NonePending
<1> QED
  BY <1>5, <1>6, <1>8 DEF ChainsOK, IInv

\* The block leaves its owner, is linked to the start of the chain and becomes it.
LEMMA WriteRemove ==
    ASSUME TypeOK, FileOK, NEW s \in Seq(Ids), NEW t \in Seq(Ids), ChainsOK(s, t),
           Write, RemovePending(s, t)
    PROVE  IInv'
<1>1. PICK id \in Allocated(disk) \ issued :
          /\ id \in Ids \ {rootId} /\ id \notin Range(s) \cup Range(t)
          /\ NoLeak(s, {id})
          /\ \/ writes = <<WriteFlag(id, FALSE), WriteBody(id, NextFree(freeId)), WriteFree(id)>>
             \/ /\ ~Block(disk, id).inUse
                /\ writes = <<WriteBody(id, NextFree(freeId)), WriteFree(id)>>
             \/ /\ ~Block(disk, id).inUse
                /\ Block(disk, id).body = NextFree(freeId)
                /\ writes = <<WriteFree(id)>>
  BY DEF RemovePending
<1>2. id \in Ids /\ NextFree(freeId) \in Bodies /\ disk \in Files
  BY <1>1 DEF TypeOK, Bodies
<1>3. /\ pc = "open" /\ op = [op |-> "Remove"]
      /\ disk.header # NoHeader /\ disk.depth # NotWritten
  BY DEF RemovePending, FileOK
<1>4. UNCHANGED <<pc, faults, stops>>
  BY DEF Write
<1>5. LinkedFrom(disk, issued, freeId, s)
  BY <1>3 DEF ChainsOK
<1>6. ASSUME OnlyBlock(disk, disk', id), UNCHANGED <<freeId, depth, issued, op>>
      PROVE  /\ TypeOK' /\ FileOK' /\ pc' = "open"
             /\ LinkedFrom(disk', issued', freeId', s)
             /\ IF disk'.free # NotWritten THEN LinkedFrom(disk', issued', disk'.free, t) ELSE t = <<>>
             /\ NoLeak(s, {id})'
             /\ id \in Allocated(disk') \ issued'
  <2>1. TypeOK' /\ FileOK' /\ pc' = "open"
    BY <1>3, <1>6, WriteKeeps DEF OnlyBlock, TypeOK, FileOK
  <2>2. \A i \in Range(s) \cup Range(t) : Block(disk', i) = Block(disk, i)
    BY <1>1, <1>3, <1>6, ChainsApart DEF OnlyBlock
  <2>3. Len(disk.blocks) <= Len(disk'.blocks) /\ disk' \in Files /\ disk'.free = disk.free
    BY <1>2, <1>6, FileParts DEF OnlyBlock
  <2>4. /\ LinkedFrom(disk', issued', freeId', s)
        /\ IF disk'.free # NotWritten THEN LinkedFrom(disk', issued', disk'.free, t) ELSE t = <<>>
    BY <1>2, <1>3, <1>6, <2>2, <2>3, ChainsStay
  <2>5. NoLeak(s, {id})'
    BY <1>1, <1>4, <1>6 DEF NoLeak, OnlyBlock
  <2>6. id \in Allocated(disk') \ issued'
    BY <1>1, <1>6 DEF OnlyBlock
  <2> QED
    BY <2>1, <2>4, <2>5, <2>6
<1>7. CASE writes = <<WriteFlag(id, FALSE), WriteBody(id, NextFree(freeId)), WriteFree(id)>>
  <2>1. WriteThen(WriteFlag(id, FALSE), <<WriteBody(id, NextFree(freeId)), WriteFree(id)>>)
    BY <1>7, WriteFirst
  <2>2. /\ OnlyBlock(disk, disk', id) /\ UNCHANGED <<freeId, depth, issued, op>>
        /\ ~Block(disk', id).inUse
        /\ writes' = <<WriteBody(id, NextFree(freeId)), WriteFree(id)>>
    BY <1>1, <1>2, <2>1, ApplyFlag, Fields DEF WriteThen
  <2>3. RemovePending(s, t)'
    BY <1>1, <1>3, <1>6, <2>2 DEF RemovePending
  <2> QED
    BY <1>6, <2>2, <2>3 DEF ChainsOK, IInv
<1>8. CASE /\ ~Block(disk, id).inUse
           /\ writes = <<WriteBody(id, NextFree(freeId)), WriteFree(id)>>
  <2>1. WriteThen(WriteBody(id, NextFree(freeId)), <<WriteFree(id)>>)
    BY <1>8, WriteFirst
  <2>2. /\ OnlyBlock(disk, disk', id) /\ UNCHANGED <<freeId, depth, issued, op>>
        /\ ~Block(disk', id).inUse /\ Block(disk', id).body = NextFree(freeId)
        /\ writes' = <<WriteFree(id)>>
    BY <1>1, <1>2, <1>8, <2>1, ApplyBody, Fields DEF WriteThen
  <2>3. RemovePending(s, t)'
    BY <1>1, <1>3, <1>6, <2>2 DEF RemovePending
  <2> QED
    BY <1>6, <2>2, <2>3 DEF ChainsOK, IInv
<1>9. CASE /\ ~Block(disk, id).inUse
           /\ Block(disk, id).body = NextFree(freeId)
           /\ writes = <<WriteFree(id)>>
  <2>1. /\ disk' = Apply(disk, WriteFree(id)) /\ SetFields(WriteFree(id))
        /\ writes' = <<>> /\ op' = NoOp /\ issued' = issued
    BY <1>3, <1>9, LastWrite
  <2>2. /\ disk' \in Files /\ disk'.header = disk.header /\ disk'.depth = disk.depth
        /\ disk'.free = id /\ disk'.blocks = disk.blocks
        /\ freeId' = id /\ depth' = depth
    BY <1>2, <2>1, ApplyMetadata, Fields
  <2>3. id # NotWritten /\ id # noFreeId
    BY <1>1 DEF Ids, NotWritten, noFreeId, rootId
  <2> DEFINE new == <<id>> \o s
  <2>4. /\ LinkedFrom(disk, issued, id, new) /\ new \in Seq(Ids) /\ Range(new) = Range(s) \cup {id}
    BY <1>1, <1>2, <1>5, <1>9, <2>3, ChainGrows
  <2> HIDE DEF new
  <2>5. LinkedFrom(disk', issued', id, new)
    BY <2>1, <2>2, <2>4, LinkedBlocks
  <2>6. disk.free # NotWritten => disk.depth # NotWritten
    BY DEF FileOK
  <2>7. depth \in 0 .. MaxDepth + 1 /\ issued \subseteq Ids /\ Len(disk.blocks) <= MaxId + 1
    BY DEF TypeOK
  <2>8. disk.depth # NotWritten
    BY <1>3 DEF FileOK
  <2>9. TypeOK' /\ FileOK' /\ pc' = "open"
    BY <1>2, <1>3, <2>1, <2>2, <2>7, <2>8, WriteKeeps
  <2>10. NoLeak(new, {})'
    BY <1>1, <1>4, <2>1, <2>2, <2>4 DEF NoLeak, Allocated
  <2>11. ChainsOK(new, new)'
    BY <2>1, <2>2, <2>3, <2>5, <2>9, <2>10 DEF ChainsOK, NonePending
  <2> QED
    BY <2>4, <2>9, <2>11 DEF IInv
<1> QED
  BY <1>1, <1>7, <1>8, <1>9

LEMMA WriteNewId ==
    ASSUME TypeOK, FileOK, NEW s \in Seq(Ids), NEW t \in Seq(Ids), ChainsOK(s, t),
           Write, NewIdPending(s)
    PROVE  IInv'
<1>1. /\ pc = "open" /\ op.op = "NewId" /\ NoLeak(s, {})
      /\ UNCHANGED <<pc, faults, stops>> /\ disk \in Files
      /\ disk.header # NoHeader /\ disk.depth # NotWritten
  BY DEF NewIdPending, FileOK, Write, TypeOK
<1>2. LinkedFrom(disk, issued, freeId, s)
  BY <1>1 DEF ChainsOK
<1>3. CASE /\ op = [op |-> "NewId", id |-> Len(disk.blocks)]
           /\ freeId = noFreeId
           /\ Len(disk.blocks) <= MaxId
           /\ writes = <<ExtendFlag, ExtendRest>>
  <2>1. WriteThen(ExtendFlag, <<ExtendRest>>)
    BY <1>3, WriteFirst
  <2>2. /\ disk' \in Files /\ disk'.header = disk.header /\ disk'.depth = disk.depth
        /\ disk'.free = disk.free /\ disk'.blocks = disk.blocks
        /\ UNCHANGED <<freeId, depth, op, issued>> /\ writes' = <<ExtendRest>>
    BY <1>1, <2>1, ApplyExtend, Fields DEF WriteThen
  <2>3. TypeOK' /\ FileOK' /\ pc' = "open"
    BY <1>1, <2>2, WriteKeeps DEF TypeOK, FileOK
  <2>4. Len(disk.blocks) <= Len(disk'.blocks)
    BY <1>1, <2>2, FileParts
  <2>5. /\ LinkedFrom(disk', issued', freeId', s)
        /\ IF disk'.free # NotWritten THEN LinkedFrom(disk', issued', disk'.free, t) ELSE t = <<>>
    BY <1>1, <2>2, <2>4, ChainsStay DEF Block
  <2>6. NewIdPending(s)'
    BY <1>1, <1>3, <2>2 DEF NewIdPending, NoLeak, Allocated
  <2> QED
    BY <2>3, <2>5, <2>6 DEF ChainsOK, IInv
<1>4. CASE /\ op = [op |-> "NewId", id |-> Len(disk.blocks)]
           /\ freeId = noFreeId
           /\ Len(disk.blocks) <= MaxId
           /\ writes = <<ExtendRest>>
  <2> DEFINE id == Len(disk.blocks)
  <2>1. /\ disk' = Apply(disk, ExtendRest) /\ SetFields(ExtendRest)
        /\ writes' = <<>> /\ op' = NoOp /\ issued' = HandOut(id)
    BY <1>4, LastWrite
  <2>2. /\ disk' \in Files /\ disk'.header = disk.header /\ disk'.depth = disk.depth
        /\ disk'.free = disk.free
        /\ Len(disk'.blocks) = Len(disk.blocks) + 1
        /\ Allocated(disk') = Allocated(disk) \cup {id}
        /\ \A i \in Allocated(disk) : Block(disk', i) = Block(disk, i)
        /\ UNCHANGED <<freeId, depth>>
    BY <1>1, <2>1, ApplyExtend, Fields
  <2>3. id \in Ids /\ id \notin Allocated(disk)
    BY <1>1, <1>4, FileParts DEF Ids, Allocated
  <2>4. Len(disk'.blocks) <= MaxId + 1 /\ Len(disk.blocks) <= Len(disk'.blocks)
    BY <1>1, <1>4, <2>2, FileParts, BoundsAssumption
  <2> HIDE DEF id
  <2>5. issued' \subseteq Ids /\ issued' \subseteq issued \cup {id}
    BY <2>1, <2>3 DEF HandOut, TypeOK
  <2>6. TypeOK' /\ FileOK' /\ pc' = "open"
    BY <1>1, <2>2, <2>4, <2>5, WriteKeeps DEF TypeOK, FileOK
  <2>7. s = <<>> /\ Range(s) = {}
    BY <1>2, <1>4, ChainAllocated, RanParts
  <2>8. LinkedFrom(disk', issued', freeId', s)
    BY <1>4, <2>2, <2>7, EmptyChain
  <2>9. IF disk'.free # NotWritten THEN LinkedFrom(disk', issued', disk'.free, t) ELSE t = <<>>
    <3>1. \A i \in Range(t) : i \in Allocated(disk) \ issued
      BY <1>1, ChainsApart
    <3>2. \A i \in Range(t) : Block(disk', i) = Block(disk, i) /\ i \notin issued'
      BY <2>2, <2>3, <2>5, <3>1
    <3> QED
      BY <1>1, <2>2, <2>4, <3>2, LinkedStays DEF ChainsOK
  <2>10. NoLeak(s, {})'
    <3>1. faults = 0 /\ stops = 0 => Allocated(disk) = issued
      BY <1>1, <2>7 DEF NoLeak
    <3>2. faults = 0 /\ stops = 0 => issued' = issued \cup {id}
      BY <2>1, <2>3, <3>1 DEF HandOut
    <3> QED
      BY <1>1, <2>2, <2>7, <3>1, <3>2 DEF NoLeak
  <2> QED
    BY <2>1, <2>6, <2>8, <2>9, <2>10 DEF ChainsOK, NonePending, IInv
<1>5. CASE /\ op = [op |-> "NewId", id |-> freeId]
           /\ s # <<>>
           /\ writes = <<WriteFree(AfterFirst(s))>>
  <2> DEFINE rest == Tail(s)
             next == AfterFirst(s)
  <2>1. /\ LinkedFrom(disk, issued, next, rest) /\ LinkedFrom(disk, issued \cup {freeId}, next, rest)
        /\ rest \in Seq(Ids) /\ freeId \in Range(s) /\ Range(rest) = Range(s) \ {freeId} /\ next \in Ids
    BY <1>2, <1>5, ChainShrinks
  <2> HIDE DEF rest
  <2>2. /\ disk' = Apply(disk, WriteFree(next)) /\ SetFields(WriteFree(next))
        /\ writes' = <<>> /\ op' = NoOp /\ issued' = HandOut(freeId)
    BY <1>5, LastWrite
  <2> HIDE DEF next
  <2>3. /\ disk' \in Files /\ disk'.header = disk.header /\ disk'.depth = disk.depth
        /\ disk'.free = next /\ disk'.blocks = disk.blocks
        /\ freeId' = next /\ depth' = depth
    BY <1>1, <2>1, <2>2, ApplyMetadata, Fields
  <2>4. freeId \notin issued /\ freeId \in Ids
    BY <1>2, <2>1, ChainAllocated DEF TypeOK
  <2>5. issued' = issued \cup {freeId}
    BY <2>2, <2>4 DEF HandOut
  <2>6. issued' \subseteq Ids /\ depth \in 0 .. MaxDepth + 1 /\ Len(disk.blocks) <= MaxId + 1
    BY <2>4, <2>5 DEF TypeOK
  <2>7. TypeOK' /\ FileOK' /\ pc' = "open"
    BY <1>1, <2>1, <2>3, <2>6, WriteKeeps
  <2>8. LinkedFrom(disk', issued', next, rest)
    BY <2>1, <2>3, <2>5, LinkedBlocks
  <2>9. NoLeak(rest, {})'
    BY <1>1, <2>1, <2>3, <2>5 DEF NoLeak, Allocated
  <2>10. next # NotWritten
    BY <2>1 DEF Ids, NotWritten
  <2>11. ChainsOK(rest, rest)'
    BY <2>2, <2>3, <2>7, <2>8, <2>9, <2>10 DEF ChainsOK, NonePending
  <2> QED
    BY <2>1, <2>7, <2>11 DEF IInv
<1> QED
  BY <1>3, <1>4, <1>5 DEF NewIdPending, AfterFirst

\* No block is in a chain before the file is prepared.
LEMMA WriteOpen ==
    ASSUME TypeOK, FileOK, NEW s \in Seq(Ids), NEW t \in Seq(Ids), ChainsOK(s, t),
           Write, OpenPending
    PROVE  IInv'
<1> DEFINE flag == WriteFlag(rootId, TRUE)
           body == WriteBody(rootId, Values(<<>>))
           children == WriteChildren(rootId, <<>>)
           start == WriteFree(noFreeId)
<1>1. /\ op = [op |-> "open"] /\ pc = "open" /\ freeId = noFreeId /\ issued = {rootId}
      /\ pc' = pc /\ faults' = faults /\ stops' = stops /\ config' = config
  BY DEF OpenPending, Write
<1>2. /\ disk \in Files /\ config \in Configs /\ freeId \in Ids /\ noFreeId \in Ids
      /\ rootId \in Ids /\ rootId = noFreeId /\ noFreeId # NotWritten
      /\ 1 \in 0 .. MaxDepth + 1 /\ Values(<<>>) \in Bodies
  BY BoundsAssumption, ContentsAssumption DEF TypeOK, Ids, rootId, noFreeId, NotWritten, Bodies
<1>3. s = <<>> /\ LinkedFrom(disk', issued', noFreeId, <<>>)
  <2>1. LinkedFrom(disk, issued, noFreeId, s)
    BY <1>1 DEF ChainsOK
  <2> QED
    BY <2>1, ChainAllocated, EmptyChain
\* The chain in the file has no block either: it was in the file before, or starts now.
<1>4. ASSUME disk'.free \in {disk.free, noFreeId}, disk' \in Files,
             disk'.header # NoHeader, disk'.depth # NotWritten \/ (disk'.free = NotWritten /\ op'.op = "open"),
             Len(disk.blocks) <= Len(disk'.blocks), Len(disk'.blocks) <= 1,
             \A i \in Range(t) : Block(disk', i) = Block(disk, i),
             issued' = issued, freeId' = freeId, depth' \in {depth, 1},
             OpenPending' \/ NonePending(<<>>)'
      PROVE  IInv'
  <2>1. Len(disk'.blocks) <= MaxId + 1 /\ depth' \in 0 .. MaxDepth + 1 /\ issued' \subseteq Ids
    BY <1>2, <1>4, FileParts, BoundsAssumption DEF TypeOK
  <2>2. TypeOK' /\ FileOK' /\ pc' = "open"
    BY <1>1, <1>2, <1>4, <2>1, WriteKeeps
  <2>3. CASE disk'.free = noFreeId
    <3>1. ChainsOK(<<>>, <<>>)'
      BY <1>1, <1>2, <1>3, <1>4, <2>2, <2>3 DEF ChainsOK
    <3> QED
      BY <2>2, <3>1, EmptySeq DEF IInv
  <2>4. CASE disk'.free # noFreeId
    <3>1. disk'.free = disk.free
      BY <1>4, <2>4
    <3>2. IF disk'.free # NotWritten THEN LinkedFrom(disk', issued', disk'.free, t) ELSE t = <<>>
      <4>1. CASE disk.free = NotWritten
        BY <3>1, <4>1 DEF ChainsOK
      <4>2. CASE disk.free # NotWritten
        <5>1. LinkedFrom(disk, issued, disk.free, t)
          BY <4>2 DEF ChainsOK
        <5>2. \A i \in Range(t) : Block(disk', i) = Block(disk, i) /\ i \notin issued'
          BY <1>4, <5>1, ChainAllocated
        <5>3. Len(disk.blocks) <= Len(disk'.blocks) /\ disk' \in Files
          BY <1>4
        <5>4. LinkedFrom(disk', issued', disk.free, t)
          BY <1>2, <5>1, <5>2, <5>3, LinkedStays
        <5> QED
          BY <3>1, <4>2, <5>4
      <4> QED
        BY <4>1, <4>2
    <3>3. ChainsOK(<<>>, t)'
      BY <1>1, <1>2, <1>3, <1>4, <2>2, <3>2 DEF ChainsOK
    <3> QED
      BY <2>2, <3>3, EmptySeq DEF IInv
  <2> QED
    BY <2>3, <2>4
<1>5. CASE /\ disk = EmptyFile
           /\ writes = <<WriteHeader(config), WriteDepth(1), start, ExtendFlag, ExtendRest,
                         flag, body, children>>
  <2>1. WriteThen(WriteHeader(config), <<WriteDepth(1), start, ExtendFlag, ExtendRest,
                                         flag, body, children>>)
    BY <1>5, WriteFirst
  <2>2. /\ disk' \in Files /\ disk'.header # NoHeader /\ disk'.depth = disk.depth
        /\ disk'.free = disk.free /\ disk'.blocks = disk.blocks
        /\ UNCHANGED <<freeId, depth, op, issued>>
    BY <1>2, <2>1, ApplyMetadata, Fields DEF WriteThen
  <2>3. disk'.blocks = <<>> /\ disk'.free = NotWritten
    BY <1>5, <2>2, EmptyIsFile
  <2>4. OpenPending'
    BY <1>1, <2>1, <2>2, <2>3 DEF OpenPending, WriteThen
  <2>5. Len(disk.blocks) <= Len(disk'.blocks) /\ Len(disk'.blocks) <= 1
    BY <2>2, <2>3
  <2> QED
    BY <1>1, <1>4, <2>2, <2>3, <2>4, <2>5 DEF Block
<1>6. CASE /\ disk.header # NoHeader
           /\ disk.blocks = <<>>
           /\ writes = <<WriteDepth(1), start, ExtendFlag, ExtendRest, flag, body, children>>
  <2>1. WriteThen(WriteDepth(1), <<start, ExtendFlag, ExtendRest, flag, body, children>>)
    BY <1>6, WriteFirst
  <2>2. /\ disk' \in Files /\ disk'.header = disk.header /\ disk'.depth = 1
        /\ disk'.free = disk.free /\ disk'.blocks = disk.blocks
        /\ UNCHANGED <<freeId, op, issued>> /\ depth' = 1
    BY <1>2, <2>1, ApplyMetadata, Fields DEF WriteThen
  <2>3. OpenPending'
    BY <1>1, <1>6, <2>1, <2>2 DEF OpenPending, WriteThen, NotWritten
  <2>4. Len(disk.blocks) <= Len(disk'.blocks) /\ Len(disk'.blocks) <= 1
    BY <1>6, <2>2
  <2> QED
    BY <1>1, <1>4, <1>6, <2>2, <2>3, <2>4 DEF Block, NotWritten
<1>7. CASE /\ disk.header # NoHeader /\ disk.depth # NotWritten
           /\ disk.blocks = <<>>
           /\ writes = <<start, ExtendFlag, ExtendRest, flag, body, children>>
  <2>1. WriteThen(start, <<ExtendFlag, ExtendRest, flag, body, children>>)
    BY <1>7, WriteFirst
  <2>2. /\ disk' \in Files /\ disk'.header = disk.header /\ disk'.depth = disk.depth
        /\ disk'.free = noFreeId /\ disk'.blocks = disk.blocks
        /\ UNCHANGED <<op, issued, depth>> /\ freeId' = noFreeId
    BY <1>2, <2>1, ApplyMetadata, Fields DEF WriteThen
  <2>3. OpenPending'
    BY <1>1, <1>7, <2>1, <2>2 DEF OpenPending, WriteThen
  <2>4. Len(disk.blocks) <= Len(disk'.blocks) /\ Len(disk'.blocks) <= 1
    BY <1>7, <2>2
  <2> QED
    BY <1>1, <1>4, <1>7, <2>2, <2>3, <2>4 DEF Block
<1>8. CASE /\ disk.header # NoHeader /\ disk.depth # NotWritten
           /\ disk.blocks = <<>>
           /\ writes = <<ExtendFlag, ExtendRest, flag, body, children>>
  <2>1. WriteThen(ExtendFlag, <<ExtendRest, flag, body, children>>)
    BY <1>8, WriteFirst
  <2>2. /\ disk' \in Files /\ disk'.header = disk.header /\ disk'.depth = disk.depth
        /\ disk'.free = disk.free /\ disk'.blocks = disk.blocks
        /\ UNCHANGED <<op, issued, depth, freeId>>
    BY <1>2, <2>1, ApplyExtend, Fields DEF WriteThen
  <2>3. OpenPending'
    BY <1>1, <1>8, <2>1, <2>2 DEF OpenPending, WriteThen
  <2>4. Len(disk.blocks) <= Len(disk'.blocks) /\ Len(disk'.blocks) <= 1
    BY <1>8, <2>2
  <2> QED
    BY <1>1, <1>4, <1>8, <2>2, <2>3, <2>4 DEF Block
<1>9. CASE /\ disk.header # NoHeader /\ disk.depth # NotWritten
           /\ disk.blocks = <<>>
           /\ writes = <<ExtendRest, flag, body, children>>
  <2>1. WriteThen(ExtendRest, <<flag, body, children>>)
    BY <1>9, WriteFirst
  <2>2. /\ disk' \in Files /\ disk'.header = disk.header /\ disk'.depth = disk.depth
        /\ disk'.free = disk.free /\ Len(disk'.blocks) = Len(disk.blocks) + 1
        /\ \A i \in Allocated(disk) : Block(disk', i) = Block(disk, i)
        /\ UNCHANGED <<op, issued, depth, freeId>>
    BY <1>2, <2>1, ApplyExtend, Fields DEF WriteThen
  <2>3. Len(disk.blocks) = 0 /\ Len(disk'.blocks) = 1
    BY <1>9, <2>2
  <2>4. OpenPending'
    BY <1>1, <1>9, <2>1, <2>2, <2>3 DEF OpenPending, WriteThen
  <2>5. \A i \in Range(t) : Block(disk', i) = Block(disk, i)
    BY <1>1, <2>2, ChainsApart
  <2> QED
    BY <1>1, <1>4, <1>9, <2>2, <2>3, <2>4, <2>5
<1>10. CASE /\ disk.header # NoHeader /\ disk.depth # NotWritten
            /\ Len(disk.blocks) = 1
            /\ writes \in {<<flag, body, children>>, <<body, children>>, <<children>>}
  <2>1. /\ OnlyBlock(disk, disk', rootId) /\ UNCHANGED <<freeId, depth, issued>>
        /\ \/ op' = NoOp /\ writes' = <<>>
           \/ op' = op /\ writes' \in {<<body, children>>, <<children>>}
    <3>1. CASE writes = <<flag, body, children>>
      <4>1. WriteThen(flag, <<body, children>>)
        BY <3>1, WriteFirst
      <4> QED
        BY <1>2, <4>1, ApplyFlag, Fields DEF WriteThen
    <3>2. CASE writes = <<body, children>>
      <4>1. WriteThen(body, <<children>>)
        BY <3>2, WriteFirst
      <4> QED
        BY <1>2, <4>1, ApplyBody, Fields DEF WriteThen
    <3>3. CASE writes = <<children>>
      <4>1. /\ disk' = Apply(disk, children) /\ SetFields(children)
            /\ writes' = <<>> /\ op' = NoOp /\ issued' = issued
        BY <1>1, <3>3, LastWrite
      <4> QED
        BY <1>2, <4>1, ApplyChildren, ContentsAssumption, Fields
    <3> QED
      BY <1>10, <3>1, <3>2, <3>3
  <2>2. /\ disk' \in Files /\ disk'.header = disk.header /\ disk'.depth = disk.depth
        /\ disk'.free = disk.free /\ Len(disk'.blocks) = 1
        /\ \A i \in Allocated(disk) : i # rootId => Block(disk', i) = Block(disk, i)
    BY <1>10, <2>1 DEF OnlyBlock
  <2>3. OpenPending' \/ NonePending(<<>>)'
    <3>1. CASE op' = NoOp /\ writes' = <<>>
      <4>1. Allocated(disk') = issued' /\ Range(<<>>) = {}
        BY <1>1, <2>1, <2>2, RanParts DEF Allocated, rootId, Range
      <4> QED
        BY <3>1, <4>1 DEF NonePending, NoLeak
    <3>2. CASE op' = op /\ writes' \in {<<body, children>>, <<children>>}
      BY <1>1, <1>10, <2>1, <2>2, <3>2 DEF OpenPending
    <3> QED
      BY <2>1, <3>1, <3>2
  <2>4. \A i \in Range(t) : Block(disk', i) = Block(disk, i)
    BY <1>1, <1>2, <2>2, ChainsApart
  <2>5. /\ disk'.header # NoHeader /\ disk'.depth # NotWritten
        /\ Len(disk.blocks) <= Len(disk'.blocks) /\ Len(disk'.blocks) <= 1
    BY <1>10, <2>2
  <2>6. issued' = issued /\ freeId' = freeId /\ depth' = depth
    BY <2>1
  <2> HIDE DEF flag, body, children, start
  <2>7. disk'.free \in {disk.free, noFreeId}
    BY <2>2
  <2>8. \A i \in Range(t) : Block(disk', i) = Block(disk, i)
    BY <2>4
  <2>9. disk'.depth # NotWritten \/ (disk'.free = NotWritten /\ op'.op = "open")
    BY <2>5
  <2>10. depth' \in {depth, 1}
    BY <2>6
  <2>11. disk' \in Files
    BY <2>2
  <2>12. disk'.header # NoHeader /\ Len(disk.blocks) <= Len(disk'.blocks) /\ Len(disk'.blocks) <= 1
    BY <2>5
  <2> QED
    BY <1>4, <2>3, <2>6, <2>7, <2>8, <2>9, <2>10, <2>11, <2>12
<1> QED
  BY <1>5, <1>6, <1>7, <1>8, <1>9, <1>10 DEF OpenPending

LEMMA WriteStep == ASSUME IInv, Write PROVE IInv'
<1>1. PICK s, t \in Seq(Ids) : TypeOK /\ FileOK /\ ChainsOK(s, t)
  BY DEF IInv
<1>2. ~NonePending(s)
  BY DEF NonePending, Write
<1> QED
  BY <1>1, <1>2, WriteOpen, WritePersist, WriteRemove, WriteNewId, WriteSetDepth DEF ChainsOK

-----------------------------------------------------------------------------
(* A write fails.                                                          *)

\* The file stays; the field freeId may be ahead of it.
LEMMA FailKeeps ==
    ASSUME TypeOK, FileOK, NEW s \in Seq(Ids), NEW t \in Seq(Ids), ChainsOK(s, t), Fail,
           pc = "open", op.op # "open", freeId' \in Ids, depth' \in 0 .. MaxDepth + 1,
           NEW u \in Seq(Ids), LinkedFrom(disk, issued, freeId', u)
    PROVE  IInv'
<1>1. /\ faults' = faults + 1 /\ faults < MaxFaults /\ op' = NoOp /\ writes' = <<>> /\ pc' = pc
      /\ UNCHANGED <<disk, config, issued, stops>>
  BY DEF Fail
<1>2. TypeOK'
  BY <1>1, BoundsAssumption DEF TypeOK, Methods, NoOp
<1>3. FileOK'
  BY <1>1 DEF FileOK
<1>4. faults' # 0
  BY <1>1 DEF TypeOK
<1>5. IF disk'.free # NotWritten THEN LinkedFrom(disk', issued', disk'.free, t) ELSE t = <<>>
  BY <1>1 DEF ChainsOK
<1>6. NonePending(u)'
  BY <1>1, <1>4 DEF NonePending, NoLeak
<1>7. LinkedFrom(disk', issued', freeId', u)
  BY <1>1
<1>8. ChainsOK(u, t)'
  BY <1>1, <1>5, <1>6, <1>7 DEF ChainsOK
<1> QED
  BY <1>2, <1>3, <1>8 DEF IInv

LEMMA Heads ==
    /\ \A v : writes = <<v>> => Head(writes) = v
    /\ \A v, w : writes = <<v, w>> => Head(writes) = v
    /\ \A v, w, x : writes = <<v, w, x>> => Head(writes) = v
    /\ \A v, w, x, y : writes = <<v, w, x, y>> => Head(writes) = v
    /\ \A v, w, x, y, z : writes = <<v, w, x, y, z>> => Head(writes) = v
    /\ \A u, v, w, x, y, z : writes = <<u, v, w, x, y, z>> => Head(writes) = u
    /\ \A u1, u, v, w, x, y, z : writes = <<u1, u, v, w, x, y, z>> => Head(writes) = u1
    /\ \A u1, u2, u, v, w, x, y, z :
          writes = <<u1, u2, u, v, w, x, y, z>> => Head(writes) = u1
OBVIOUS

LEMMA FailStep == ASSUME IInv, Fail PROVE IInv'
<1>1. PICK s, t \in Seq(Ids) : TypeOK /\ FileOK /\ ChainsOK(s, t)
  BY DEF IInv
<1>2. SetFields(Head(writes)) /\ ~NonePending(s)
  BY DEF Fail, NonePending
<1>3. depth \in 0 .. MaxDepth + 1 /\ freeId \in Ids
  BY <1>1 DEF TypeOK
<1>4. CASE OpenPending
  <2>1. pc = "open" /\ op.op = "open"
    BY <1>4 DEF OpenPending
  <2>2. /\ faults' = faults + 1 /\ faults < MaxFaults /\ op' = NoOp /\ writes' = <<>>
        /\ pc' = "refused" /\ UNCHANGED <<disk, config, issued, stops>>
    BY <2>1 DEF Fail
  <2> DEFINE w == Head(writes)
  <2>3. \/ w = WriteHeader(config) \/ w = WriteDepth(1) \/ w = WriteFree(noFreeId)
        \/ w = ExtendFlag \/ w = ExtendRest
        \/ w = WriteFlag(rootId, TRUE) \/ w = WriteBody(rootId, Values(<<>>))
        \/ w = WriteChildren(rootId, <<>>)
    <3> DEFINE flag == WriteFlag(rootId, TRUE)
               body == WriteBody(rootId, Values(<<>>))
               children == WriteChildren(rootId, <<>>)
               start == WriteFree(noFreeId)
    <3>1. \/ writes = <<WriteHeader(config), WriteDepth(1), start, ExtendFlag, ExtendRest,
                        flag, body, children>>
          \/ writes = <<WriteDepth(1), start, ExtendFlag, ExtendRest, flag, body, children>>
          \/ writes = <<start, ExtendFlag, ExtendRest, flag, body, children>>
          \/ writes = <<ExtendFlag, ExtendRest, flag, body, children>>
          \/ writes = <<ExtendRest, flag, body, children>>
          \/ writes = <<flag, body, children>>
          \/ writes = <<body, children>>
          \/ writes = <<children>>
      BY <1>4, Zenon DEF OpenPending
    <3> HIDE DEF flag, body, children, start
    <3>2. \/ w = WriteHeader(config) \/ w = WriteDepth(1) \/ w = start
          \/ w = ExtendFlag \/ w = ExtendRest \/ w = flag \/ w = body \/ w = children
      BY <3>1, Heads, Zenon DEF w
    <3> QED
      BY <3>2 DEF flag, body, children, start
  <2> HIDE DEF w
  <2>4. freeId' \in {freeId, noFreeId} /\ depth' \in {depth, 1}
    BY <1>2, <2>3, Fields DEF w
  <2>5. freeId' \in Ids /\ depth' \in 0 .. MaxDepth + 1
    BY <1>3, <2>4, BoundsAssumption DEF Ids, noFreeId
  <2>6. TypeOK'
    BY <1>1, <2>2, <2>5, BoundsAssumption DEF TypeOK, Methods, NoOp
  <2>7. FileOK'
    BY <1>1, <2>2 DEF FileOK
  <2>8. IF disk'.free # NotWritten THEN LinkedFrom(disk', issued', disk'.free, t) ELSE t = <<>>
    BY <1>1, <2>2 DEF ChainsOK
  <2>9. ChainsOK(<<>>, t)'
    BY <2>2, <2>8 DEF ChainsOK, NonePending
  <2> QED
    BY <2>6, <2>7, <2>9, EmptySeq DEF IInv
<1>5. CASE PersistPending(s)
  <2>1. pc = "open" /\ op.op # "open"
    BY <1>5 DEF PersistPending
  <2>2. UNCHANGED <<freeId, depth>>
    <3>1. PICK id \in issued, v \in Contents, c \in Links :
            \/ Head(writes) = WriteFlag(id, TRUE) \/ Head(writes) = WriteBody(id, Values(v))
            \/ Head(writes) = WriteChildren(id, c)
      BY <1>5, Heads, Zenon DEF PersistPending
    <3> QED
      BY <1>2, <3>1, Fields
  <2>3. LinkedFrom(disk, issued, freeId', s)
    BY <1>1, <2>1, <2>2 DEF ChainsOK
  <2> QED
    BY <1>1, <1>3, <2>1, <2>2, <2>3, FailKeeps
<1>6. CASE SetDepthPending(s)
  <2>1. pc = "open" /\ op.op # "open"
    BY <1>6 DEF SetDepthPending
  <2>2. freeId' = freeId /\ depth' \in 0 .. MaxDepth + 1
    BY <1>2, <1>6, Fields, BoundsAssumption DEF SetDepthPending
  <2>3. LinkedFrom(disk, issued, freeId', s)
    BY <1>1, <2>1, <2>2 DEF ChainsOK
  <2> QED
    BY <1>1, <1>3, <2>1, <2>2, <2>3, FailKeeps
<1>7. CASE RemovePending(s, t)
  <2>1. pc = "open" /\ op.op # "open"
    BY <1>7 DEF RemovePending
  <2>2. LinkedFrom(disk, issued, freeId, s)
    BY <1>1, <2>1 DEF ChainsOK
  <2>3. PICK id \in Allocated(disk) \ issued :
          /\ id \in Ids \ {rootId} /\ id \notin Range(s)
          /\ \/ Head(writes) = WriteFlag(id, FALSE)
             \/ Head(writes) = WriteBody(id, NextFree(freeId))
             \/ /\ ~Block(disk, id).inUse
                /\ Block(disk, id).body = NextFree(freeId)
                /\ Head(writes) = WriteFree(id)
    BY <1>7, Heads, Zenon DEF RemovePending
  <2>4. CASE UNCHANGED <<freeId, depth>>
    BY <1>1, <1>3, <2>1, <2>2, <2>4, FailKeeps
  <2>5. CASE /\ ~Block(disk, id).inUse
             /\ Block(disk, id).body = NextFree(freeId)
             /\ Head(writes) = WriteFree(id)
    <3>1. freeId' = id /\ depth' = depth /\ id \in Ids \ {noFreeId}
      BY <1>2, <2>3, <2>5, Fields DEF rootId, noFreeId
    <3>2. LinkedFrom(disk, issued, id, <<id>> \o s) /\ <<id>> \o s \in Seq(Ids)
      BY <2>2, <2>3, <2>5, <3>1, ChainGrows
    <3> QED
      BY <1>1, <1>3, <2>1, <3>1, <3>2, FailKeeps
  <2> QED
    BY <1>2, <2>3, <2>4, <2>5, Fields
<1>8. CASE NewIdPending(s)
  <2>1. pc = "open" /\ op.op # "open"
    BY <1>8 DEF NewIdPending
  <2>2. LinkedFrom(disk, issued, freeId, s)
    BY <1>1, <2>1 DEF ChainsOK
  <2>3. CASE UNCHANGED <<freeId, depth>>
    BY <1>1, <1>3, <2>1, <2>2, <2>3, FailKeeps
  <2>4. CASE s # <<>> /\ Head(writes) = WriteFree(AfterFirst(s))
    <3>1. freeId' = AfterFirst(s) /\ depth' = depth
      BY <1>2, <2>4, Fields
    <3>2. LinkedFrom(disk, issued, AfterFirst(s), Tail(s)) /\ Tail(s) \in Seq(Ids) /\ AfterFirst(s) \in Ids
      BY <2>2, <2>4, ChainShrinks
    <3> QED
      BY <1>1, <1>3, <2>1, <3>1, <3>2, FailKeeps
  <2>5. \/ Head(writes) \in {ExtendFlag, ExtendRest}
        \/ s # <<>> /\ Head(writes) = WriteFree(AfterFirst(s))
    BY <1>8 DEF NewIdPending, AfterFirst
  <2> QED
    BY <1>2, <2>3, <2>4, <2>5, Fields
<1> QED
  BY <1>1, <1>2, <1>4, <1>5, <1>6, <1>7, <1>8 DEF ChainsOK

-----------------------------------------------------------------------------
(* The invariant holds.                                                    *)

LEMMA StutterStep == ASSUME IInv, UNCHANGED vars PROVE IInv'
<1>1. PICK s, t \in Seq(Ids) : TypeOK /\ FileOK /\ ChainsOK(s, t)
  BY DEF IInv
<1>2. TypeOK' /\ FileOK'
  BY <1>1 DEF TypeOK, FileOK, vars
<1>3. ChainsOK(s, t)'
  BY <1>1 DEF ChainsOK, NonePending, OpenPending, PersistPending, RemovePending, NewIdPending,
              SetDepthPending, NoLeak, vars
<1> QED
  BY <1>2, <1>3 DEF IInv

\* In every reachable state the process and the file each follow a chain of free
\* blocks that ends, and the running method's remaining writes lead to the next such
\* state, whatever write fails and whenever the process stops (NewId, Remove,
\* updateFreeId, NewPersistentStorage).
THEOREM PersistentKeepsInvariant == Spec => []IInv
<1>1. ASSUME IInv, Next PROVE IInv'
  BY <1>1, OpenEmptyStep, OpenExistingStep, StopStep, PersistStep, RemoveStep, NewIdAtEndStep,
     NewIdFromChainStep, SetDepthStep, WriteStep, FailStep DEF Next
<1>2. IInv /\ [Next]_vars => IInv'
  BY <1>1, StutterStep
<1> QED
  BY InitStep, <1>2, PTL DEF Spec

\* The blocks, the fields and the methods have their types, and the file never holds
\* more than MaxId + 1 blocks.
THEOREM PersistentTypes == Spec => []TypeOK
<1>1. IInv => TypeOK
  BY DEF IInv
<1> QED
  BY <1>1, PersistentKeepsInvariant, PTL

-----------------------------------------------------------------------------
(* The chains as Chain computes them.                                      *)

LEMMA NatWellFounded == IsWellFoundedOn({p \in Nat \X Nat : p[1] < p[2]}, Nat)
BY NatLessThanWellFounded DEF OpToRel

LEMMA LeastElement ==
    ASSUME NEW T \in SUBSET Nat, T # {}
    PROVE  \E n \in T : \A m \in T : n <= m
<1> DEFINE less == {p \in Nat \X Nat : p[1] < p[2]}
<1>1. IsWellFoundedOn(less, Nat)
  BY NatWellFounded
<1>2. \A m, n \in Nat : m < n => <<m, n>> \in less
  OBVIOUS
<1> HIDE DEF less
<1>3. PICK n \in T : \A m \in T : ~(<<m, n>> \in less)
  BY <1>1, WFMin
<1>4. \A m \in T : ~(m < n) /\ m \in Nat /\ n \in Nat
  BY <1>2, <1>3
<1> QED
  BY <1>4

LEMMA SetInduction ==
    ASSUME NEW S, 0 \in S, \A n \in Nat : n \in S => n + 1 \in S
    PROVE  Nat \subseteq S
<1> DEFINE T == Nat \ S
<1>1. SUFFICES ASSUME T # {} PROVE FALSE
  OBVIOUS
<1>2. PICK n \in T : \A m \in T : n <= m
  BY <1>1, LeastElement
<1>3. n # 0 /\ n \in Nat
  OBVIOUS
<1>4. n - 1 \in Nat /\ n - 1 \notin T
  BY <1>2, <1>3
<1> QED
  BY <1>3, <1>4

\* A chain has at most as many blocks as there are ids besides the root's.
LEMMA ChainLength ==
    ASSUME NEW d, NEW owned, NEW start, NEW s, LinkedFrom(d, owned, start, s)
    PROVE  Len(s) <= MaxId
<1>1. /\ s \in Seq(Ids) /\ Len(s) \in Nat /\ DOMAIN s = 1 .. Len(s) /\ MaxId \in Nat
      /\ \A j, k \in 1 .. Len(s) : s[j] = s[k] => j = k
      /\ \A k \in 1 .. Len(s) : s[k] \in 1 .. MaxId
  BY BoundsAssumption DEF LinkedFrom, Ids, noFreeId
<1> DEFINE f == [k \in 1 .. Len(s) |-> s[k]]
<1>2. f \in [1 .. Len(s) -> 1 .. MaxId]
  BY <1>1
<1>3. \A j, k \in 1 .. Len(s) : f[j] = f[k] => j = k
  BY <1>1
<1>4. /\ IsFiniteSet(1 .. MaxId) /\ Cardinality(1 .. MaxId) = MaxId
      /\ IsFiniteSet(1 .. Len(s)) /\ Cardinality(1 .. Len(s)) = Len(s)
  <2>1. ASSUME NEW n \in Nat PROVE IsFiniteSet(1 .. n) /\ Cardinality(1 .. n) = n
    <3>1. IsFiniteSet(1 .. n) /\ Cardinality(1 .. n) = IF 1 > n THEN 0 ELSE n - 1 + 1
      BY FS_Interval
    <3> QED
      BY <3>1
  <2> QED
    BY <1>1, <2>1
<1> HIDE DEF f
<1>5. ~(MaxId < Len(s))
  <2>1. SUFFICES ASSUME MaxId < Len(s) PROVE FALSE
    OBVIOUS
  <2>2. \E x, y \in 1 .. Len(s) : x # y /\ f[x] = f[y]
    BY <1>2, <1>4, <2>1, FS_PigeonHole
  <2> QED
    BY <1>3, <2>2
<1> QED
  BY <1>1, <1>5

\* The blocks of a chain in the order of its links, and then noFreeId for ever.
Visits(s) == [n \in 0 .. MaxId + 1 |-> IF n < Len(s) THEN s[n + 1] ELSE noFreeId]

LEMMA ChainVisits ==
    ASSUME NEW start, NEW s, LinkedFrom(disk, issued, start, s)
    PROVE  Chain(start) = Visits(s)
<1> DEFINE D == 0 .. MaxId + 1
           Next1(p) == IF p = noFreeId THEN noFreeId
                       ELSE IF p \notin Allocated(disk) THEN p
                       ELSE CHOOSE next \in NextIn(Block(disk, p)) : TRUE
           v == Visits(s)
<1>1. /\ s \in Seq(Ids) /\ Len(s) \in Nat /\ DOMAIN s = 1 .. Len(s) /\ MaxId \in Nat
      /\ start = IF s = <<>> THEN noFreeId ELSE s[1]
      /\ Len(s) = 0 <=> s = <<>>
  BY BoundsAssumption DEF LinkedFrom
<1>2. \A n \in D : v[n] = IF n < Len(s) THEN s[n + 1] ELSE noFreeId
  BY DEF Visits
<1>3. v[0] = start
  BY <1>1, <1>2
<1>4. \A n \in D \ {0} : v[n] = Next1(v[n - 1])
  <2> TAKE n \in D \ {0}
  <2>1. n \in Nat /\ n - 1 \in D /\ v[n - 1] = IF n - 1 < Len(s) THEN s[n] ELSE noFreeId
    BY <1>1, <1>2
  <2>2. CASE n - 1 < Len(s)
    <3>1. n \in 1 .. Len(s) /\ v[n - 1] = s[n]
      BY <1>1, <2>1, <2>2
    <3>2. /\ s[n] # noFreeId /\ s[n] \in Allocated(disk)
          /\ Block(disk, s[n]).body = NextFree(IF n = Len(s) THEN noFreeId ELSE s[n + 1])
      BY <1>1, <3>1 DEF LinkedFrom
    <3>3. v[n] = IF n = Len(s) THEN noFreeId ELSE s[n + 1]
      <4> HIDE DEF v
      <4>1. n \in Nat /\ Len(s) \in Nat /\ n <= Len(s)
        BY <1>1, <2>1, <3>1
      <4>2. v[n] = IF n < Len(s) THEN s[n + 1] ELSE noFreeId
        BY <1>2
      <4> QED
        BY <4>1, <4>2
    <3>4. NextIn(Block(disk, s[n])) = {v[n]}
      BY <3>2, <3>3 DEF NextIn, NextFree
    <3>5. (CHOOSE next \in {v[n]} : TRUE) = v[n]
      OBVIOUS
    <3> HIDE DEF v
    <3>6. Next1(s[n]) = v[n]
      BY <3>2, <3>4, <3>5
    <3> QED
      BY <3>1, <3>6
  <2>3. CASE ~(n - 1 < Len(s))
    BY <1>1, <1>2, <2>1, <2>3
  <2> QED
    BY <2>2, <2>3
<1> DEFINE Sound(g) == g = [n \in D |-> IF n = 0 THEN start ELSE Next1(g[n - 1])]
<1>5. Sound(v)
  <2>1. v = [n \in D |-> v[n]]
    BY DEF Visits
  <2> HIDE DEF v, Next1
  <2>2. \A n \in D : v[n] = IF n = 0 THEN start ELSE Next1(v[n - 1])
    BY <1>3, <1>4
  <2> QED
    BY <2>1, <2>2
<1>6. ASSUME NEW g, Sound(g) PROVE g = v
  <2>1. g = [n \in D |-> g[n]] /\ \A n \in D : g[n] = IF n = 0 THEN start ELSE Next1(g[n - 1])
    <3> HIDE DEF Next1
    <3> QED
      BY <1>6
  <2> DEFINE S == {n \in Nat : n \in D => g[n] = v[n]}
  <2>2. 0 \in S
    BY <1>1, <1>3, <2>1
  <2>3. \A n \in Nat : n \in S => n + 1 \in S
    <3> SUFFICES ASSUME NEW n \in Nat, n \in S, n + 1 \in D PROVE g[n + 1] = v[n + 1]
      OBVIOUS
    <3>1. n \in D /\ n + 1 # 0 /\ n + 1 - 1 = n
      BY <1>1
    <3> HIDE DEF v, Next1, D
    <3>2. g[n] = v[n]
      BY <3>1
    <3> QED
      BY <1>4, <2>1, <3>1, <3>2
  <2> HIDE DEF S
  <2>4. Nat \subseteq S
    BY <2>2, <2>3, SetInduction
  <2>5. \A n \in D : g[n] = v[n]
    BY <2>4, <1>1 DEF S
  <2>6. v = [n \in D |-> v[n]]
    BY DEF Visits
  <2> HIDE DEF v, D
  <2> QED
    BY <2>1, <2>5, <2>6
<1>7. (CHOOSE g : Sound(g)) = v
  <2> HIDE DEF Sound, v
  <2> QED
    BY <1>5, <1>6
<1>8. Chain(start) = [n \in D |-> (CHOOSE g : Sound(g))[n]]
  BY DEF Chain
<1>9. v = [n \in D |-> v[n]]
  BY DEF Visits
<1> HIDE DEF v, Sound, D
<1> QED
  BY <1>7, <1>8, <1>9 DEF v

LEMMA ChainSound ==
    ASSUME NEW start, NEW s, LinkedFrom(disk, issued, start, s)
    PROVE  SoundChain(start) /\ ChainIds(start) = Range(s)
<1> DEFINE v == Visits(s)
<1>1. /\ s \in Seq(Ids) /\ Len(s) \in Nat /\ DOMAIN s = 1 .. Len(s) /\ MaxId \in Nat
      /\ Len(s) <= MaxId
  <2>1. Len(s) <= MaxId
    BY ChainLength
  <2> QED
    BY <2>1, BoundsAssumption DEF LinkedFrom
<1>2. Chain(start) = v
  BY ChainVisits
<1>3. \A n \in 0 .. MaxId + 1 : v[n] = IF n < Len(s) THEN s[n + 1] ELSE noFreeId
  BY DEF Visits
<1>4. \A k \in 1 .. Len(s) : /\ s[k] # noFreeId
                             /\ s[k] \in Allocated(disk) \ issued
                             /\ ~Block(disk, s[k]).inUse
                             /\ Block(disk, s[k]).body.kind = "link"
  <2> TAKE k \in 1 .. Len(s)
  <2>1. /\ s[k] # noFreeId /\ s[k] \in Allocated(disk) \ issued /\ ~Block(disk, s[k]).inUse
        /\ Block(disk, s[k]).body = NextFree(IF k = Len(s) THEN noFreeId ELSE s[k + 1])
    BY <1>1 DEF LinkedFrom
  <2>2. \A id : NextFree(id).kind = "link"
    BY DEF NextFree
  <2> QED
    BY <2>1, <2>2
<1> HIDE DEF v
<1>5. v[MaxId + 1] = noFreeId
  <2>1. MaxId + 1 \in 0 .. MaxId + 1 /\ ~(MaxId + 1 < Len(s))
    BY <1>1
  <2> QED
    BY <1>3, <2>1
<1>6. ChainIds(start) = Range(s)
  <2>1. \A n \in 0 .. MaxId + 1 : v[n] # noFreeId => v[n] \in Range(s)
    <3> TAKE n \in 0 .. MaxId + 1
    <3>1. n < Len(s) => n + 1 \in DOMAIN s
      BY <1>1
    <3> QED
      BY <1>3, <3>1 DEF Range
  <2>2. \A k \in DOMAIN s : \E n \in 0 .. MaxId + 1 : v[n] = s[k] /\ s[k] # noFreeId
    <3> TAKE k \in DOMAIN s
    <3>1. k - 1 \in 0 .. MaxId + 1 /\ k - 1 < Len(s) /\ k - 1 + 1 = k
      BY <1>1
    <3>2. v[k - 1] = s[k]
      BY <1>3, <3>1
    <3> QED
      BY <1>1, <1>4, <3>1, <3>2
  <2>3. ChainIds(start) = {v[n] : n \in 0 .. MaxId + 1} \ {noFreeId}
    BY <1>2 DEF ChainIds
  <2> QED
    BY <2>1, <2>2, <2>3 DEF Range
<1>7. \A id \in Range(s) : /\ id \in Allocated(disk) \ issued
                         /\ ~Block(disk, id).inUse
                         /\ Block(disk, id).body.kind = "link"
  BY <1>1, <1>4 DEF Range
<1> QED
  BY <1>2, <1>5, <1>6, <1>7 DEF SoundChain

\* The chain the running process follows is sound at every moment, also within Remove
\* and NewId and after a write that failed: NewId hands out no block in use and none
\* twice, and never answers "should be free but isn't".
THEOREM FreeChainIsSound == Spec => []FreeChainSound
<1>1. IInv => FreeChainSound
  <2> SUFFICES ASSUME IInv, pc = "open" PROVE SoundChain(freeId)
    BY DEF FreeChainSound
  <2>1. PICK s, t \in Seq(Ids) : ChainsOK(s, t)
    BY DEF IInv
  <2>2. LinkedFrom(disk, issued, freeId, s)
    BY <2>1 DEF ChainsOK
  <2> QED
    BY <2>2, ChainSound
<1> QED
  BY <1>1, PersistentKeepsInvariant, PTL

\* The chain in the file is sound at every moment: a process that stops between two
\* writes, or one that went on after a write failed, leaves a file whose free blocks
\* are nobody's.
THEOREM DiskChainIsSound == Spec => []DiskChainSound
<1>1. IInv => DiskChainSound
  <2> SUFFICES ASSUME IInv, disk.free # NotWritten PROVE SoundChain(disk.free)
    BY DEF DiskChainSound
  <2>1. PICK s, t \in Seq(Ids) : ChainsOK(s, t)
    BY DEF IInv
  <2>2. LinkedFrom(disk, issued, disk.free, t)
    BY <2>1 DEF ChainsOK
  <2> QED
    BY <2>2, ChainSound
<1> QED
  BY <1>1, PersistentKeepsInvariant, PTL

\* While no write failed and the process never stopped, every block of the file is its
\* owner's or in the chain whenever no method runs: NewId and Remove leak no space.
THEOREM BlocksDoNotLeak == Spec => []NoBlockLeaks
<1>1. IInv => NoBlockLeaks
  <2> SUFFICES ASSUME IInv, pc = "open", op = NoOp, faults = 0, stops = 0
               PROVE  Allocated(disk) = issued \cup ChainIds(freeId)
    BY DEF NoBlockLeaks, Ready
  <2>1. PICK s, t \in Seq(Ids) : ChainsOK(s, t)
    BY DEF IInv
  <2>2. LinkedFrom(disk, issued, freeId, s) /\ NonePending(s)
    BY <2>1, ReadyIsIdle DEF ChainsOK
  <2>3. ChainIds(freeId) = Range(s)
    BY <2>2, ChainSound
  <2> QED
    BY <2>2, <2>3 DEF NonePending, NoLeak
<1> QED
  BY <1>1, PersistentKeepsInvariant, PTL

-----------------------------------------------------------------------------
(* The file once the pending writes are applied.                           *)

\* The files met while the first n writes of w are applied.
Files0(f, d, w, n) == f = [k \in 0 .. n |-> IF k = 0 THEN d ELSE Apply(f[k - 1], w[k])]

LEMMA WritesApply ==
    ASSUME NEW d, NEW w
    PROVE  \A n \in Nat : \E f : Files0(f, d, w, n)
<1> DEFINE S == {n \in Nat : \E f : Files0(f, d, w, n)}
<1>1. 0 \in S
  <2> DEFINE f == [k \in 0 .. 0 |-> d]
  <2>1. f = [k \in 0 .. 0 |-> IF k = 0 THEN d ELSE Apply(f[k - 1], w[k])]
    OBVIOUS
  <2> QED
    BY <2>1 DEF Files0
<1>2. ASSUME NEW n \in Nat, n \in S PROVE n + 1 \in S
  <2>1. PICK f : Files0(f, d, w, n)
    BY <1>2
  <2> DEFINE last == Apply(f[n], w[n + 1])
             g == [k \in 0 .. n + 1 |-> IF k = n + 1 THEN last ELSE f[k]]
  <2>2. \A k \in 0 .. n : f[k] = IF k = 0 THEN d ELSE Apply(f[k - 1], w[k])
    <3>1. f = [k \in 0 .. n |-> IF k = 0 THEN d ELSE Apply(f[k - 1], w[k])]
      BY <2>1 DEF Files0
    <3> DEFINE F(k) == IF k = 0 THEN d ELSE Apply(f[k - 1], w[k])
    <3>2. f = [k \in 0 .. n |-> F(k)]
      BY <3>1
    <3> HIDE DEF F
    <3>3. \A k \in 0 .. n : f[k] = F(k)
      BY <3>2
    <3> QED
      BY <3>3 DEF F
  <2>3. \A k \in 0 .. n + 1 : g[k] = IF k = n + 1 THEN last ELSE f[k]
    OBVIOUS
  <2>4. g = [k \in 0 .. n + 1 |-> g[k]]
    OBVIOUS
  <2> HIDE DEF g
  <2>5. \A k \in 0 .. n + 1 : g[k] = IF k = 0 THEN d ELSE Apply(g[k - 1], w[k])
    <3> TAKE k \in 0 .. n + 1
    <3>1. CASE k = n + 1
      <4>1. k - 1 = n /\ n \in 0 .. n + 1 /\ n # n + 1 /\ k # 0
        BY <3>1
      <4>2. g[n] = f[n]
        BY <2>3, <4>1
      <4> QED
        BY <2>3, <3>1, <4>1, <4>2
    <3>2. CASE k # n + 1
      <4>1. k \in 0 .. n /\ (k # 0 => k - 1 \in 0 .. n + 1 /\ k - 1 # n + 1)
        BY <3>2
      <4>2. g[k] = f[k] /\ (k # 0 => g[k - 1] = f[k - 1])
        BY <2>3, <3>2, <4>1
      <4> QED
        BY <2>2, <4>1, <4>2
    <3> QED
      BY <3>1, <3>2
  <2>6. Files0(g, d, w, n + 1)
    <3> DEFINE G(k) == IF k = 0 THEN d ELSE Apply(g[k - 1], w[k])
    <3>1. \A k \in 0 .. n + 1 : g[k] = G(k)
      BY <2>5
    <3> HIDE DEF G
    <3>2. g = [k \in 0 .. n + 1 |-> G(k)]
      BY <2>4, <3>1
    <3> QED
      BY <3>2 DEF Files0, G
  <2> QED
    BY <2>6
<1> HIDE DEF S
<1>3. Nat \subseteq S
  BY <1>1, <1>2, SetInduction
<1> QED
  BY <1>3 DEF S

Meets(f, d, w, n) == \A k \in 0 .. n : f[k] = IF k = 0 THEN d ELSE Apply(f[k - 1], w[k])

LEMMA FilesMet ==
    ASSUME NEW d, NEW w, NEW n \in Nat, NEW f, Files0(f, d, w, n)
    PROVE  Meets(f, d, w, n)
<1> DEFINE F(k) == IF k = 0 THEN d ELSE Apply(f[k - 1], w[k])
<1>1. f = [k \in 0 .. n |-> F(k)]
  BY DEF Files0
<1> HIDE DEF F
<1>2. \A k \in 0 .. n : f[k] = F(k)
  BY <1>1
<1> QED
  BY <1>2 DEF F, Meets

LEMMA AfterIsLast ==
    ASSUME NEW d, NEW w, Len(w) \in Nat
    PROVE  \E f : Files0(f, d, w, Len(w)) /\ AfterWrites(d, w) = f[Len(w)]
<1> DEFINE Sound(f) == Files0(f, d, w, Len(w))
           file == CHOOSE f : Sound(f)
<1>1. \E f : Sound(f)
  BY WritesApply
<1>2. AfterWrites(d, w) = file[Len(w)]
  BY DEF AfterWrites, Files0
<1>3. Sound(file)
  <2> HIDE DEF Sound
  <2> QED
    BY <1>1
<1> QED
  BY <1>2, <1>3

\* The first write can be applied before the others.
LEMMA AfterFirstWrite ==
    ASSUME NEW S, NEW w \in Seq(S), NEW d
    PROVE  /\ w = <<>> => AfterWrites(d, w) = d
           /\ w # <<>> => AfterWrites(d, w) = AfterWrites(Apply(d, Head(w)), Tail(w))
<1>1. Len(w) \in Nat
  OBVIOUS
<1>2. PICK f : Files0(f, d, w, Len(w)) /\ AfterWrites(d, w) = f[Len(w)]
  BY <1>1, AfterIsLast
<1>3. \A k \in 0 .. Len(w) : f[k] = IF k = 0 THEN d ELSE Apply(f[k - 1], w[k])
  <2>1. Meets(f, d, w, Len(w))
    BY <1>1, <1>2, FilesMet
  <2> QED
    BY <2>1 DEF Meets
<1>4. ASSUME w = <<>> PROVE AfterWrites(d, w) = d
  <2>1. Len(w) = 0 /\ 0 \in 0 .. Len(w)
    BY <1>4
  <2> QED
    BY <1>2, <1>3, <2>1
<1>5. ASSUME w # <<>> PROVE AfterWrites(d, w) = AfterWrites(Apply(d, Head(w)), Tail(w))
  <2> DEFINE v == Tail(w)
             e == Apply(d, Head(w))
             n == Len(w)
  <2>1. /\ Len(v) = n - 1 /\ n - 1 \in Nat /\ Head(w) = w[1]
        /\ \A k \in 1 .. n - 1 : v[k] = w[k + 1]
    BY <1>5, HeadTailProperties
  <2> HIDE DEF v, e, n
  <2>2. PICK g : Files0(g, e, v, n - 1) /\ AfterWrites(e, v) = g[n - 1]
    <3>1. Len(v) \in Nat
      BY <2>1
    <3> QED
      BY <2>1, <3>1, AfterIsLast
  <2>3. \A k \in 0 .. n - 1 : g[k] = IF k = 0 THEN e ELSE Apply(g[k - 1], v[k])
    <3>1. Meets(g, e, v, n - 1)
      BY <2>1, <2>2, FilesMet
    <3> QED
      BY <3>1 DEF Meets
  <2>4. n \in Nat /\ n >= 1
    BY <1>1, <2>1 DEF n
  <2>5. f[1] = e
    <3>1. 1 \in 0 .. n /\ 0 \in 0 .. n /\ 1 - 1 = 0
      BY <2>4
    <3>2. f[0] = d /\ f[1] = Apply(f[0], w[1])
      BY <1>3, <3>1 DEF n
    <3> QED
      BY <2>1, <3>2 DEF e
  <2> DEFINE S0 == {k \in Nat : k \in 0 .. n - 1 => g[k] = f[k + 1]}
  <2>6. 0 \in S0
    <3>1. 0 \in 0 .. n - 1 => g[0] = e
      BY <2>3
    <3> QED
      BY <2>5, <3>1
  <2>7. ASSUME NEW k \in Nat, k \in S0 PROVE k + 1 \in S0
    <3> SUFFICES ASSUME k + 1 \in 0 .. n - 1 PROVE g[k + 1] = f[k + 1 + 1]
      OBVIOUS
    <3>1. /\ k \in 0 .. n - 1 /\ k + 1 # 0 /\ k + 1 - 1 = k /\ k + 1 \in 1 .. n - 1
          /\ k + 1 + 1 \in 0 .. n /\ k + 1 + 1 # 0 /\ k + 1 + 1 - 1 = k + 1
      BY <2>4
    <3>2. g[k] = f[k + 1]
      BY <2>7, <3>1
    <3>3. g[k + 1] = Apply(g[k], v[k + 1])
      BY <2>3, <3>1
    <3>4. f[k + 1 + 1] = Apply(f[k + 1], w[k + 1 + 1])
      BY <1>3, <3>1 DEF n
    <3> QED
      BY <2>1, <3>1, <3>2, <3>3, <3>4
  <2> HIDE DEF S0
  <2>8. Nat \subseteq S0
    BY <2>6, <2>7, SetInduction
  <2>9. g[n - 1] = f[n]
    <3>1. n - 1 \in S0 /\ n - 1 \in 0 .. n - 1 /\ n - 1 + 1 = n
      BY <2>1, <2>4, <2>8
    <3>2. g[n - 1] = f[n - 1 + 1]
      BY <3>1 DEF S0
    <3> QED
      BY <3>1, <3>2
  <2> QED
    BY <1>2, <2>2, <2>9 DEF v, e, n
<1> QED
  BY <1>4, <1>5

LEMMA AfterNone == ASSUME NEW d PROVE AfterWrites(d, <<>>) = d
<1>1. <<>> \in Seq({})
  OBVIOUS
<1> QED
  BY <1>1, AfterFirstWrite

LEMMA AfterOne == ASSUME NEW d, NEW v PROVE AfterWrites(d, <<v>>) = Apply(d, v)
<1> DEFINE s == <<v>>
<1>1. s \in Seq({v}) /\ s # <<>> /\ Head(s) = v /\ Tail(s) = <<>>
  OBVIOUS
<1> HIDE DEF s
<1>2. AfterWrites(d, s) = AfterWrites(Apply(d, v), <<>>)
  BY <1>1, AfterFirstWrite
<1> QED
  BY <1>2, AfterNone DEF s

LEMMA AfterTwo ==
    ASSUME NEW d, NEW v, NEW w PROVE AfterWrites(d, <<v, w>>) = Apply(Apply(d, v), w)
<1> DEFINE s == <<v, w>>
<1>1. s \in Seq({v, w}) /\ s # <<>> /\ Head(s) = v /\ Tail(s) = <<w>>
  OBVIOUS
<1> HIDE DEF s
<1>2. AfterWrites(d, s) = AfterWrites(Apply(d, v), <<w>>)
  BY <1>1, AfterFirstWrite
<1> QED
  BY <1>2, AfterOne DEF s

LEMMA AfterThree ==
    ASSUME NEW d, NEW v, NEW w, NEW x
    PROVE  AfterWrites(d, <<v, w, x>>) = Apply(Apply(Apply(d, v), w), x)
<1> DEFINE s == <<v, w, x>>
<1>1. s \in Seq({v, w, x}) /\ s # <<>> /\ Head(s) = v /\ Tail(s) = <<w, x>>
  OBVIOUS
<1> HIDE DEF s
<1>2. AfterWrites(d, s) = AfterWrites(Apply(d, v), <<w, x>>)
  BY <1>1, AfterFirstWrite
<1> QED
  BY <1>2, AfterTwo DEF s

\* The node is in its block, the other blocks stay.
LEMMA PersistApplied ==
    ASSUME NEW d \in Files, NEW node \in Node, node.id \in Allocated(d)
    PROVE  LET e == AfterWrites(d, PersistWrites(node))
           IN /\ OnlyBlock(d, e, node.id)
              /\ Block(e, node.id).inUse
              /\ Block(e, node.id).body = Values(node.values)
              /\ Block(e, node.id).children = node.children
<1> DEFINE id == node.id
           e1 == Apply(d, WriteFlag(id, TRUE))
           e2 == Apply(e1, WriteBody(id, Values(node.values)))
           e3 == Apply(e2, WriteChildren(id, node.children))
<1>1. AfterWrites(d, PersistWrites(node)) = e3
  <2> DEFINE v == WriteFlag(id, TRUE)
             w == WriteBody(id, Values(node.values))
             x == WriteChildren(id, node.children)
  <2>1. PersistWrites(node) = <<v, w, x>>
    BY DEF PersistWrites
  <2>2. e3 = Apply(Apply(Apply(d, v), w), x)
    OBVIOUS
  <2> HIDE DEF v, w, x, e3
  <2> QED
    BY <2>1, <2>2, AfterThree
<1>2. id \in Ids /\ node.values \in Contents /\ node.children \in Links
  BY DEF Node
<1>3. Values(node.values) \in Bodies
  BY <1>2 DEF Bodies
<1>4. /\ OnlyBlock(d, e1, id) /\ Block(e1, id).inUse
  <2> DEFINE new == [Block(d, id) EXCEPT !.inUse = TRUE]
  <2>1. e1 = Set(d, id, new)
    BY DEF Apply, WriteFlag
  <2>2. new \in Blocks /\ new.inUse
    BY <1>2, FileParts DEF Blocks
  <2> HIDE DEF new, e1
  <2> QED
    BY <1>2, <2>1, <2>2, SetBlock
<1> HIDE DEF e1
<1>5. e1 \in Files /\ id \in Allocated(e1)
  BY <1>4 DEF OnlyBlock
<1>6. /\ OnlyBlock(e1, e2, id) /\ Block(e2, id).inUse /\ Block(e2, id).body = Values(node.values)
  BY <1>2, <1>3, <1>4, <1>5, ApplyBody
<1> HIDE DEF e2
<1>7. e2 \in Files /\ id \in Allocated(e2)
  BY <1>5, <1>6 DEF OnlyBlock
<1>8. /\ OnlyBlock(e2, e3, id) /\ Block(e3, id).inUse /\ Block(e3, id).body = Values(node.values)
      /\ Block(e3, id).children = node.children
  <2> DEFINE new == [Block(e2, id) EXCEPT !.children = node.children]
  <2>1. e3 = Set(e2, id, new)
    BY DEF Apply, WriteChildren
  <2>2. /\ new \in Blocks /\ new.inUse /\ new.children = node.children
        /\ new.body = Values(node.values)
    BY <1>2, <1>6, <1>7, FileParts DEF Blocks
  <2> HIDE DEF new, e3
  <2> QED
    BY <1>2, <1>7, <2>1, <2>2, SetBlock
<1> HIDE DEF e3
<1>9. OnlyBlock(d, e3, id)
  BY <1>4, <1>6, <1>8 DEF OnlyBlock
<1> QED
  BY <1>1, <1>8, <1>9

\* The block joins the chain, the other blocks stay.
LEMMA RemoveApplied ==
    ASSUME NEW d \in Files, NEW id \in Ids, id \in Allocated(d), freeId \in Ids
    PROVE  LET e == AfterWrites(d, RemoveWrites(id))
           IN /\ e.depth = d.depth /\ e.header = d.header /\ Allocated(e) = Allocated(d)
              /\ \A i \in Allocated(d) \ {id} : Block(e, i) = Block(d, i)
              /\ ~Block(e, id).inUse
<1> DEFINE e1 == Apply(d, WriteFlag(id, FALSE))
           e2 == Apply(e1, WriteBody(id, NextFree(freeId)))
           e3 == Apply(e2, WriteFree(id))
<1>1. AfterWrites(d, RemoveWrites(id)) = e3
  <2> DEFINE v == WriteFlag(id, FALSE)
             w == WriteBody(id, NextFree(freeId))
             x == WriteFree(id)
  <2>1. RemoveWrites(id) = <<v, w, x>>
    BY DEF RemoveWrites
  <2>2. e3 = Apply(Apply(Apply(d, v), w), x)
    OBVIOUS
  <2> HIDE DEF v, w, x, e3
  <2> QED
    BY <2>1, <2>2, AfterThree
<1>2. OnlyBlock(d, e1, id) /\ ~Block(e1, id).inUse
  BY ApplyFlag
<1> HIDE DEF e1
<1>3. e1 \in Files /\ id \in Allocated(e1) /\ NextFree(freeId) \in Bodies
  BY <1>2 DEF OnlyBlock, Bodies
<1>4. OnlyBlock(e1, e2, id) /\ ~Block(e2, id).inUse
  BY <1>2, <1>3, ApplyBody
<1> HIDE DEF e2
<1>5. e3.header = e2.header /\ e3.depth = e2.depth /\ e3.blocks = e2.blocks
  BY <1>4, ApplyMetadata DEF OnlyBlock
<1> HIDE DEF e3
<1>6. Allocated(e3) = Allocated(e2) /\ \A i : Block(e3, i) = Block(e2, i)
  BY <1>5 DEF Allocated, Block
<1>7. OnlyBlock(d, e2, id)
  BY <1>2, <1>4 DEF OnlyBlock
<1> QED
  BY <1>1, <1>4, <1>5, <1>6, <1>7 DEF OnlyBlock

-----------------------------------------------------------------------------
(* The refinement of NodeStorage.                                          *)

Reads(d) == [id \in Stored(d) |-> StoredNode(d, id)]

LEMMA WhenReady ==
    ASSUME IInv, faults = 0, stops = 0, Ready
    PROVE  /\ writes = <<>> /\ disk \in Files /\ freeId \in Ids
           /\ disk.header # NoHeader
           /\ issued \subseteq Allocated(disk) /\ issued \subseteq Ids
           /\ freeId # noFreeId => freeId \in Ids \ issued
           /\ ReadNodes = Reads(disk) /\ ReadDepth = disk.depth
<1>1. PICK s, t \in Seq(Ids) : TypeOK /\ FileOK /\ ChainsOK(s, t)
  BY DEF IInv
<1>2. NonePending(s) /\ pc = "open"
  BY <1>1, ReadyIsIdle DEF Ready
<1>3. writes = <<>> /\ Allocated(disk) = issued \cup Range(s)
  BY <1>2 DEF NonePending, NoLeak
<1>4. disk.header # NoHeader
  BY <1>1, <1>2 DEF FileOK, Ready, NoOp
<1>5. Finished = disk
  BY <1>3, AfterNone DEF Finished
<1>6. freeId # noFreeId => freeId \notin issued
  <2>1. LinkedFrom(disk, issued, freeId, s)
    BY <1>1, <1>2 DEF ChainsOK
  <2>2. freeId # noFreeId => s # <<>> /\ freeId = s[1]
    BY <2>1 DEF LinkedFrom
  <2>3. s # <<>> => s[1] \in Range(s)
    BY RanParts
  <2> QED
    BY <2>1, <2>2, <2>3, ChainAllocated
<1>7. ReadNodes = Reads(disk) /\ ReadDepth = disk.depth
  BY <1>4, <1>5 DEF ReadNodes, ReadDepth, Reads
<1> QED
  BY <1>1, <1>3, <1>4, <1>6, <1>7 DEF TypeOK

\* While writes are pending, what they lead to counts.
LEMMA WhenStarted ==
    ASSUME NEW o, NEW w, Start(o, w), w # <<>>
    PROVE  /\ ReadNodes' = Reads(AfterWrites(disk, w))
           /\ ReadDepth' = AfterWrites(disk, w).depth
<1>1. disk' = disk /\ writes' = w
  BY DEF Start
<1>2. Finished' = AfterWrites(disk, w)
  BY <1>1 DEF Finished
<1> QED
  BY <1>1, <1>2 DEF ReadNodes, ReadDepth, Reads

LEMMA PersistIsPersist ==
    ASSUME IInv, faults = 0, stops = 0, NEW node \in Node, Persist(node)
    PROVE  NS!StorageNext
<1> DEFINE id == node.id
           e == AfterWrites(disk, PersistWrites(node))
<1>1. /\ id \in issued /\ issued' = issued /\ Ready /\ node.leaf = (node.children = <<>>)
      /\ Start([op |-> "Persist"], PersistWrites(node))
  BY DEF Persist, Start, Node
<1>2. /\ disk \in Files /\ id \in Allocated(disk)
      /\ ReadNodes = Reads(disk) /\ ReadDepth = disk.depth
  BY <1>1, WhenReady
<1>3. ReadNodes' = Reads(e) /\ ReadDepth' = e.depth
  BY <1>1, WhenStarted DEF PersistWrites
<1>4. /\ OnlyBlock(disk, e, id) /\ Block(e, id).inUse
      /\ Block(e, id).body = Values(node.values) /\ Block(e, id).children = node.children
  BY <1>2, PersistApplied
<1>5. node = [id |-> id, values |-> node.values, children |-> node.children, leaf |-> node.leaf]
  BY DEF Node
<1> HIDE DEF e
<1>6. Stored(e) = Stored(disk) \cup {id}
  BY <1>2, <1>4 DEF Stored, OnlyBlock
<1>7. StoredNode(e, id) = node
  BY <1>1, <1>4, <1>5 DEF StoredNode, Values
<1>8. \A i \in Stored(e) \ {id} : StoredNode(e, i) = StoredNode(disk, i)
  BY <1>4 DEF StoredNode, OnlyBlock, Stored
<1> DEFINE read == Reads(disk)
           now == Reads(e)
<1>9. now = [i \in DOMAIN read \cup {id} |-> IF i = id THEN node ELSE read[i]]
  BY <1>6, <1>7, <1>8 DEF Reads
<1>10. id \in DOMAIN now /\ now[id] = node
  BY <1>6, <1>7 DEF Reads
<1>11. ReadDepth' = ReadDepth
  BY <1>2, <1>3, <1>4 DEF OnlyBlock
<1> HIDE DEF now, read
<1>12. NS!Persist(id, ReadNodes'[id])
  BY <1>1, <1>2, <1>3, <1>9, <1>10, <1>11 DEF NS!Persist, NS!Put, now, read
<1> QED
  BY <1>3, <1>10, <1>12 DEF NS!StorageNext, now

LEMMA RemoveIsRemove ==
    ASSUME IInv, faults = 0, stops = 0, NEW id \in Ids, Remove(id)
    PROVE  NS!StorageNext
<1> DEFINE e == AfterWrites(disk, RemoveWrites(id))
<1>1. /\ id \in Stored(disk) /\ id # rootId /\ issued' = issued \ {id} /\ Ready
      /\ Start([op |-> "Remove"], RemoveWrites(id))
  BY DEF Remove, Start
<1>2. /\ disk \in Files /\ id \in Allocated(disk) /\ freeId \in Ids
      /\ ReadNodes = Reads(disk) /\ ReadDepth = disk.depth
  BY <1>1, WhenReady DEF Stored
<1>3. ReadNodes' = Reads(e) /\ ReadDepth' = e.depth
  BY <1>1, WhenStarted DEF RemoveWrites
<1>4. /\ e.depth = disk.depth /\ Allocated(e) = Allocated(disk) /\ ~Block(e, id).inUse
      /\ \A i \in Allocated(disk) \ {id} : Block(e, i) = Block(disk, i)
  BY <1>2, RemoveApplied
<1> HIDE DEF e
<1>5. Stored(e) = Stored(disk) \ {id}
  BY <1>4 DEF Stored
<1>6. \A i \in Stored(e) : StoredNode(e, i) = StoredNode(disk, i)
  BY <1>4, <1>5 DEF StoredNode, Stored
<1> DEFINE read == Reads(disk)
           now == Reads(e)
<1>7. now = [i \in DOMAIN read \ {id} |-> read[i]] /\ id \in DOMAIN read
  BY <1>1, <1>5, <1>6 DEF Reads
<1>8. ReadDepth' = ReadDepth
  BY <1>2, <1>3, <1>4
<1> HIDE DEF now, read
<1>9. NS!Remove(id)
  BY <1>1, <1>2, <1>3, <1>7, <1>8 DEF NS!Remove, NS!Drop, NS!Stores, now, read
<1> QED
  BY <1>2, <1>7, <1>9 DEF NS!StorageNext, read

\* The block at the end is free, so nothing changes before NewId returns.
LEMMA ExtendReads ==
    ASSUME NEW d \in Files
    PROVE  LET e == AfterWrites(d, <<ExtendFlag, ExtendRest>>)
           IN Reads(e) = Reads(d) /\ e.depth = d.depth
<1> DEFINE e1 == Apply(d, ExtendFlag)
           e2 == Apply(e1, ExtendRest)
<1>1. AfterWrites(d, <<ExtendFlag, ExtendRest>>) = e2
  <2>1. e2 = Apply(Apply(d, ExtendFlag), ExtendRest)
    OBVIOUS
  <2> HIDE DEF e2
  <2> QED
    BY <2>1, AfterTwo
<1>2. e1 \in Files /\ e1.depth = d.depth /\ e1.blocks = d.blocks
  BY ApplyExtend
<1> HIDE DEF e1
<1>3. /\ e2.depth = e1.depth
      /\ Allocated(e2) = Allocated(e1) \cup {Len(e1.blocks)}
      /\ \A i \in Allocated(e1) : Block(e2, i) = Block(e1, i)
      /\ Block(e2, Len(e1.blocks)) = ZeroBlock
  BY <1>2, ApplyExtend
<1> HIDE DEF e2
<1>4. Allocated(e1) = Allocated(d) /\ \A i : Block(e1, i) = Block(d, i)
  BY <1>2 DEF Allocated, Block
<1>5. Stored(e2) = Stored(d) /\ \A i \in Stored(d) : StoredNode(e2, i) = StoredNode(d, i)
  BY <1>3, <1>4 DEF Stored, StoredNode, ZeroBlock
<1>6. Reads(e2) = Reads(d)
  BY <1>5 DEF Reads
<1> QED
  BY <1>1, <1>2, <1>3, <1>6

LEMMA BlocksRead ==
    ASSUME NEW d, NEW e, e.blocks = d.blocks
    PROVE  Reads(e) = Reads(d)
BY DEF Reads, Stored, StoredNode, Allocated, Block

LEMMA NewIdAtEndReads ==
    ASSUME IInv, faults = 0, stops = 0, NewIdAtEnd
    PROVE  UNCHANGED <<ReadNodes, issued, ReadDepth>>
<1>1. /\ Ready /\ issued' = issued
      /\ Start([op |-> "NewId", id |-> Len(disk.blocks)], <<ExtendFlag, ExtendRest>>)
  BY DEF NewIdAtEnd, Start
<1>2. disk \in Files /\ ReadNodes = Reads(disk) /\ ReadDepth = disk.depth
  BY <1>1, WhenReady
<1> DEFINE e == AfterWrites(disk, <<ExtendFlag, ExtendRest>>)
<1>3. ReadNodes' = Reads(e) /\ ReadDepth' = e.depth
  BY <1>1, WhenStarted
<1>4. Reads(e) = Reads(disk) /\ e.depth = disk.depth
  BY <1>2, ExtendReads
<1> QED
  BY <1>1, <1>2, <1>3, <1>4

LEMMA NewIdFromChainReads ==
    ASSUME IInv, faults = 0, stops = 0, NewIdFromChain
    PROVE  UNCHANGED <<ReadNodes, issued, ReadDepth>>
<1>1. Ready /\ issued' = issued
  BY DEF NewIdFromChain, Start
<1>2. /\ disk \in Files /\ freeId \in Ids /\ freeId \in Allocated(disk)
      /\ ReadNodes = Reads(disk) /\ ReadDepth = disk.depth
  BY <1>1, WhenReady DEF NewIdFromChain
<1>3. PICK next \in NextIn(Block(disk, freeId)) :
         Start([op |-> "NewId", id |-> freeId], <<WriteFree(next)>>)
  BY DEF NewIdFromChain, NewIdWrites
<1>4. next \in Ids
  <2>1. Block(disk, freeId).body \in Bodies
    BY <1>2, FileParts DEF Blocks
  <2> QED
    BY <1>3, <2>1 DEF NextIn, Bodies, Values, NextFree
<1> DEFINE e == AfterWrites(disk, <<WriteFree(next)>>)
<1>5. ReadNodes' = Reads(e) /\ ReadDepth' = e.depth
  BY <1>3, WhenStarted
<1>6. e = Apply(disk, WriteFree(next))
  BY AfterOne
<1> HIDE DEF e
<1>7. e.depth = disk.depth /\ e.blocks = disk.blocks
  BY <1>2, <1>4, <1>6, ApplyMetadata
<1> QED
  BY <1>1, <1>2, <1>5, <1>7, BlocksRead

LEMMA SetDepthIsSetDepth ==
    ASSUME IInv, faults = 0, stops = 0, NEW d \in 1 .. MaxDepth, SetDepth(d)
    PROVE  NS!StorageNext
<1>1. Ready /\ issued' = issued /\ Start([op |-> "SetDepth"], <<WriteDepth(d)>>)
  BY DEF SetDepth, Start
<1>2. disk \in Files /\ ReadNodes = Reads(disk)
  BY <1>1, WhenReady
<1> DEFINE e == AfterWrites(disk, <<WriteDepth(d)>>)
<1>3. ReadNodes' = Reads(e) /\ ReadDepth' = e.depth
  BY <1>1, WhenStarted
<1>4. e = Apply(disk, WriteDepth(d))
  BY AfterOne
<1> HIDE DEF e
<1>5. e.depth = d /\ e.blocks = disk.blocks
  <2>1. d \in 0 .. MaxDepth + 1
    BY BoundsAssumption
  <2> QED
    BY <1>2, <1>4, <2>1, ApplyMetadata
<1>6. ReadNodes' = ReadNodes
  BY <1>2, <1>3, <1>5, BlocksRead
<1>7. NS!SetDepth(ReadDepth')
  BY <1>1, <1>6 DEF NS!SetDepth
<1> QED
  BY <1>7 DEF NS!StorageNext

\* The writes lead from the empty file to the root alone, which is what the contract
\* starts with.
LEMMA OpenEmptyReads ==
    ASSUME IInv, faults = 0, stops = 0, NEW c \in Configs, OpenEmpty(c)
    PROVE  UNCHANGED <<ReadNodes, issued, ReadDepth>>
<1>1. PICK s, t \in Seq(Ids) : TypeOK /\ FileOK /\ ChainsOK(s, t)
  BY DEF IInv
<1>2. /\ pc = "closed" /\ disk.header = NoHeader /\ disk = EmptyFile /\ disk' = disk
      /\ issued' = issued
      /\ writes' = <<WriteHeader(c), WriteDepth(1), WriteFree(noFreeId), ExtendFlag, ExtendRest>>
                   \o PersistWrites(RootNode)
  BY <1>1 DEF OpenEmpty, FileOK
<1>3. writes = <<>>
  BY <1>1, <1>2 DEF ChainsOK, NonePending, OpenPending, PersistPending, RemovePending,
                    NewIdPending, SetDepthPending
<1>4. ReadNodes = [id \in {rootId} |-> RootNode] /\ ReadDepth = 1
  BY <1>2, <1>3 DEF ReadNodes, ReadDepth
<1> DEFINE v1 == WriteHeader(c)
           v2 == WriteDepth(1)
           v3 == WriteFree(noFreeId)
           v4 == ExtendFlag
           v5 == ExtendRest
           v6 == WriteFlag(rootId, TRUE)
           v7 == WriteBody(rootId, Values(<<>>))
           v8 == WriteChildren(rootId, <<>>)
           d1 == Apply(EmptyFile, v1)
           d2 == Apply(d1, v2)
           d3 == Apply(d2, v3)
           d4 == Apply(d3, v4)
           d5 == Apply(d4, v5)
           e == AfterWrites(d5, PersistWrites(RootNode))
<1>5. PersistWrites(RootNode) = <<v6, v7, v8>>
  BY DEF PersistWrites, RootNode
<1>6. d1 \in Files /\ d1.blocks = <<>>
  <2> HIDE DEF Apply
  <2> QED
    BY EmptyIsFile, ApplyMetadata
<1>7. d2 \in Files /\ d2.blocks = <<>> /\ d2.depth = 1
  <2> HIDE DEF Apply, d1
  <2>1. 1 \in 0 .. MaxDepth + 1
    BY BoundsAssumption
  <2> QED
    BY <1>6, <2>1, ApplyMetadata
<1>8. d3 \in Files /\ d3.blocks = <<>> /\ d3.depth = 1
  <2> HIDE DEF Apply, d2
  <2>1. noFreeId \in Ids
    BY BoundsAssumption DEF noFreeId, Ids
  <2> QED
    BY <1>7, <2>1, ApplyMetadata
<1>9. d4 \in Files /\ d4.blocks = <<>> /\ d4.depth = 1
  <2> HIDE DEF Apply, d3
  <2> QED
    BY <1>8, ApplyExtend
<1>10. d5 \in Files /\ d5.depth = 1 /\ Allocated(d5) = {rootId}
  <2> HIDE DEF Apply, d4
  <2>1. /\ d5 \in Files /\ d5.depth = d4.depth
        /\ Allocated(d5) = Allocated(d4) \cup {Len(d4.blocks)}
    BY <1>9, ApplyExtend
  <2>2. Len(d4.blocks) = 0 /\ Allocated(d4) = {}
    BY <1>9 DEF Allocated
  <2> QED
    BY <1>9, <2>1, <2>2 DEF rootId
<1> HIDE DEF Apply, v1, v2, v3, v4, v5, v6, v7, v8
<1>11. AfterWrites(EmptyFile, <<v1, v2, v3, v4, v5, v6, v7, v8>>) = AfterWrites(d5, <<v6, v7, v8>>)
  <2> DEFINE S == {v1, v2, v3, v4, v5, v6, v7, v8}
             w0 == <<v1, v2, v3, v4, v5, v6, v7, v8>>
             w1 == <<v2, v3, v4, v5, v6, v7, v8>>
             w2 == <<v3, v4, v5, v6, v7, v8>>
             w3 == <<v4, v5, v6, v7, v8>>
             w4 == <<v5, v6, v7, v8>>
             w5 == <<v6, v7, v8>>
  <2>1. w0 \in Seq(S) /\ w0 # <<>> /\ Head(w0) = v1 /\ Tail(w0) = w1
    OBVIOUS
  <2>2. w1 \in Seq(S) /\ w1 # <<>> /\ Head(w1) = v2 /\ Tail(w1) = w2
    OBVIOUS
  <2>3. w2 \in Seq(S) /\ w2 # <<>> /\ Head(w2) = v3 /\ Tail(w2) = w3
    OBVIOUS
  <2>4. w3 \in Seq(S) /\ w3 # <<>> /\ Head(w3) = v4 /\ Tail(w3) = w4
    OBVIOUS
  <2>5. w4 \in Seq(S) /\ w4 # <<>> /\ Head(w4) = v5 /\ Tail(w4) = w5
    OBVIOUS
  <2> HIDE DEF S, w0, w1, w2, w3, w4, w5
  <2>6. ASSUME NEW d, NEW w \in Seq(S), w # <<>>
        PROVE  AfterWrites(d, w) = AfterWrites(Apply(d, Head(w)), Tail(w))
    BY <2>6, AfterFirstWrite
  <2>7. AfterWrites(EmptyFile, w0) = AfterWrites(d1, w1)
    BY <2>1, <2>6 DEF d1
  <2>8. AfterWrites(d1, w1) = AfterWrites(d2, w2)
    BY <2>2, <2>6 DEF d2
  <2>9. AfterWrites(d2, w2) = AfterWrites(d3, w3)
    BY <2>3, <2>6 DEF d3
  <2>10. AfterWrites(d3, w3) = AfterWrites(d4, w4)
    BY <2>4, <2>6 DEF d4
  <2>11. AfterWrites(d4, w4) = AfterWrites(d5, w5)
    BY <2>5, <2>6 DEF d5
  <2> QED
    BY <2>7, <2>8, <2>9, <2>10, <2>11 DEF w0, w5
<1> HIDE DEF d1, d2, d3, d4, d5
<1>12. writes' = <<v1, v2, v3, v4, v5, v6, v7, v8>>
  <2>1. writes' = <<v1, v2, v3, v4, v5>> \o <<v6, v7, v8>>
    BY <1>2, <1>5 DEF v1, v2, v3, v4, v5
  <2> QED
    BY <2>1, FiveAndThree
<1>13. Finished' = e
  BY <1>2, <1>5, <1>11, <1>12 DEF Finished
<1>14. /\ OnlyBlock(d5, e, rootId) /\ Block(e, rootId).inUse
       /\ Block(e, rootId).body = Values(<<>>) /\ Block(e, rootId).children = <<>>
  <2>1. RootNode \in Node /\ RootNode.id = rootId /\ RootNode.values = <<>> /\ RootNode.children = <<>>
    BY ContentsAssumption, BoundsAssumption DEF RootNode, Node, Ids, rootId
  <2>2. RootNode.id \in Allocated(d5)
    BY <1>10, <2>1
  <2> QED
    BY <1>10, <2>1, <2>2, PersistApplied
<1> HIDE DEF e
<1>15. Stored(e) = {rootId} /\ e.depth = 1
  BY <1>10, <1>14 DEF Stored, OnlyBlock
<1>16. StoredNode(e, rootId) = RootNode
  <2>1. /\ Block(e, rootId).body.values = <<>>
        /\ Block(e, rootId).children = <<>>
        /\ (Block(e, rootId).children = <<>>) = TRUE
    BY <1>14 DEF Values
  <2> QED
    BY <2>1 DEF StoredNode, RootNode
<1>17. ReadNodes' = Reads(e) /\ ReadDepth' = 1
  BY <1>12, <1>13, <1>15 DEF ReadNodes, ReadDepth, Reads
<1>18. Reads(e) = [id \in {rootId} |-> RootNode]
  BY <1>15, <1>16 DEF Reads
<1> QED
  BY <1>2, <1>4, <1>17, <1>18

IsSequence(w) == \E S : w \in Seq(S)

LEMMA WritesAreSequence ==
    ASSUME IInv
    PROVE  IsSequence(writes)
<1>1. PICK s, t \in Seq(Ids) : ChainsOK(s, t)
  BY DEF IInv
<1>2. ASSUME NEW v1
      PROVE  IsSequence(<<v1>>)
  <2>1. <<v1>> \in Seq({v1})
    OBVIOUS
  <2> QED
    BY <2>1 DEF IsSequence
<1>3. ASSUME NEW v1, NEW v2
      PROVE  IsSequence(<<v1, v2>>)
  <2>1. <<v1, v2>> \in Seq({v1, v2})
    OBVIOUS
  <2> QED
    BY <2>1 DEF IsSequence
<1>4. ASSUME NEW v1, NEW v2, NEW v3
      PROVE  IsSequence(<<v1, v2, v3>>)
  <2>1. <<v1, v2, v3>> \in Seq({v1, v2, v3})
    OBVIOUS
  <2> QED
    BY <2>1 DEF IsSequence
<1>5. ASSUME NEW v1, NEW v2, NEW v3, NEW v4
      PROVE  IsSequence(<<v1, v2, v3, v4>>)
  <2>1. <<v1, v2, v3, v4>> \in Seq({v1, v2, v3, v4})
    OBVIOUS
  <2> QED
    BY <2>1 DEF IsSequence
<1>6. ASSUME NEW v1, NEW v2, NEW v3, NEW v4, NEW v5
      PROVE  IsSequence(<<v1, v2, v3, v4, v5>>)
  <2>1. <<v1, v2, v3, v4, v5>> \in Seq({v1, v2, v3, v4, v5})
    OBVIOUS
  <2> QED
    BY <2>1 DEF IsSequence
<1>7. ASSUME NEW v1, NEW v2, NEW v3, NEW v4, NEW v5, NEW v6
      PROVE  IsSequence(<<v1, v2, v3, v4, v5, v6>>)
  <2>1. <<v1, v2, v3, v4, v5, v6>> \in Seq({v1, v2, v3, v4, v5, v6})
    OBVIOUS
  <2> QED
    BY <2>1 DEF IsSequence
<1>8. ASSUME NEW v1, NEW v2, NEW v3, NEW v4, NEW v5, NEW v6, NEW v7
      PROVE  IsSequence(<<v1, v2, v3, v4, v5, v6, v7>>)
  <2>1. <<v1, v2, v3, v4, v5, v6, v7>> \in Seq({v1, v2, v3, v4, v5, v6, v7})
    OBVIOUS
  <2> QED
    BY <2>1 DEF IsSequence
<1>9. ASSUME NEW v1, NEW v2, NEW v3, NEW v4, NEW v5, NEW v6, NEW v7, NEW v8
      PROVE  IsSequence(<<v1, v2, v3, v4, v5, v6, v7, v8>>)
  <2>1. <<v1, v2, v3, v4, v5, v6, v7, v8>> \in Seq({v1, v2, v3, v4, v5, v6, v7, v8})
    OBVIOUS
  <2> QED
    BY <2>1 DEF IsSequence
<1>10. CASE NonePending(s)
  <2>1. <<>> \in Seq({})
    OBVIOUS
  <2>2. IsSequence(<<>>)
    BY <2>1 DEF IsSequence
  <2> QED
    BY <1>10, <2>2 DEF NonePending
<1>11. CASE OpenPending
  BY <1>2, <1>3, <1>4, <1>5, <1>6, <1>7, <1>8, <1>9, <1>11, Zenon DEF OpenPending
<1>12. CASE PersistPending(s)
  BY <1>2, <1>3, <1>4, <1>12, Zenon DEF PersistPending
<1>13. CASE RemovePending(s, t)
  BY <1>2, <1>3, <1>4, <1>13, Zenon DEF RemovePending
<1>14. CASE NewIdPending(s)
  <2>1. \/ writes = <<ExtendFlag, ExtendRest>>
        \/ writes = <<ExtendRest>>
        \/ \E id : writes = <<WriteFree(id)>>
    BY <1>14 DEF NewIdPending
  <2> QED
    BY <1>2, <1>3, <2>1, Zenon
<1>15. CASE SetDepthPending(s)
  BY <1>2, <1>15, Zenon DEF SetDepthPending
<1> QED
  BY <1>1, <1>10, <1>11, <1>12, <1>13, <1>14, <1>15 DEF ChainsOK

\* A write does what was counted on; the last one of NewId hands the block out.
LEMMA WriteReads ==
    ASSUME IInv, IInv', faults = 0, stops = 0, Write
    PROVE  /\ ReadNodes' = ReadNodes /\ ReadDepth' = ReadDepth
           /\ \/ issued' = issued
              \/ /\ op.op = "NewId" /\ Tail(writes) = <<>>
                 /\ issued' = HandOut(op.id)
<1>1. /\ writes # <<>> /\ disk' = Apply(disk, Head(writes)) /\ writes' = Tail(writes)
      /\ Tail(writes) = <<>> => op' = NoOp
      /\ pc' = pc
  BY DEF Write
<1>2. PICK S : writes \in Seq(S)
  BY WritesAreSequence DEF IsSequence
<1>3. Finished' = Finished
  BY <1>1, <1>2, AfterFirstWrite DEF Finished
<1>4. PICK s, t \in Seq(Ids) : ChainsOK(s, t)
  BY DEF IInv
<1>5. pc = "open"
  BY <1>1, <1>4 DEF ChainsOK, NonePending, OpenPending, PersistPending, RemovePending,
                    NewIdPending, SetDepthPending
<1>6. ~(disk'.header = NoHeader /\ writes' = <<>>)
  <2>1. FileOK'
    BY DEF IInv
  <2> QED
    BY <1>1, <1>5, <2>1 DEF FileOK, NoOp
<1>7. ReadNodes' = ReadNodes /\ ReadDepth' = ReadDepth
  BY <1>1, <1>3, <1>6 DEF ReadNodes, ReadDepth
<1> QED
  BY <1>7 DEF Write

LEMMA NewIdIsNewId ==
    ASSUME IInv, faults = 0, stops = 0, Write, op.op = "NewId", Tail(writes) = <<>>
    PROVE  op.id \in Ids \ issued /\ HandOut(op.id) = issued \cup {op.id}
<1>1. PICK s, t \in Seq(Ids) : TypeOK /\ ChainsOK(s, t)
  BY DEF IInv
<1>2. NewIdPending(s)
  <2>1. writes # <<>> /\ op.op = "NewId"
    BY DEF Write
  <2>2. ~NonePending(s) /\ ~OpenPending /\ ~PersistPending(s) /\ ~RemovePending(s, t) /\ ~SetDepthPending(s)
    <3>1. op # NoOp
      BY <2>1 DEF NoOp
    <3>2. op # [op |-> "open"] /\ op # [op |-> "Persist"] /\ op # [op |-> "Remove"]
          /\ op # [op |-> "SetDepth"]
      BY <2>1
    <3> QED
      BY <3>1, <3>2 DEF NonePending, OpenPending, PersistPending, RemovePending, SetDepthPending
  <2> QED
    BY <1>1, <2>2 DEF ChainsOK
<1>6. LinkedFrom(disk, issued, freeId, s)
  BY <1>1, <1>2 DEF ChainsOK, NewIdPending
<1>3. Allocated(disk) = issued \cup Range(s)
  BY <1>2 DEF NewIdPending, NoLeak
<1>4. op.id \in Ids
  BY <1>1 DEF TypeOK, Methods
<1>5. op.id \notin issued
  <2>1. CASE op.id = Len(disk.blocks)
    <3>1. Len(disk.blocks) \in Nat
      BY <1>1, FileParts DEF TypeOK
    <3>2. Len(disk.blocks) \notin Allocated(disk)
      BY <3>1 DEF Allocated
    <3> QED
      BY <1>3, <2>1, <3>2
  <2>2. CASE op.id = freeId /\ s # <<>>
    <3>1. freeId = s[1] /\ s[1] \in Range(s)
      BY <1>6, <2>2, RanParts DEF LinkedFrom
    <3> QED
      BY <1>6, <2>2, <3>1, ChainAllocated
  <2> QED
    BY <1>2, <2>1, <2>2 DEF NewIdPending
<1> QED
  BY <1>4, <1>5 DEF HandOut

LEMMA WriteIsNewId ==
    ASSUME IInv, IInv', faults = 0, stops = 0, Write
    PROVE  NS!StorageNext \/ UNCHANGED <<ReadNodes, issued, ReadDepth>>
<1>1. CASE issued' = issued
  BY <1>1, WriteReads
<1>2. CASE issued' # issued
  <2>1. /\ op.op = "NewId" /\ Tail(writes) = <<>> /\ issued' = HandOut(op.id)
        /\ ReadNodes' = ReadNodes /\ ReadDepth' = ReadDepth
    BY <1>2, WriteReads
  <2>2. op.id \in Ids \ issued /\ issued' = issued \cup {op.id}
    BY <2>1, NewIdIsNewId
  <2>3. NS!NewId(op.id)
    BY <2>1, <2>2 DEF NS!NewId
  <2> QED
    BY <2>2, <2>3 DEF NS!StorageNext
<1> QED
  BY <1>1, <1>2

LEMMA StorageStepRefines ==
    ASSUME IInv, IInv', [Next]_vars, faults' = 0, stops' = 0
    PROVE  NS!StorageNext \/ UNCHANGED <<ReadNodes, issued, ReadDepth>>
<1>1. TypeOK /\ FileOK /\ faults \in Nat /\ stops \in Nat
  BY BoundsAssumption DEF IInv, TypeOK
<1>2. ~Fail /\ ~Stop
  BY <1>1 DEF Fail, Stop
<1>3. faults = 0 /\ stops = 0
  BY <1>2 DEF Next, OpenEmpty, OpenExisting, Persist, Remove, NewIdAtEnd, NewIdFromChain, SetDepth,
              Start, Write, vars
<1>4. ASSUME NEW c \in Configs, OpenExisting(c) PROVE FALSE
  BY <1>1, <1>3, <1>4 DEF OpenExisting, FileOK
<1>5. CASE UNCHANGED vars
  BY <1>5 DEF vars, ReadNodes, ReadDepth, Finished
<1>6. CASE Next
  BY <1>2, <1>3, <1>4, <1>6, OpenEmptyReads, PersistIsPersist, RemoveIsRemove, NewIdAtEndReads,
     NewIdFromChainReads, SetDepthIsSetDepth, WriteIsNewId DEF Next
<1> QED
  BY <1>5, <1>6

\* Until a write fails or the process stops, a storage on a new file keeps the
\* contract of NodeStorage, whatever the number of blocks and the nodes: Persist and
\* Remove change what Get returns for the node they are given and for no other, and
\* NewId returns only ids that are not in use.
THEOREM PersistentImplementsStorage == Spec => ImplementsStorage
<1>1. Init => NS!StorageInit
  <2> SUFFICES ASSUME Init PROVE NS!StorageInit
    OBVIOUS
  <2>1. ReadNodes = [id \in {rootId} |-> RootNode] /\ ReadDepth = 1 /\ issued = {rootId}
    BY DEF Init, ReadNodes, ReadDepth, EmptyFile
  <2> QED
    BY <2>1 DEF NS!StorageInit, NS!createNewNode, RootNode
<1>2. IInv /\ IInv' /\ [Next]_vars =>
          [faults' = 0 /\ stops' = 0 => NS!StorageNext \/ UNCHANGED NS!storageVars]_vars
  BY StorageStepRefines DEF NS!storageVars
<1> QED
  BY <1>1, <1>2, PersistentKeepsInvariant, PTL DEF Spec, ImplementsStorage
=============================================================================
