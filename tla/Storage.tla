------------------------------- MODULE Storage -------------------------------
(***************************************************************************)
(* The key-value store of a node (src/storage/memory.ts) and the copy of it *)
(* that another node imports (src/storage/snapshot.ts).  Blocks are written *)
(* as batches, an operation at each await, while an export counts the keys  *)
(* on one snapshot and cuts a second one into chunks.  The chunks reach the *)
(* importer in any order, twice, damaged or never.                          *)
(***************************************************************************)
EXTENDS Naturals, SequencesExt, FiniteSetsExt, Filters

CONSTANTS
    Keys,
    Genesis,        \* what the store holds at height 0
    Batches,        \* the batches a block may be: sequences of [type, key]
    Imports,        \* what the target of an import may hold before
    ChunkSize, Damaged, Readers,
    MaxBlocks, MaxReceived      \* bounds

ASSUME StorageAssumption ==
    /\ ChunkSize \in Nat \ {0} /\ Damaged \notin Nat /\ {MaxBlocks, MaxReceived} \subseteq Nat
    /\ Batches \subseteq Seq([type : {"put", "delete"}, key : Keys]) \ {<<>>}
    /\ Imports \cup {Genesis} \subseteq Seq([key : Keys, value : Nat])
    /\ \A m, n \in DOMAIN Genesis : Genesis[m].key = Genesis[n].key => m = n

VARIABLES
    data,       \* MemoryStore.data: a Map iterates in the order of insertion
    batch,      \* the operations of the batch under way
    height,     \* of the last block whose batch has ended
    written,    \* key -> heights of the blocks that wrote it
    reader,     \* who reads the store besides: "export" or "cache"
    out,        \* exportSnapshot
    target,     \* the store importSnapshot writes to
    import      \* importSnapshot

store == <<data, batch, height, written>>
copy == <<out, target, import>>

Entry(k, v) == [key |-> k, value |-> v]
KeysOf(d) == {d[n].key : n \in DOMAIN d}
Get(d, k) == {d[n].value : n \in {n \in DOMAIN d : d[n].key = k}}
Put(d, k, v) ==
    IF k \in KeysOf(d) THEN [n \in DOMAIN d |-> IF d[n].key = k THEN Entry(k, v) ELSE d[n]]
    ELSE Append(d, Entry(k, v))
Delete(d, k) == Filtered(d, {e \in ToSet(d) : e.key # k})

NoExport == [pc |-> "idle", first |-> <<>>, second |-> <<>>, total |-> 0]

StorageInit ==
    /\ data = Genesis /\ batch = <<>> /\ height = 0 /\ written = [k \in Keys |-> {0}]
    /\ reader \in Readers /\ out = NoExport
    /\ target \in (IF reader = "export" THEN Imports ELSE {<<>>})
    /\ import = [before |-> target, got |-> <<>>, left |-> <<>>, verified |-> TRUE]

-----------------------------------------------------------------------------
StartBatch(b) ==
    /\ batch = <<>> /\ height < MaxBlocks
    /\ batch' = b
    /\ UNCHANGED <<data, height, written, reader, copy>>

\* batch, one operation: other calls run at the await of each.
BatchOp ==
    /\ batch # <<>>
    /\ LET op == Head(batch) IN
       /\ data' = IF op.type = "put" THEN Put(data, op.key, height + 1) ELSE Delete(data, op.key)
       /\ written' = [written EXCEPT ![op.key] = @ \cup {height + 1}]
    /\ batch' = Tail(batch)
    /\ height' = IF Len(batch) = 1 THEN height + 1 ELSE height
    /\ UNCHANGED <<reader, copy>>

-----------------------------------------------------------------------------
(* exportSnapshot: the first pass counts, the second one cuts.              *)

Ceil(n) == (n + ChunkSize - 1) \div ChunkSize

ExportCount ==
    /\ reader = "export" /\ out.pc = "idle"
    /\ out' = [out EXCEPT !.pc = "counted", !.first = data, !.total = Ceil(Len(data))]
    /\ UNCHANGED <<store, reader, target, import>>

ExportCut ==
    /\ out.pc = "counted"
    /\ out' = [out EXCEPT !.pc = "cut", !.second = data]
    /\ UNCHANGED <<store, reader, target, import>>

\* (bug) the entries that do not fill a chunk are left behind
IndexesBug == 0..((Len(out.second) \div ChunkSize) - 1)
\* The chunks that are yielded: full ones and the remaining entries.
Indexes == 0..(Ceil(Len(out.second)) - 1)

\* (bug) the chunks are cut from the store itself
RestBug(i) == SubSeq(data, i * ChunkSize + 1, Len(data))
Rest(i) == SubSeq(out.second, i * ChunkSize + 1, Len(out.second))
\* createChunk; the hash of the entries stands for them.
Chunk(i) ==
    LET entries == SubSeq(Rest(i), 1, IF Len(Rest(i)) < ChunkSize THEN Len(Rest(i)) ELSE ChunkSize)
    IN  [index |-> i, total |-> out.total, entries |-> entries, hash |-> entries]

\* (bug) only the last chunk is verified
VerifiedBug(chunk) == chunk.entries = chunk.hash
Verified(chunk) == import.verified /\ chunk.entries = chunk.hash

\* importSnapshot takes a chunk and writes its entries, verified or not, one at each
\* await; its index and its total are read by nobody.
Accept(chunk) ==
    import' = [import EXCEPT !.got = Append(@, chunk.index), !.left = chunk.entries, !.verified = Verified(chunk)]

\* A chunk arrives as it was sent, or damaged.
Receive ==
    /\ out.pc = "cut" /\ import.left = <<>> /\ Len(import.got) < MaxReceived
    /\ \E i \in Indexes : Accept(Chunk(i)) \/ Accept([Chunk(i) EXCEPT !.entries[1].value = Damaged])
    /\ UNCHANGED <<store, reader, out, target>>

ImportPut ==
    /\ import.left # <<>>
    /\ target' = Put(target, Head(import.left).key, Head(import.left).value)
    /\ import' = [import EXCEPT !.left = Tail(@)]
    /\ UNCHANGED <<store, reader, out>>

Write == (\E b \in Batches : StartBatch(b)) \/ BatchOp
StorageNext == Write \/ ExportCount \/ ExportCut \/ Receive \/ ImportPut
StorageSpec == StorageInit /\ [][StorageNext]_<<store, reader, copy>>

-----------------------------------------------------------------------------
(* Properties.                                                             *)

AllArrived == import.left = <<>> /\ ToSet(import.got) = 0..(Ceil(Len(out.second)) - 1)
InOrder == \A n \in DOMAIN import.got : import.got[n] = n - 1

\* An import that reports verified, once every chunk arrived and was written in whatever
\* order and however often, holds every key of the snapshot with the value it had there,
\* and nothing but what the snapshot or the target held before, blocks being
\* written all the while.  Chunks that arrived in order in an empty store make the
\* same state root (the order of the keys too), and the chunks are as many as each
\* of them tells unless keys came or went between the two passes (exportSnapshot,
\* importSnapshot, computeStateRoot).
ImportIsTheExport ==
    out.pc = "cut" /\ import.verified =>
        /\ ToSet(target) \subseteq ToSet(out.second) \cup ToSet(import.before)
        /\ AllArrived => ToSet(out.second) \subseteq ToSet(target)
        /\ AllArrived /\ InOrder /\ import.before = <<>> => target = out.second
        /\ Len(out.first) = Len(out.second) => out.total = Cardinality(Indexes)
=============================================================================
