----------------------------- MODULE ByteBuffer -----------------------------
(***************************************************************************)
(* ByteBuffer, ByteBufferStorage and ByteBufferAllocator of ByteBuffer.cpp. *)
(* Buffers share storage blocks through CopyOnWriteBacked: a buffer refers  *)
(* to a block, and unique() splits a block that another buffer refers to    *)
(* (CopyOnWrite shows that the count is the number of references).          *)
(*                                                                          *)
(* A block is the sequence of its bytes, its capacity is the length of the  *)
(* sequence, and the empty sequence is a block without memory: bytes is     *)
(* nullptr and capacity is 0.  allocate and reallocate may fail at any      *)
(* call.  A failed assert, or a use of a null pointer, aborts the program.  *)
(* The moves of the cursors are private: a client moves them only by        *)
(* writing, reading, skipping, discarding and clearing.                     *)
(***************************************************************************)
EXTENDS NextPowerOf2, Sequences, FiniteSets

CONSTANTS
    Buffers,
    Storages,       \* addresses of blocks
    Byte,           \* bytes a client writes
    Junk,           \* a byte of fresh memory
    None,           \* the storage of a buffer that is not constructed
    SplitMayFail,   \* whether allocate can fail in a copy-on-write split
    ReallocMoves    \* whether reallocate can move a block that is being read

ASSUME FlagsAssumption == SplitMayFail \in BOOLEAN /\ ReallocMoves \in BOOLEAN
ASSUME JunkAssumption == Junk \notin Byte /\ None \notin Storages

\* There is always an address for a new block: one per buffer is enough.
ASSUME StoragesAssumption ==
    /\ IsFiniteSet(Buffers) /\ IsFiniteSet(Storages)
    /\ Cardinality(Buffers) <= Cardinality(Storages)

VARIABLES
    store,     \* ByteBuffer.storage
    data,      \* ByteBufferStorage.bytes and capacity
    reader,    \* ByteBuffer.readerIndex
    writer,    \* ByteBuffer.writerIndex
    out,       \* the bytes the last call read
    aborted    \* an assert failed or a null pointer was used

vars == <<store, data, reader, writer, out, aborted>>

Contents == Byte \cup {Junk}
Blocks   == UNION {[1..n -> Contents] : n \in Size}

TypeOK ==
    /\ store \in [Buffers -> Storages \cup {None}]
    /\ data \in [Storages -> Blocks]
    /\ reader \in [Buffers -> Size]
    /\ writer \in [Buffers -> Size]
    /\ out \in Blocks
    /\ aborted \in BOOLEAN

minimumOf(lhs, rhs) == IF lhs < rhs THEN lhs ELSE rhs

Alive(x)    == ~aborted /\ store[x] # None
Bytes(x)    == data[store[x]]
Capacity(x) == Len(Bytes(x))

readableBytes(x) == IF writer[x] > reader[x] THEN writer[x] - reader[x] ELSE 0

\* The sum of an index and a size, as Size adds them: it wraps around.
ForwardBy(index, offset) == (index + offset) % (SizeMax + 1)

Referenced(refs, s) == \E x \in Buffers : refs[x] = s

-----------------------------------------------------------------------------
(***************************************************************************)
(* Faulty variants, each a slip one could make in ByteBuffer.cpp.           *)
(***************************************************************************)
FaultyIsShared(x) == FALSE                \* the block is mutated in place

-----------------------------------------------------------------------------
(***************************************************************************)
(* ByteBufferStorage, as sets of outcomes.                                  *)
(***************************************************************************)
Fresh(n) == [i \in 1..n |-> Junk]

\* The constructor: rounded up, or without memory if allocate fails.
NewBlocks(capacity) == {Fresh(nextPowerOf2ClampedToMax(capacity)), <<>>}

Fits(d, needed) == d # <<>> /\ needed <= Len(d)

Grown(d, n) == [i \in 1..n |-> IF i <= Len(d) THEN d[i] ELSE Junk]

\* reserve: the block as it is, a larger one, or a refusal.
Reserved(d, needed) ==
    LET n == nextPowerOf2ClampedToMax(needed) IN
    IF Fits(d, needed) THEN {[ok |-> TRUE, d |-> d]}
    ELSE IF n < needed THEN {[ok |-> FALSE, d |-> d]}
    ELSE {[ok |-> TRUE, d |-> Grown(d, n)], [ok |-> FALSE, d |-> d]}

Overwritten(d, bs, at) ==
    [i \in 1..Len(d) |-> IF i \in (at + 1)..(at + Len(bs)) THEN bs[i - at] ELSE d[i]]

FaultySetBytes(d, bs, at) ==              \* the sum is not checked
    IF bs = <<>>
    THEN {[d |-> d, n |-> 0]}
    ELSE {IF r.ok THEN [d |-> Overwritten(r.d, bs, at), n |-> Len(bs)]
                  ELSE [d |-> d, n |-> 0] : r \in Reserved(d, ForwardBy(at, Len(bs)))}

FaultyShortSetBytes(d, bs, at) ==         \* without space, writes what fits
    IF bs = <<>> \/ at > SizeMax - Len(bs)
    THEN {[d |-> d, n |-> 0]}
    ELSE {[d |-> Overwritten(r.d, bs, at),
           n |-> IF r.ok THEN Len(bs) ELSE minimumOf(Len(bs), Len(d) - at)] :
             r \in Reserved(d, ForwardBy(at, Len(bs)))}

\* setBytes: what the block becomes, and how many bytes were written.
SetBytes(d, bs, at) ==
    IF bs = <<>> \/ at > SizeMax - Len(bs)
    THEN {[d |-> d, n |-> 0]}
    ELSE {IF r.ok THEN [d |-> Overwritten(r.d, bs, at), n |-> Len(bs)]
                  ELSE [d |-> d, n |-> 0] : r \in Reserved(d, ForwardBy(at, Len(bs)))}

\* copyBytesTo: how many bytes it copies.  To a null destination it copies none
\* and the reader cursor stays, as when no byte is asked for.
Copied(d, size, from) ==
    IF d = <<>> \/ from >= Len(d) THEN 0 ELSE minimumOf(size, Len(d) - from)

(***************************************************************************)
(* CopyOnWriteBacked::unique() on a storage.  The copy constructor of       *)
(* ByteBufferStorage leaves a block without memory if allocate fails.       *)
(***************************************************************************)
IsShared(x) == \E y \in Buffers \ {x} : store[y] = store[x]

Unique(x) ==
    IF IsShared(x)
    THEN LET s == CHOOSE s \in Storages : ~Referenced(store, s) IN
         {[s |-> s, d |-> Bytes(x)]}
           \cup (IF SplitMayFail THEN {[s |-> s, d |-> <<>>]} ELSE {})
    ELSE {[s |-> store[x], d |-> Bytes(x)]}

\* Buffer x now refers to block s with bytes d.
Installs(x, s, d) ==
    /\ store' = [store EXCEPT ![x] = s]
    /\ data' = [data EXCEPT ![s] = d]

\* Buffer x refers to s instead; a block nobody refers to is gone.
Refers(x, s, d) ==
    LET refs == [store EXCEPT ![x] = s] IN
    /\ store' = refs
    /\ data' = [b \in Storages |-> IF ~Referenced(refs, b) THEN <<>>
                                   ELSE IF b = s THEN d ELSE data[b]]

Cursors(x, r, w) ==
    /\ reader' = [reader EXCEPT ![x] = r]
    /\ writer' = [writer EXCEPT ![x] = w]

-----------------------------------------------------------------------------
Init ==
    /\ store = [x \in Buffers |-> None]
    /\ data = [s \in Storages |-> <<>>]
    /\ reader = [x \in Buffers |-> 0]
    /\ writer = [x \in Buffers |-> 0]
    /\ out = <<>>
    /\ aborted = FALSE

buffer(x, capacity) ==
    /\ ~aborted /\ store[x] = None
    /\ \E d \in NewBlocks(capacity) :
         Refers(x, CHOOSE s \in Storages : ~Referenced(store, s), d)
    /\ Cursors(x, 0, 0)
    /\ out' = <<>>
    /\ UNCHANGED aborted

\* The copy constructor and the copy assignment, memberwise.
copy(x, y) ==
    /\ Alive(y) /\ x # y
    /\ Refers(x, store[y], Bytes(y))
    /\ Cursors(x, reader[y], writer[y])
    /\ out' = <<>>
    /\ UNCHANGED aborted

destroy(x) ==
    /\ Alive(x)
    /\ Refers(x, None, <<>>)
    /\ Cursors(x, 0, 0)
    /\ out' = <<>>
    /\ UNCHANGED aborted

\* The asserts that guard the private moves of the cursors.
moveReaderIndexTo(x, index) ==
    /\ reader' = [reader EXCEPT ![x] = index]
    /\ aborted' = ~(index <= writer[x])

moveWriterIndexTo(x, index, capacity) ==
    /\ writer' = [writer EXCEPT ![x] = index]
    /\ aborted' = ~(index <= capacity)

\* writeBytes, and writeString and writeCString, which call it.
writeBytes(x, bs) ==
    /\ Alive(x)
    /\ \E u \in Unique(x) : \E r \in SetBytes(u.d, bs, writer[x]) :
         /\ Installs(x, u.s, r.d)
         /\ moveWriterIndexTo(x, ForwardBy(writer[x], r.n), Len(r.d))
    /\ out' = <<>>
    /\ UNCHANGED reader

\* The bytes that a pointer into the block leads to; none from nullptr.
Part(d, from, to) == IF d = <<>> THEN <<>> ELSE SubSeq(d, from + 1, to)

\* writeBytes(readableBytesView(), size): the source is in the block itself.
\* A split keeps the old block alive, but reallocate may move it: then the
\* source is read after it was given back.
writeOwnBytes(x, size) ==
    /\ Alive(x) /\ size <= readableBytes(x)
    /\ LET bs == Part(Bytes(x), reader[x], reader[x] + size) IN
       \E u \in Unique(x) :
       \E r \in SetBytes(u.d, bs, writer[x])
                  \cup (IF ReallocMoves /\ bs # <<>> /\ u.s = store[x]
                           /\ ~Fits(u.d, writer[x] + size)
                        THEN SetBytes(u.d, Fresh(size), writer[x]) ELSE {}) :
         /\ Installs(x, u.s, r.d)
         /\ moveWriterIndexTo(x, ForwardBy(writer[x], r.n), Len(r.d))
    /\ out' = <<>>
    /\ UNCHANGED reader

\* With nothing to read the call returns before any assert: a stuttering step,
\* but for out.
readBytes(x, size) ==
    /\ Alive(x)
    /\ LET count == minimumOf(size, readableBytes(x))
            n     == Copied(Bytes(x), count, reader[x])
       IN  /\ out' = SubSeq(Bytes(x), reader[x] + 1, reader[x] + n)
           /\ \/ count = 0 /\ UNCHANGED <<reader, aborted>>
              \/ count > 0 /\ moveReaderIndexTo(x, ForwardBy(reader[x], n))
    /\ UNCHANGED <<store, data, writer>>

\* readString copies from readableBytesView(), which may be nullptr.
readString(x, size) ==
    /\ Alive(x)
    /\ LET count == minimumOf(size, readableBytes(x)) IN
         \/ /\ count = 0
            /\ out' = <<>>
            /\ UNCHANGED <<reader, aborted>>
         \/ /\ count > 0
            /\ out' = Part(Bytes(x), reader[x], reader[x] + count)
            /\ reader' = [reader EXCEPT ![x] = ForwardBy(reader[x], count)]
            /\ aborted' = (Bytes(x) = <<>> \/ reader'[x] > writer[x])
    /\ UNCHANGED <<store, data, writer>>

\* There is no early return here: the assert runs even if nothing is skipped.
skipBytes(x, size) ==
    /\ Alive(x)
    /\ moveReaderIndexTo(x, ForwardBy(reader[x], minimumOf(size, readableBytes(x))))
    /\ out' = <<>>
    /\ UNCHANGED <<store, data, writer>>

\* The readable bytes move to the front of the block, split off if shared.  A
\* split without memory computes the source from a null pointer.
discardReadBytes(x) ==
    /\ Alive(x) /\ reader[x] > 0
    /\ LET n == readableBytes(x) IN
         /\ \/ n = 0 /\ UNCHANGED <<store, data, aborted>>
            \/ /\ n > 0
               /\ \E u \in Unique(x) :
                  \E r \in SetBytes(u.d, Part(u.d, reader[x], writer[x]), 0) :
                    /\ Installs(x, u.s, r.d)
                    /\ aborted' = (u.d = <<>>)
         /\ Cursors(x, 0, n)
    /\ out' = <<>>

clear(x) ==
    /\ Alive(x)
    /\ Cursors(x, 0, 0)
    /\ out' = <<>>
    /\ UNCHANGED <<store, data, aborted>>

\* The client stores a byte through mutableBytes(), if that is not nullptr.
mutableBytes(x, i, b) ==
    /\ Alive(x)
    /\ \E u \in Unique(x) :
         Installs(x, u.s, IF i \in 1..Len(u.d) THEN [u.d EXCEPT ![i] = b] ELSE u.d)
    /\ out' = <<>>
    /\ UNCHANGED <<reader, writer, aborted>>

Next ==
    \E x \in Buffers :
        \/ \E y \in Buffers : copy(x, y)
        \/ destroy(x)
        \/ \E n \in Size :
             \/ buffer(x, n)
             \/ \E bs \in [1..n -> Byte] : writeBytes(x, bs)
             \/ writeOwnBytes(x, n)
             \/ readBytes(x, n)
             \/ readString(x, n)
             \/ skipBytes(x, n)
        \/ discardReadBytes(x)
        \/ clear(x)
        \/ \E i \in Size \ {0}, b \in Byte : mutableBytes(x, i, b)

Spec == Init /\ [][Next]_vars

-----------------------------------------------------------------------------
(***************************************************************************)
(* Properties                                                               *)
(***************************************************************************)
\* The bytes below the writer cursor.
Log(x) == IF store[x] = None THEN <<>> ELSE SubSeq(Bytes(x), 1, writer[x])

Queue == INSTANCE ByteQueue WITH
    MaxSize <- SizeMax,
    exists  <- {x \in Buffers : store[x] # None},
    log     <- [x \in Buffers |-> Log(x)],
    pos     <- reader

\* Sharing, splitting, growing and compacting storage are invisible: the
\* buffers are independent byte queues (ByteBuffer.cpp:158-265).
RefinesByteQueue == Queue!Spec

\* The cursors stay in order and inside the block, so no copy leaves it and no
\* operation trips its own asserts (ByteBuffer.cpp:142, 154, 249-261).
CursorsInBlock ==
    /\ ~aborted
    /\ \A x \in Buffers : store[x] # None =>
         reader[x] <= writer[x] /\ writer[x] <= Capacity(x)

\* A write appends all the client's bytes or, where reserve refuses, nothing: it
\* never writes a part, and never reports more or fewer bytes than it wrote, also
\* if it has to split the block first (ByteBuffer.cpp:132-144, 188-192).
WritesAllOrNothing ==
    [][\A x \in Buffers : Log(x)' # Log(x) =>
         \A n \in Size : \A bs \in [1..n -> Byte] :
           writeBytes(x, bs) => Log(x)' = Log(x) \o bs]_vars

\* README, "Custom allocators": on exhaustion the buffer "reports a zero-byte
\* write and leaves its storage intact rather than corrupting it".
WriteKeepsContents ==
    [][\A x \in Buffers, n \in Size : \A bs \in [1..n -> Byte] :
         writeBytes(x, bs) =>
           /\ ~aborted'
           /\ \A i \in 1..Len(Log(x)) : Log(x)'[i] = Log(x)[i]]_vars

\* What buffer x appends are the bytes from its reader cursor on.
AppendsOwn(x) ==
    \A i \in 1..(writer'[x] - writer[x]) :
        Log(x)'[writer[x] + i] = Log(x)[reader[x] + i]

\* ByteBuffer.h:118, "The source range may overlap the block": the bytes
\* appended are the bytes of the source.
OverlapIsCopied ==
    [][\A x \in Buffers, n \in Size : writeOwnBytes(x, n) => AppendsOwn(x)]_vars

\* The promise fails only where a block has to grow that the buffer alone
\* refers to.  Bytes that fit, and bytes of a shared block, which is split and
\* stays where it is, are appended as they are, wherever reallocate moves a
\* block and whatever allocation fails (ByteBuffer.cpp:113-144, 188-192).
OverlapFailsOnlyByGrowth ==
    [][\A x \in Buffers, n \in Size :
         writeOwnBytes(x, n) /\ (IsShared(x) \/ Fits(Bytes(x), writer[x] + n))
           => AppendsOwn(x)]_vars
=============================================================================
