----------------------------- MODULE ByteQueue -----------------------------
(***************************************************************************)
(* What a ByteBuffer promises (ByteBuffer.h:137-229): each buffer is a log  *)
(* of bytes with a reading position, and no operation on one buffer can be  *)
(* seen through another, although copies are cheap.  There are no storage   *)
(* blocks, no capacities and no sharing here.                               *)
(***************************************************************************)
EXTENDS Integers, Sequences

CONSTANTS
    Buffers,
    Byte,     \* bytes a client writes
    MaxSize   \* the largest Size

VARIABLES
    exists,   \* buffers that are constructed
    log,      \* the bytes up to the writer cursor
    pos,      \* the reader cursor
    out       \* what the last call read

vars == <<exists, log, pos, out>>

Readable(x) == Len(log[x]) - pos[x]

Init ==
    /\ exists = {}
    /\ log = [x \in Buffers |-> <<>>]
    /\ pos = [x \in Buffers |-> 0]
    /\ out = <<>>

\* The state of one buffer changes; nothing is read.
Becomes(x, l, p) ==
    /\ log' = [log EXCEPT ![x] = l]
    /\ pos' = [pos EXCEPT ![x] = p]
    /\ out' = <<>>

Make(x) ==
    /\ x \notin exists
    /\ exists' = exists \cup {x}
    /\ Becomes(x, <<>>, 0)

\* Copy construction or assignment.
Copy(x, y) ==
    /\ y \in exists
    /\ exists' = exists \cup {x}
    /\ Becomes(x, log[y], pos[y])

Destroy(x) ==
    /\ x \in exists
    /\ exists' = exists \ {x}
    /\ Becomes(x, <<>>, 0)

\* A write appends bytes, or nothing.  A queue does not record what it was asked
\* to write: that a write is all of it or nothing is WritesAllOrNothing.
Write(x) ==
    /\ x \in exists
    /\ \E n \in 0..(MaxSize - Len(log[x])) : \E bs \in [1..n -> Byte] :
         Becomes(x, log[x] \o bs, pos[x])
    /\ UNCHANGED exists

Read(x) ==
    /\ x \in exists
    /\ \E n \in 0..Readable(x) :
         /\ out' = SubSeq(log[x], pos[x] + 1, pos[x] + n)
         /\ pos' = [pos EXCEPT ![x] = @ + n]
    /\ UNCHANGED <<exists, log>>

Skip(x) ==
    /\ x \in exists
    /\ \E n \in 0..Readable(x) : Becomes(x, log[x], pos[x] + n)
    /\ UNCHANGED exists

DiscardRead(x) ==
    /\ x \in exists
    /\ Becomes(x, SubSeq(log[x], pos[x] + 1, Len(log[x])), 0)
    /\ UNCHANGED exists

Clear(x) ==
    /\ x \in exists
    /\ Becomes(x, <<>>, 0)
    /\ UNCHANGED exists

\* A byte is stored through mutableBytes(), below the writer cursor or above.
Poke(x) ==
    /\ x \in exists
    /\ \/ \E k \in 1..Len(log[x]), b \in Byte :
            Becomes(x, [log[x] EXCEPT ![k] = b], pos[x])
       \/ Becomes(x, log[x], pos[x])
    /\ UNCHANGED exists

Next ==
    \E x \in Buffers :
        \/ Make(x) \/ Destroy(x) \/ Write(x) \/ Read(x) \/ Skip(x)
        \/ DiscardRead(x) \/ Clear(x) \/ Poke(x)
        \/ \E y \in Buffers : Copy(x, y)

Spec == Init /\ [][Next]_vars
=============================================================================
