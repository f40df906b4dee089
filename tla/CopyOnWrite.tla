---------------------------- MODULE CopyOnWrite ----------------------------
(***************************************************************************)
(* CopyOnWriteBacked<T> of CopyOnWriteBacked.h: instances share a counted   *)
(* block, unique() splits a shared block before it is mutated.              *)
(*                                                                          *)
(* An instance is used by one thread at a time, its owner, as the header    *)
(* demands; it may be handed to another thread through something that       *)
(* synchronizes.  Threads meet in the blocks.  Each atomic operation on a   *)
(* count is one step, and so is each thing that takes time in between:      *)
(* reading, copying and writing the element, deleting the block.  Pointer   *)
(* assignments in an instance are invisible to other threads and belong to  *)
(* the atomic operation before them.                                        *)
(*                                                                          *)
(* know and pub follow the happens-before order of the C++ memory model for *)
(* accesses to elements.  know[t] holds <<u, b>> when u's last access to    *)
(* b's element happens before what t does next; pub[b] holds the threads    *)
(* whose last access to b's element a thread learns of that acquires b's    *)
(* count.  Only release() has release and acquire order; retain() and the   *)
(* load of unique() are relaxed.  What a release says about other blocks is *)
(* left out, so a thread knows at least what the model lets it know.        *)
(***************************************************************************)
EXTENDS Integers, FiniteSets

CONSTANTS
    Threads,
    Instances,   \* places where a CopyOnWriteBacked can be constructed
    Blocks,      \* addresses of blocks
    Values,      \* what an element can hold
    Null,        \* no block: a moved-from or unconstructed instance
    Nobody,      \* owner of an unconstructed instance, and no instance
    NoValue      \* what is left of a deleted element

ASSUME FiniteAssumption == IsFiniteSet(Threads) /\ IsFiniteSet(Instances)
ASSUME NullAssumption   == Null \notin Blocks /\ Nobody \notin Threads \cup Instances

VARIABLES
    owner,     \* the thread that uses an instance
    block,     \* CopyOnWriteBacked.block
    live,      \* the blocks that are allocated
    count,     \* Block.retainCount
    val,       \* the element of a block
    pc,        \* what a thread is in the middle of
    inst,      \* the instance its operation is about
    held,      \* the block it retains, has made, or is about to delete
    after,     \* where it goes on when a deletion is done
    logical,   \* history: the value an instance stands for
    know, pub  \* history: happens-before

vars == <<owner, block, live, count, val, pc, inst, held, after, logical, know, pub>>
order == <<know, pub>>

Steps == {"idle", "reading", "copying", "splitRelease", "assignRelease",
          "writing", "delete"}

\* A count below 0 is one that has wrapped around: a block was released more
\* often than it was retained (CopyOnWriteBacked.h:67-80).
TypeOK ==
    /\ owner \in [Instances -> Threads \cup {Nobody}]
    /\ block \in [Instances -> Blocks \cup {Null}]
    /\ live \subseteq Blocks
    /\ count \in [Blocks -> Nat]
    /\ val \in [Blocks -> Values \cup {NoValue}]
    /\ pc \in [Threads -> Steps]
    /\ inst \in [Threads -> Instances \cup {Nobody}]
    /\ held \in [Threads -> Blocks \cup {Null}]
    /\ after \in [Threads -> {"idle", "writing"}]
    /\ logical \in [Instances -> Values \cup {NoValue}]
    /\ know \in [Threads -> SUBSET (Threads \X Blocks)]
    /\ pub \in [Blocks -> SUBSET Threads]

Idle(t) == pc[t] = "idle"
Owns(t, i) == owner[i] = t
Usable(t, i) == Owns(t, i) /\ block[i] # Null

\* t touches b's element: nobody else knows of this access yet.
Access(t, b) ==
    /\ know' = [u \in Threads |-> IF u = t THEN know[u] \cup {<<t, b>>}
                                           ELSE know[u] \ {<<t, b>>}]
    /\ pub' = [pub EXCEPT ![b] = @ \ {t}]

\* What is known about a block ends with it.
Forget(b) ==
    /\ know' = [u \in Threads |-> {k \in know[u] : k[2] # b}]
    /\ pub' = [pub EXCEPT ![b] = {}]

\* t goes to step s, about instance i, with block b in hand.
Goto(t, s, i, b, a) ==
    /\ pc' = [pc EXCEPT ![t] = s]
    /\ inst' = [inst EXCEPT ![t] = i]
    /\ held' = [held EXCEPT ![t] = b]
    /\ after' = [after EXCEPT ![t] = a]

Done(t) == Goto(t, "idle", Nobody, Null, "idle")

-----------------------------------------------------------------------------
(***************************************************************************)
(* Faulty variants, each a slip one could make in the header.               *)
(***************************************************************************)
FaultyRetain(b) == count' = count          \* copying does not retain

FaultyRelease(t, b, next, i) ==            \* a second load decides, not fetch_sub
    /\ count' = [count EXCEPT ![b] = @ - 1]
    /\ know' = [know EXCEPT ![t] = @ \cup (pub[b] \X {b})]
    /\ pub' = [pub EXCEPT ![b] = @ \cup {u \in Threads : <<u, b>> \in know[t]}]
    /\ IF count[b] <= 2 THEN Goto(t, "delete", i, b, next)
                        ELSE IF next = "idle" THEN Done(t)
                                              ELSE Goto(t, next, i, Null, "idle")

FaultyReleaseOrder(t, b, next, i) ==       \* memory_order_relaxed on fetch_sub
    /\ count' = [count EXCEPT ![b] = @ - 1]
    /\ UNCHANGED <<know, pub>>
    /\ IF count[b] = 1 THEN Goto(t, "delete", i, b, next)
                       ELSE IF next = "idle" THEN Done(t)
                                             ELSE Goto(t, next, i, Null, "idle")

FaultyIsShared(b) == count[b] > 2          \* off by one in unique()

FaultyMove(i, j) ==                        \* the source keeps its block
    /\ block' = [block EXCEPT ![i] = block[j]]
    /\ UNCHANGED count

-----------------------------------------------------------------------------
Init ==
    /\ owner = [i \in Instances |-> Nobody]
    /\ block = [i \in Instances |-> Null]
    /\ live = {}
    /\ count = [b \in Blocks |-> 0]
    /\ val = [b \in Blocks |-> NoValue]
    /\ pc = [t \in Threads |-> "idle"]
    /\ inst = [t \in Threads |-> Nobody]
    /\ held = [t \in Threads |-> Null]
    /\ after = [t \in Threads |-> "idle"]
    /\ logical = [i \in Instances |-> NoValue]
    /\ know = [t \in Threads |-> {}]
    /\ pub = [b \in Blocks |-> {}]

\* retain(): fetch_add, relaxed: nothing is learned and nothing is published.
Retain(b) == count' = [count EXCEPT ![b] = @ + 1]

\* release(): fetch_sub, acquire and release; whoever saw 1 deletes.  Then the
\* operation on instance i goes on with step next.
Release(t, b, next, i) ==
    /\ count' = [count EXCEPT ![b] = @ - 1]
    /\ know' = [know EXCEPT ![t] = @ \cup (pub[b] \X {b})]
    /\ pub' = [pub EXCEPT ![b] = @ \cup {u \in Threads : <<u, b>> \in know[t]}]
    /\ IF count[b] = 1 THEN Goto(t, "delete", i, b, next)
                       ELSE IF next = "idle" THEN Done(t)
                                             ELSE Goto(t, next, i, Null, "idle")

\* unique(): the relaxed load of retainCount.
IsShared(b) == count[b] > 1

\* The pointer swap of the move operations.
Move(i, j) ==
    /\ block' = [block EXCEPT ![i] = block[j], ![j] = Null]
    /\ UNCHANGED count

-----------------------------------------------------------------------------
(***************************************************************************)
(* Construction, assignment and destruction.                                *)
(***************************************************************************)
CopyOnWriteMake(t, i, b, v) ==
    /\ Idle(t) /\ owner[i] = Nobody /\ b \notin live
    /\ owner' = [owner EXCEPT ![i] = t]
    /\ block' = [block EXCEPT ![i] = b]
    /\ live' = live \cup {b}
    /\ count' = [count EXCEPT ![b] = 1]
    /\ val' = [val EXCEPT ![b] = v]
    /\ logical' = [logical EXCEPT ![i] = v]
    /\ Access(t, b)
    /\ UNCHANGED <<pc, inst, held, after>>

CopyConstruct(t, i, j) ==
    /\ Idle(t) /\ owner[i] = Nobody /\ Usable(t, j)
    /\ owner' = [owner EXCEPT ![i] = t]
    /\ block' = [block EXCEPT ![i] = block[j]]
    /\ logical' = [logical EXCEPT ![i] = logical[j]]
    /\ Retain(block[j])
    /\ UNCHANGED <<live, val, pc, inst, held, after, order>>

MoveConstruct(t, i, j) ==
    /\ Idle(t) /\ owner[i] = Nobody /\ Owns(t, j)
    /\ owner' = [owner EXCEPT ![i] = t]
    /\ Move(i, j)
    /\ logical' = [logical EXCEPT ![i] = logical[j], ![j] = NoValue]
    /\ UNCHANGED <<live, val, pc, inst, held, after, order>>

\* The other block is retained before this one is released.
CopyAssign(t, i, j) ==
    /\ Idle(t) /\ Owns(t, i) /\ Usable(t, j) /\ block[i] # block[j]
    /\ Retain(block[j])
    /\ logical' = [logical EXCEPT ![i] = logical[j]]
    /\ \/ /\ block[i] # Null
          /\ Goto(t, "assignRelease", i, block[j], "idle")
          /\ UNCHANGED block
       \/ /\ block[i] = Null
          /\ block' = [block EXCEPT ![i] = block[j]]
          /\ UNCHANGED <<pc, inst, held, after>>
    /\ UNCHANGED <<owner, live, val, order>>

CopyAssignRelease(t) ==
    /\ pc[t] = "assignRelease"
    /\ block' = [block EXCEPT ![inst[t]] = held[t]]
    /\ Release(t, block[inst[t]], "idle", Nobody)
    /\ UNCHANGED <<owner, live, val, logical>>

MoveAssign(t, i, j) ==
    /\ Idle(t) /\ Owns(t, i) /\ Owns(t, j) /\ i # j
    /\ logical' = [logical EXCEPT ![i] = logical[j], ![j] = NoValue]
    /\ \/ /\ block[i] # Null
          /\ block' = [block EXCEPT ![i] = block[j], ![j] = Null]
          /\ Release(t, block[i], "idle", Nobody)
       \/ /\ block[i] = Null
          /\ Move(i, j)
          /\ UNCHANGED <<pc, inst, held, after, order>>
    /\ UNCHANGED <<owner, live, val>>

Destroy(t, i) ==
    /\ Idle(t) /\ Owns(t, i)
    /\ owner' = [owner EXCEPT ![i] = Nobody]
    /\ block' = [block EXCEPT ![i] = Null]
    /\ logical' = [logical EXCEPT ![i] = NoValue]
    /\ \/ /\ block[i] # Null
          /\ Release(t, block[i], "idle", Nobody)
       \/ /\ block[i] = Null
          /\ UNCHANGED <<count, pc, inst, held, after, order>>
    /\ UNCHANGED <<live, val>>

\* delete this->element; delete this.
Delete(t) ==
    /\ pc[t] = "delete"
    /\ live' = live \ {held[t]}
    /\ val' = [val EXCEPT ![held[t]] = NoValue]
    /\ Forget(held[t])
    /\ IF after[t] = "idle" THEN Done(t) ELSE Goto(t, after[t], inst[t], Null, "idle")
    /\ UNCHANGED <<owner, block, count, logical>>

(***************************************************************************)
(* Access to the element.                                                   *)
(***************************************************************************)
Read(t, i) ==
    /\ Idle(t) /\ Usable(t, i)
    /\ Goto(t, "reading", i, Null, "idle")
    /\ Access(t, block[i])
    /\ UNCHANGED <<owner, block, live, count, val, logical>>

ReadEnd(t) ==
    /\ pc[t] = "reading"
    /\ Done(t)
    /\ UNCHANGED <<owner, block, live, count, val, logical, order>>

\* unique(), called in order to write: the thread goes on to copy a shared
\* element, or straight to its own.
Unique(t, i) ==
    /\ Idle(t) /\ Usable(t, i)
    /\ \/ /\ IsShared(block[i])
          /\ Goto(t, "copying", i, Null, "idle")
          /\ Access(t, block[i])
       \/ /\ ~IsShared(block[i])
          /\ Goto(t, "writing", i, Null, "idle")
          /\ UNCHANGED order
    /\ UNCHANGED <<owner, block, live, count, val, logical>>

\* new Block(new T(element)): the copy is finished.
UniqueCopy(t, b) ==
    /\ pc[t] = "copying" /\ b \notin live
    /\ live' = live \cup {b}
    /\ count' = [count EXCEPT ![b] = 1]
    /\ val' = [val EXCEPT ![b] = val[block[inst[t]]]]
    /\ Goto(t, "splitRelease", inst[t], b, "idle")
    /\ Access(t, b)
    /\ UNCHANGED <<owner, block, logical>>

UniqueRelease(t) ==
    /\ pc[t] = "splitRelease"
    /\ block' = [block EXCEPT ![inst[t]] = held[t]]
    /\ Release(t, block[inst[t]], "writing", inst[t])
    /\ UNCHANGED <<owner, live, val, logical>>

Write(t, v) ==
    /\ pc[t] = "writing"
    /\ val' = [val EXCEPT ![block[inst[t]]] = v]
    /\ logical' = [logical EXCEPT ![inst[t]] = v]
    /\ Access(t, block[inst[t]])
    /\ Done(t)
    /\ UNCHANGED <<owner, block, live, count>>

\* The client passes an instance on through a synchronizing channel (a queue,
\* the start or the join of a thread).
Handoff(t, u, i) ==
    /\ Idle(t) /\ Owns(t, i) /\ t # u
    /\ owner' = [owner EXCEPT ![i] = u]
    /\ know' = [know EXCEPT ![u] = @ \cup know[t]]
    /\ UNCHANGED <<block, live, count, val, pc, inst, held, after, logical, pub>>

Step(t) ==
    \/ \E i \in Instances, b \in Blocks, v \in Values : CopyOnWriteMake(t, i, b, v)
    \/ \E i, j \in Instances :
         \/ CopyConstruct(t, i, j)
         \/ MoveConstruct(t, i, j)
         \/ CopyAssign(t, i, j)
         \/ MoveAssign(t, i, j)
    \/ \E i \in Instances : Destroy(t, i) \/ Read(t, i) \/ Unique(t, i)
    \/ \E b \in Blocks : UniqueCopy(t, b)
    \/ \E v \in Values : Write(t, v)
    \/ CopyAssignRelease(t) \/ UniqueRelease(t) \/ Delete(t) \/ ReadEnd(t)
    \/ \E u \in Threads, i \in Instances : Handoff(t, u, i)

Next == \E t \in Threads : Step(t)

Spec == Init /\ [][Next]_vars

-----------------------------------------------------------------------------
(***************************************************************************)
(* Properties                                                               *)
(***************************************************************************)
\* References that a thread holds in the middle of an operation.
InFlight(b) == {t \in Threads : pc[t] \in {"assignRelease", "splitRelease"} /\ held[t] = b}

References(b) == {i \in Instances : block[i] = b}

\* The count of a live block is the number of references to it, the ones in
\* flight included, and only the last releaser still holds a block whose count
\* is zero (CopyOnWriteBacked.h:67-80).
RefcountExact ==
    \A b \in Blocks :
        b \in live => count[b] = Cardinality(References(b)) + Cardinality(InFlight(b))

\* No instance or operation points to memory that was deleted, and no two
\* threads delete the same block (CopyOnWriteBacked.h:72-80).
NoDangling ==
    /\ \A i \in Instances : block[i] # Null => block[i] \in live
    /\ \A t \in Threads : held[t] # Null => held[t] \in live
    /\ \A t, u \in Threads :
         pc[t] = "delete" /\ pc[u] = "delete" /\ held[t] = held[u] => t = u

Touches(t, b) ==
    /\ pc[t] \in {"reading", "copying", "writing"}
    /\ block[inst[t]] = b

\* While a thread writes an element through unique() no other thread reads,
\* copies, writes or deletes it (CopyOnWriteBacked.h:145-153).
ExclusiveWrite ==
    \A t, u \in Threads :
        t # u /\ pc[t] = "writing" =>
            /\ ~Touches(u, block[inst[t]])
            /\ ~(pc[u] = "delete" /\ held[u] = block[inst[t]])

\* "A mutation is never visible through another reference"
\* (CopyOnWriteBacked.h:42-44): an instance always stands for the value its own
\* operations gave it.
ValueIsolation ==
    \A i \in Instances :
        block[i] # Null /\ (\A t \in Threads : inst[t] = i => pc[t] # "assignRelease")
          => val[block[i]] = logical[i]

KnowsAll(t, b) == \A u \in Threads : <<u, b>> \in know[u] => <<u, b>> \in know[t]

\* Every access to an element happens before its deletion: the acquire and
\* release order of release() is enough (CopyOnWriteBacked.h:76).
DeletionOrdered ==
    \A t \in Threads : pc[t] = "delete" => KnowsAll(t, held[t])

\* unique() "is only safe against concurrent read() on other instances"
\* (CopyOnWriteBacked.h:46-49): every earlier access to an element happens
\* before it is written in place.
MutationOrdered ==
    \A t \in Threads : pc[t] = "writing" => KnowsAll(t, block[inst[t]])
=============================================================================
