------------------------- MODULE CopyOnWriteProofs -------------------------
(***************************************************************************)
(* Memory safety and isolation of CopyOnWriteBacked, for every finite set   *)
(* of threads and instances.                                                *)
(*                                                                          *)
(* Ownership keeps threads out of each other's instances, so a thread in    *)
(* the middle of an operation finds its instance as it left it.  The count  *)
(* is exact because every atomic step moves it together with one reference. *)
(* The rest follows: a count of one means that nobody else has a reference  *)
(* from which to make another.                                              *)
(***************************************************************************)
EXTENDS CopyOnWrite, FiniteSetTheorems, TLAPS

(***************************************************************************)
(* Counting the places of a function that hold a given block.               *)
(***************************************************************************)
One(x, b) == IF x = b THEN 1 ELSE 0
At(f, S, b) == {x \in S : f[x] = b}
Tally(f, S, b) == Cardinality(At(f, S, b))

\* Tallies over finite sets are numbers.
LEMMA TallyIsNat ==
  ASSUME NEW f, NEW S, IsFiniteSet(S), NEW b
  PROVE  IsFiniteSet(At(f, S, b)) /\ Tally(f, S, b) \in Nat
  <1>1. At(f, S, b) \subseteq S
    BY DEF At
  <1>2. IsFiniteSet(At(f, S, b))
    BY <1>1, FS_Subset
  <1> QED  BY <1>2, FS_CardinalityType DEF Tally

\* When the function changes in one place, so does the tally.
LEMMA TallyStep ==
  ASSUME NEW f, NEW g, NEW S, IsFiniteSet(S), NEW s \in S, NEW b,
         \A x \in S \ {s} : g[x] = f[x]
  PROVE  Tally(g, S, b) = Tally(f, S, b) + One(g[s], b) - One(f[s], b)
  <1> DEFINE A == At(f, S, b)
             B == At(g, S, b)
  <1>1. /\ IsFiniteSet(A)
        /\ Tally(f, S, b) = Cardinality(A) /\ Tally(g, S, b) = Cardinality(B)
        /\ Cardinality(A) \in Nat
    BY TallyIsNat DEF Tally
  <1>2. /\ \A x \in S : x \in A <=> f[x] = b
        /\ \A x \in S : x \in B <=> g[x] = b
        /\ A \subseteq S /\ B \subseteq S
    BY DEF At
  <1> HIDE DEF A, B
  <1>3. CASE (g[s] = b) <=> (f[s] = b)
    <2>1. B = A  BY <1>2, <1>3
    <2> QED  BY <1>1, <1>3, <2>1 DEF One
  <1>4. CASE g[s] = b /\ f[s] # b
    <2>1. B = A \cup {s} /\ s \notin A  BY <1>2, <1>4
    <2>2. Cardinality(B) = Cardinality(A) + 1  BY <1>1, <2>1, FS_AddElement
    <2> QED  BY <1>1, <1>4, <2>2 DEF One
  <1>5. CASE g[s] # b /\ f[s] = b
    <2>1. B = A \ {s} /\ s \in A  BY <1>2, <1>5
    <2>2. Cardinality(B) = Cardinality(A) - 1  BY <1>1, <2>1, FS_RemoveElement
    <2> QED  BY <1>1, <1>5, <2>2 DEF One
  <1> QED  BY <1>3, <1>4, <1>5

\* When what s holds goes to r, only what r held is lost.
LEMMA TallyMove ==
  ASSUME NEW f, NEW g, NEW S, IsFiniteSet(S), NEW r \in S, NEW s \in S, r # s, NEW b,
         g[r] = f[s], g[s] # b, \A x \in S \ {r, s} : g[x] = f[x]
  PROVE  Tally(g, S, b) = Tally(f, S, b) - One(f[r], b)
  <1>1. PICK h : h = [x \in S |-> IF x = r THEN f[s] ELSE f[x]]
    OBVIOUS
  <1>2. /\ \A x \in S \ {r} : h[x] = f[x]
        /\ \A x \in S \ {s} : g[x] = h[x]
        /\ h[r] = f[s] /\ h[s] = f[s]
    BY <1>1
  <1>3. Tally(h, S, b) = Tally(f, S, b) + One(h[r], b) - One(f[r], b)
    BY <1>2, TallyStep
  <1>4. Tally(g, S, b) = Tally(h, S, b) + One(g[s], b) - One(h[s], b)
    BY <1>2, TallyStep
  <1>5. Tally(f, S, b) \in Nat
    BY TallyIsNat
  <1> QED  BY <1>2, <1>3, <1>4, <1>5 DEF One

\* A place that holds b makes the tally positive, two make it at least two.
LEMMA TallyBounds ==
  ASSUME NEW f, NEW S, IsFiniteSet(S), NEW b, NEW s \in S, f[s] = b
  PROVE  /\ Tally(f, S, b) >= 1
         /\ \A r \in S : f[r] = b /\ r # s => Tally(f, S, b) >= 2
  <1> DEFINE A == At(f, S, b)
  <1>1. IsFiniteSet(A) /\ Tally(f, S, b) = Cardinality(A) /\ Cardinality(A) \in Nat
    BY TallyIsNat DEF Tally
  <1>2. s \in A /\ \A r \in S : f[r] = b => r \in A
    BY DEF At
  <1> HIDE DEF A
  <1>3. /\ IsFiniteSet(A \ {s}) /\ Cardinality(A \ {s}) = Cardinality(A) - 1
        /\ Cardinality(A \ {s}) \in Nat
    BY <1>1, <1>2, FS_RemoveElement, FS_CardinalityType
  <1>4. ASSUME NEW r \in S, f[r] = b, r # s PROVE Cardinality(A) >= 2
    <2>1. r \in A \ {s}
      BY <1>2, <1>4
    <2>2. Cardinality(A \ {s}) # 0
      BY <1>3, <2>1, FS_EmptySet
    <2> QED  BY <1>1, <1>3, <2>2
  <1> QED  BY <1>1, <1>3, <1>4

-----------------------------------------------------------------------------
(***************************************************************************)
(* The inductive invariant.                                                 *)
(***************************************************************************)
\* The reference a thread holds in the middle of an operation.
Flight == [t \in Threads |->
             IF pc[t] \in {"assignRelease", "splitRelease"} THEN held[t] ELSE Null]

\* t has still something to do with inst[t].
Engaged(t) ==
    \/ pc[t] \in {"reading", "copying", "splitRelease", "assignRelease", "writing"}
    \/ after[t] = "writing"

\* The instance of an operation in progress belongs to its thread and has a
\* block; the block in hand is there exactly in the steps that use it.
Control ==
    /\ \A t \in Threads : Engaged(t) =>
         inst[t] \in Instances /\ owner[inst[t]] = t /\ block[inst[t]] # Null
    /\ \A t \in Threads :
         held[t] # Null <=> pc[t] \in {"assignRelease", "splitRelease", "delete"}
    /\ \A t \in Threads : after[t] = "writing" => pc[t] = "delete"
    /\ \A i \in Instances : owner[i] = Nobody => block[i] = Null

Exact ==
    \A b \in live : count[b] = Tally(block, Instances, b) + Tally(Flight, Threads, b)

\* A block about to be deleted has no reference left; the block a thread writes,
\* or has just made, has only the thread's own.
Solo ==
    \A t \in Threads :
        /\ pc[t] = "delete" => count[held[t]] = 0
        /\ pc[t] = "splitRelease" => count[held[t]] = 1
        /\ pc[t] = "writing" \/ after[t] = "writing" => count[block[inst[t]]] = 1

MemoryInv == TypeOK /\ Control /\ Exact /\ NoDangling /\ Solo

\* A reference in flight stands for the value its instance is about to have.
ValueInv ==
    /\ ValueIsolation
    /\ \A t \in Threads :
         pc[t] \in {"assignRelease", "splitRelease"} => val[held[t]] = logical[inst[t]]

\* t has a reference to b, or b in hand.
Carries(t, b) ==
    \/ held[t] = b
    \/ \E i \in Instances : block[i] = b /\ owner[i] = t

\* Nobody knows of an access that its own thread does not know of.
Attributed ==
    /\ \A t, u \in Threads, b \in Blocks : <<u, b>> \in know[t] => <<u, b>> \in know[u]
    /\ \A u \in Threads, b \in Blocks : u \in pub[b] => <<u, b>> \in know[u]

\* Accesses to a block are forgotten with it.
Forgotten == \A u \in Threads, b \in Blocks : <<u, b>> \in know[u] => b \in live

\* Each access to a block is published, or known to a thread that carries it.
Carried ==
    \A u \in Threads, b \in Blocks : <<u, b>> \in know[u] =>
        \/ u \in pub[b]
        \/ \E t \in Threads : Carries(t, b) /\ <<u, b>> \in know[t]

OrderInv == Attributed /\ Forgotten /\ Carried /\ DeletionOrdered

-----------------------------------------------------------------------------
\* What an exact count says about who else has a reference to a block.
LEMMA CountFacts ==
  ASSUME MemoryInv
  PROVE  /\ \A i \in Instances : block[i] # Null =>
              block[i] \in live /\ count[block[i]] >= 1
         /\ \A i, j \in Instances :
              block[i] # Null /\ block[j] = block[i] /\ i # j => count[block[i]] >= 2
         /\ \A t \in Threads : Flight[t] # Null =>
              Flight[t] \in live /\ count[Flight[t]] >= 1
         /\ \A t \in Threads, i \in Instances :
              Flight[t] # Null /\ block[i] = Flight[t] => count[block[i]] >= 2
         /\ \A t, u \in Threads :
              Flight[t] # Null /\ Flight[u] = Flight[t] /\ t # u => count[Flight[t]] >= 2
  <1> USE FiniteAssumption
  <1>1. \A b : Tally(block, Instances, b) \in Nat /\ Tally(Flight, Threads, b) \in Nat
    BY TallyIsNat
  <1>2. /\ \A b \in live : count[b] = Tally(block, Instances, b) + Tally(Flight, Threads, b)
        /\ \A i \in Instances : block[i] # Null => block[i] \in live
        /\ \A t \in Threads : Flight[t] # Null => Flight[t] \in live
    BY DEF MemoryInv, Exact, NoDangling, Flight
  <1>3. \A i \in Instances : Tally(block, Instances, block[i]) >= 1
    BY TallyBounds
  <1>4. \A i, j \in Instances :
          block[j] = block[i] /\ i # j => Tally(block, Instances, block[i]) >= 2
    BY TallyBounds
  <1>5. \A t \in Threads : Tally(Flight, Threads, Flight[t]) >= 1
    BY TallyBounds
  <1>6. \A t, u \in Threads :
          Flight[u] = Flight[t] /\ t # u => Tally(Flight, Threads, Flight[t]) >= 2
    BY TallyBounds
  <1> HIDE DEF Flight
  <1> QED  BY <1>1, <1>2, <1>3, <1>4, <1>5, <1>6

\* Every step keeps the types; a count never falls below zero.
LEMMA TypeStep ==
  ASSUME MemoryInv, NEW t \in Threads, Step(t)
  PROVE  TypeOK'
  <1> USE NullAssumption DEF MemoryInv, TypeOK, Steps, Goto, Done
  <1>0. ASSUME NEW i \in Instances, NEW next \in {"idle", "writing"},
               NEW k \in Instances \cup {Nobody},
               block[i] # Null, Release(t, block[i], next, k)
        PROVE  /\ count' \in [Blocks -> Nat]
               /\ know' \in [Threads -> SUBSET (Threads \X Blocks)]
               /\ pub' \in [Blocks -> SUBSET Threads]
               /\ pc' \in [Threads -> Steps]
               /\ inst' \in [Threads -> Instances \cup {Nobody}]
               /\ held' \in [Threads -> Blocks \cup {Null}]
               /\ after' \in [Threads -> {"idle", "writing"}]
    <2>1. block[i] \in Blocks /\ count[block[i]] \in Nat /\ count[block[i]] >= 1
      BY <1>0, CountFacts
    <2> QED  BY <1>0, <2>1, SMTT(60) DEF Release
  <1>1. ASSUME NEW i \in Instances, NEW b \in Blocks, NEW v \in Values,
               CopyOnWriteMake(t, i, b, v)
        PROVE  TypeOK'
    BY <1>1 DEF CopyOnWriteMake, Access
  <1>2. ASSUME NEW i \in Instances, NEW j \in Instances, CopyConstruct(t, i, j)
        PROVE  TypeOK'
    BY <1>2 DEF CopyConstruct, Retain, Usable, Owns, order
  <1>3. ASSUME NEW i \in Instances, NEW j \in Instances, MoveConstruct(t, i, j)
        PROVE  TypeOK'
    BY <1>3 DEF MoveConstruct, Move, order
  <1>4. ASSUME NEW i \in Instances, NEW j \in Instances, CopyAssign(t, i, j)
        PROVE  TypeOK'
    BY <1>4, SMTT(60) DEF CopyAssign, Retain, Usable, Owns, order
  <1>5. ASSUME NEW i \in Instances, NEW j \in Instances, MoveAssign(t, i, j)
        PROVE  TypeOK'
    BY <1>0, <1>5, SMTT(60) DEF MoveAssign, Move, order
  <1>6. ASSUME NEW i \in Instances, Destroy(t, i)
        PROVE  TypeOK'
    BY <1>0, <1>6 DEF Destroy, order
  <1>7. ASSUME NEW i \in Instances, Read(t, i) \/ Unique(t, i)
        PROVE  TypeOK'
    BY <1>7, SMTT(60) DEF Read, Unique, Access, Usable, order
  <1>8. ASSUME NEW b \in Blocks, UniqueCopy(t, b)
        PROVE  TypeOK'
    <2>1. inst[t] \in Instances /\ block[inst[t]] \in Blocks
      BY <1>8 DEF UniqueCopy, Control, Engaged
    <2> QED  BY <1>8, <2>1 DEF UniqueCopy, Access
  <1>9. ASSUME NEW v \in Values, Write(t, v)
        PROVE  TypeOK'
    <2>1. inst[t] \in Instances /\ block[inst[t]] \in Blocks
      BY <1>9 DEF Write, Control, Engaged
    <2> QED  BY <1>9, <2>1 DEF Write, Access
  <1>10. CASE CopyAssignRelease(t)
    <2>1. inst[t] \in Instances /\ block[inst[t]] # Null
      BY <1>10 DEF CopyAssignRelease, Control, Engaged
    <2> QED  BY <1>0, <1>10, <2>1 DEF CopyAssignRelease
  <1>11. CASE UniqueRelease(t)
    <2>1. inst[t] \in Instances /\ block[inst[t]] # Null
      BY <1>11 DEF UniqueRelease, Control, Engaged
    <2> QED  BY <1>0, <1>11, <2>1 DEF UniqueRelease
  <1>12. CASE Delete(t) \/ ReadEnd(t)
    BY <1>12, SMTT(60) DEF Delete, ReadEnd, Forget, order
  <1>13. ASSUME NEW u \in Threads, NEW i \in Instances, Handoff(t, u, i)
         PROVE  TypeOK'
    BY <1>13 DEF Handoff
  <1> QED  BY <1>1, <1>2, <1>3, <1>4, <1>5, <1>6, <1>7, <1>8, <1>9, <1>10, <1>11,
              <1>12, <1>13 DEF Step

\* Where a release leaves its thread: about to delete what it released last, or
\* at the next step of its operation.  Other threads stay where they are.
Lands(t, b, next, k) ==
    /\ \A u \in Threads \ {t} : /\ pc'[u] = pc[u] /\ inst'[u] = inst[u]
                                /\ held'[u] = held[u] /\ after'[u] = after[u]
    /\ \/ /\ count[b] = 1
          /\ pc'[t] = "delete" /\ held'[t] = b /\ after'[t] = next /\ inst'[t] = k
       \/ /\ count[b] # 1
          /\ pc'[t] = next /\ held'[t] = Null /\ after'[t] = "idle"
          /\ inst'[t] = IF next = "idle" THEN Nobody ELSE k
    /\ \A c \in Blocks : count'[c] = count[c] - One(b, c)

\* A release of a reference leaves its thread there.
LEMMA ReleaseLands ==
  ASSUME TypeOK, NEW t \in Threads, NEW i \in Instances, block[i] # Null,
         NEW next \in {"idle", "writing"},
         NEW k \in Instances \cup {Nobody}, Release(t, block[i], next, k)
  PROVE  Lands(t, block[i], next, k)
  BY DEF TypeOK, Release, Goto, Done, One, Lands

\* A thread's instance and the block in its hand stay as its step needs them.
LEMMA ControlStep ==
  ASSUME MemoryInv, NEW t \in Threads, Step(t)
  PROVE  Control'
  <1> USE NullAssumption DEF MemoryInv, TypeOK, Control, Engaged, Goto, Done
  <1>0. TypeOK'
    BY TypeStep
  <1>1. ASSUME NEW i \in Instances, NEW b \in Blocks, NEW v \in Values,
               CopyOnWriteMake(t, i, b, v)
        PROVE  Control'
    BY <1>0, <1>1 DEF CopyOnWriteMake, Idle
  <1>2. ASSUME NEW i \in Instances, NEW j \in Instances, CopyConstruct(t, i, j)
        PROVE  Control'
    BY <1>0, <1>2 DEF CopyConstruct, Retain, Idle, Usable, Owns
  <1>3. ASSUME NEW i \in Instances, NEW j \in Instances, MoveConstruct(t, i, j)
        PROVE  Control'
    BY <1>0, <1>3 DEF MoveConstruct, Move, Idle, Owns
  <1>4. ASSUME NEW i \in Instances, NEW j \in Instances, CopyAssign(t, i, j)
        PROVE  Control'
    BY <1>0, <1>4, SMTT(30) DEF CopyAssign, Retain, Idle, Usable, Owns
  <1>5. ASSUME NEW i \in Instances, NEW j \in Instances, MoveAssign(t, i, j)
        PROVE  Control'
    <2>1. /\ block' = [block EXCEPT ![i] = block[j], ![j] = Null]
          /\ UNCHANGED owner /\ owner[i] = t /\ owner[j] = t /\ pc[t] = "idle"
      BY <1>5 DEF MoveAssign, Move, Idle, Owns
    <2>2. ASSUME block[i] # Null, Release(t, block[i], "idle", Nobody) PROVE Control'
      <3>1. Lands(t, block[i], "idle", Nobody)
        BY <2>2, ReleaseLands
      <3> QED  BY <1>0, <2>1, <2>2, <3>1, SMTT(60) DEF Lands
    <2>3. CASE UNCHANGED <<pc, inst, held, after>>
      BY <1>0, <2>1, <2>3
    <2> QED  BY <1>5, <2>2, <2>3 DEF MoveAssign
  <1>6. ASSUME NEW i \in Instances, Destroy(t, i)
        PROVE  Control'
    BY <1>0, <1>6 DEF Destroy, Release, Idle, Owns
  <1>7. ASSUME NEW i \in Instances, Read(t, i)
        PROVE  Control'
    BY <1>0, <1>7 DEF Read, Idle, Usable, Owns
  <1>8. ASSUME NEW i \in Instances, Unique(t, i)
        PROVE  Control'
    BY <1>0, <1>8, SMTT(60) DEF Unique, IsShared, Idle, Usable, Owns
  <1>9. ASSUME NEW b \in Blocks, UniqueCopy(t, b)
        PROVE  Control'
    BY <1>0, <1>9 DEF UniqueCopy
  <1>10. ASSUME NEW v \in Values, Write(t, v)
        PROVE  Control'
    BY <1>0, <1>10 DEF Write
  <1>11. CASE CopyAssignRelease(t)
    BY <1>0, <1>11 DEF CopyAssignRelease, Release
  <1>12. CASE UniqueRelease(t)
    BY <1>0, <1>12 DEF UniqueRelease, Release
  <1>13. CASE Delete(t)
    BY <1>0, <1>13, SMTT(60) DEF Delete
  <1>14. CASE ReadEnd(t)
    BY <1>0, <1>14 DEF ReadEnd
  <1>15. ASSUME NEW u \in Threads, NEW i \in Instances, Handoff(t, u, i)
        PROVE  Control'
    BY <1>0, <1>15 DEF Handoff, Idle, Owns
  <1> QED  BY <1>1, <1>2, <1>3, <1>4, <1>5, <1>6, <1>7, <1>8,
              <1>9, <1>10, <1>11, <1>12, <1>13, <1>14, <1>15 DEF Step

\* A release leaves only live blocks behind, and its thread is the only one to
\* delete the block it was the last to release.
LEMMA ReleaseNoDangling ==
  ASSUME MemoryInv, NEW t \in Threads, NEW i \in Instances, block[i] # Null,
         NEW next \in {"idle", "writing"}, NEW k, Lands(t, block[i], next, k),
         live' = live, \A x \in Instances : block'[x] # Null => block'[x] \in live
  PROVE  NoDangling'
  <1>1. \A x \in Instances : block[x] # Null => block[x] \in live
    BY DEF MemoryInv, NoDangling
  <1>2. \A u \in Threads : held[u] # Null => held[u] \in live
    BY DEF MemoryInv, NoDangling
  <1>3. ASSUME NEW u \in Threads, held'[u] # Null PROVE held'[u] \in live
    <2>1. CASE u = t
      BY <1>1, <1>3, <2>1 DEF Lands
    <2>2. CASE u # t
      BY <1>2, <1>3, <2>2 DEF Lands
    <2> QED  BY <2>1, <2>2
  <1>4. ASSUME NEW u \in Threads \ {t}, pc[u] = "delete" PROVE held[u] # block[i]
    <2>1. count[held[u]] = 0
      BY <1>4 DEF MemoryInv, Solo
    <2>2. count[block[i]] >= 1
      BY CountFacts
    <2> QED  BY <2>1, <2>2
  <1>5. pc'[t] = "delete" => held'[t] = block[i]
    BY DEF Lands
  <1>6. \A u \in Threads \ {t} : pc'[u] = pc[u] /\ held'[u] = held[u]
    BY DEF Lands
  <1>7. ASSUME NEW u \in Threads, NEW w \in Threads,
               pc'[u] = "delete", pc'[w] = "delete", held'[u] = held'[w], u # w
        PROVE  FALSE
    <2>1. CASE u # t /\ w # t
      BY <1>6, <1>7, <2>1 DEF MemoryInv, NoDangling
    <2>2. CASE u = t \/ w = t
      BY <1>4, <1>5, <1>6, <1>7, <2>2
    <2> QED  BY <2>1, <2>2
  <1> QED  BY <1>3, <1>7 DEF NoDangling

\* No step frees a block that is still referred to, or lets two threads free it.
LEMMA DanglingStep ==
  ASSUME MemoryInv, NEW t \in Threads, Step(t)
  PROVE  NoDangling'
  <1> USE NullAssumption, CountFacts DEF MemoryInv, TypeOK, Control, Engaged, NoDangling, Solo, Flight, Goto, Done
  <1>0. TypeOK'
    BY TypeStep
  <1>1. ASSUME NEW i \in Instances, NEW b \in Blocks, NEW v \in Values,
               CopyOnWriteMake(t, i, b, v)
        PROVE  NoDangling'
    BY <1>0, <1>1 DEF CopyOnWriteMake, Idle
  <1>2. ASSUME NEW i \in Instances, NEW j \in Instances, CopyConstruct(t, i, j)
        PROVE  NoDangling'
    BY <1>0, <1>2 DEF CopyConstruct, Retain, Idle, Usable, Owns
  <1>3. ASSUME NEW i \in Instances, NEW j \in Instances, MoveConstruct(t, i, j)
        PROVE  NoDangling'
    BY <1>0, <1>3 DEF MoveConstruct, Move, Idle, Owns
  <1>4. ASSUME NEW i \in Instances, NEW j \in Instances, CopyAssign(t, i, j)
        PROVE  NoDangling'
    <2>1. block[j] # Null /\ pc[t] = "idle" /\ UNCHANGED live
      BY <1>4 DEF CopyAssign, Idle, Usable
    <2>2. CASE UNCHANGED block /\ Goto(t, "assignRelease", i, block[j], "idle")
      BY <1>0, <2>1, <2>2
    <2>3. CASE block' = [block EXCEPT ![i] = block[j]] /\ UNCHANGED <<pc, inst, held, after>>
      BY <1>0, <2>1, <2>3
    <2> QED  BY <1>4, <2>2, <2>3 DEF CopyAssign
  <1>5. ASSUME NEW i \in Instances, NEW j \in Instances, MoveAssign(t, i, j)
        PROVE  NoDangling'
    <2>1. /\ block' = [block EXCEPT ![i] = block[j], ![j] = Null]
          /\ UNCHANGED live /\ pc[t] = "idle"
      BY <1>5 DEF MoveAssign, Move, Idle
    <2>2. ASSUME block[i] # Null, Release(t, block[i], "idle", Nobody) PROVE NoDangling'
      <3>1. Lands(t, block[i], "idle", Nobody)
        BY <2>2, ReleaseLands
      <3>2. \A x \in Instances : block'[x] # Null => block'[x] \in live
        BY <2>1
      <3> QED  BY <2>1, <2>2, <3>1, <3>2, ReleaseNoDangling
    <2>3. CASE UNCHANGED <<pc, inst, held, after>>
      BY <1>0, <2>1, <2>3
    <2> QED  BY <1>5, <2>2, <2>3 DEF MoveAssign
  <1>6. ASSUME NEW i \in Instances, Destroy(t, i)
        PROVE  NoDangling'
    <2>1. block' = [block EXCEPT ![i] = Null] /\ UNCHANGED live /\ pc[t] = "idle"
      BY <1>6 DEF Destroy, Idle
    <2>2. ASSUME block[i] # Null, Release(t, block[i], "idle", Nobody) PROVE NoDangling'
      <3>1. Lands(t, block[i], "idle", Nobody)
        BY <2>2, ReleaseLands
      <3>2. \A x \in Instances : block'[x] # Null => block'[x] \in live
        BY <2>1
      <3> QED  BY <2>1, <2>2, <3>1, <3>2, ReleaseNoDangling
    <2>3. CASE UNCHANGED <<pc, inst, held, after>>
      BY <1>0, <2>1, <2>3
    <2> QED  BY <1>6, <2>2, <2>3 DEF Destroy
  <1>7. ASSUME NEW i \in Instances, Read(t, i)
        PROVE  NoDangling'
    BY <1>0, <1>7 DEF Read, Idle, Usable, Owns
  <1>8. ASSUME NEW i \in Instances, Unique(t, i)
        PROVE  NoDangling'
    BY <1>0, <1>8, SMTT(30) DEF Unique, IsShared, Idle, Usable, Owns
  <1>9. ASSUME NEW b \in Blocks, UniqueCopy(t, b)
        PROVE  NoDangling'
    BY <1>0, <1>9 DEF UniqueCopy
  <1>10. ASSUME NEW v \in Values, Write(t, v)
        PROVE  NoDangling'
    BY <1>0, <1>10 DEF Write
  <1>11. CASE CopyAssignRelease(t)
    <2>1. /\ inst[t] \in Instances /\ block[inst[t]] # Null /\ held[t] # Null
          /\ block' = [block EXCEPT ![inst[t]] = held[t]] /\ UNCHANGED live
          /\ Release(t, block[inst[t]], "idle", Nobody)
      BY <1>11 DEF CopyAssignRelease
    <2>2. Lands(t, block[inst[t]], "idle", Nobody)
      BY <2>1, ReleaseLands
    <2>3. \A x \in Instances : block'[x] # Null => block'[x] \in live
      BY <2>1
    <2> QED  BY <2>1, <2>2, <2>3, ReleaseNoDangling
  <1>12. CASE UniqueRelease(t)
    <2>1. /\ inst[t] \in Instances /\ block[inst[t]] # Null /\ held[t] # Null
          /\ block' = [block EXCEPT ![inst[t]] = held[t]] /\ UNCHANGED live
          /\ Release(t, block[inst[t]], "writing", inst[t])
      BY <1>12 DEF UniqueRelease
    <2>2. Lands(t, block[inst[t]], "writing", inst[t])
      BY <2>1, ReleaseLands
    <2>3. \A x \in Instances : block'[x] # Null => block'[x] \in live
      BY <2>1
    <2> QED  BY <2>1, <2>2, <2>3, ReleaseNoDangling
  <1>13. CASE Delete(t)
    <2>1. /\ held[t] \in Blocks /\ held[t] \in live /\ count[held[t]] = 0
          /\ live' = live \ {held[t]} /\ UNCHANGED block
          /\ held'[t] = Null /\ pc'[t] # "delete"
          /\ \A u \in Threads \ {t} : held'[u] = held[u] /\ pc'[u] = pc[u]
      BY <1>13 DEF Delete
    <2>2. \A i \in Instances : block[i] # Null => block[i] # held[t]
      BY <2>1
    <2>3. \A u \in Threads \ {t} : held[u] # held[t]
      BY <1>13, <2>1 DEF Delete
    <2>4. \A u \in Threads : held'[u] # Null => held'[u] \in live'
      <3> SUFFICES ASSUME NEW u \in Threads, u # t PROVE held'[u] # Null => held'[u] \in live'
        BY <2>1
      <3> QED  BY <2>1, <2>3
    <2>5. \A i \in Instances : block'[i] # Null => block'[i] \in live'
      BY <2>1, <2>2
    <2>6. \A u, w \in Threads :
            pc'[u] = "delete" /\ pc'[w] = "delete" /\ held'[u] = held'[w] => u = w
      BY <2>1
    <2> QED  BY <2>4, <2>5, <2>6
  <1>14. CASE ReadEnd(t)
    BY <1>0, <1>14 DEF ReadEnd
  <1>15. ASSUME NEW u \in Threads, NEW i \in Instances, Handoff(t, u, i)
        PROVE  NoDangling'
    BY <1>0, <1>15 DEF Handoff, Idle, Owns
  <1> QED  BY <1>1, <1>2, <1>3, <1>4, <1>5, <1>6, <1>7, <1>8,
              <1>9, <1>10, <1>11, <1>12, <1>13, <1>14, <1>15 DEF Step

\* Nobody can share a block of which another thread holds the only reference.
LEMMA SoloStep ==
  ASSUME MemoryInv, NEW t \in Threads, Step(t)
  PROVE  Solo'
  <1> USE NullAssumption, CountFacts DEF MemoryInv, TypeOK, Control, Engaged, NoDangling, Solo, Flight, Goto, Done
  <1>0. TypeOK'
    BY TypeStep
  <1>1. ASSUME NEW i \in Instances, NEW b \in Blocks, NEW v \in Values,
               CopyOnWriteMake(t, i, b, v)
        PROVE  Solo'
    BY <1>0, <1>1 DEF CopyOnWriteMake, Idle
  <1>2. ASSUME NEW i \in Instances, NEW j \in Instances, CopyConstruct(t, i, j)
        PROVE  Solo'
    <2>1. /\ owner[i] = Nobody /\ owner[j] = t /\ block[j] # Null /\ pc[t] = "idle"
          /\ block' = [block EXCEPT ![i] = block[j]]
          /\ count' = [count EXCEPT ![block[j]] = @ + 1]
          /\ UNCHANGED <<pc, inst, held, after>>
      BY <1>2 DEF CopyConstruct, Retain, Idle, Usable, Owns
    <2> SUFFICES ASSUME NEW u \in Threads
                 PROVE  /\ pc[u] = "delete" => count'[held[u]] = 0
                        /\ pc[u] = "splitRelease" => count'[held[u]] = 1
                        /\ pc[u] = "writing" \/ after[u] = "writing" =>
                             count'[block'[inst[u]]] = 1
      BY <2>1
    <2>2. pc[u] \in {"delete", "splitRelease"} => held[u] # block[j]
      BY <2>1
    <2>3. pc[u] = "writing" \/ after[u] = "writing" =>
            block[inst[u]] # block[j] /\ inst[u] # i
      BY <2>1
    <2> QED  BY <2>1, <2>2, <2>3
  <1>3. ASSUME NEW i \in Instances, NEW j \in Instances, MoveConstruct(t, i, j)
        PROVE  Solo'
    BY <1>0, <1>3 DEF MoveConstruct, Move, Idle, Owns
  <1>4. ASSUME NEW i \in Instances, NEW j \in Instances, CopyAssign(t, i, j)
        PROVE  Solo'
    <2>1. /\ owner[i] = t /\ owner[j] = t /\ block[j] # Null /\ pc[t] = "idle"
          /\ \A x \in Instances \ {i} : block'[x] = block[x]
          /\ count' = [count EXCEPT ![block[j]] = @ + 1]
          /\ pc'[t] \in {"idle", "assignRelease"} /\ after'[t] = "idle"
          /\ \A u \in Threads \ {t} : /\ pc'[u] = pc[u] /\ inst'[u] = inst[u]
                                      /\ held'[u] = held[u] /\ after'[u] = after[u]
      BY <1>4 DEF CopyAssign, Retain, Idle, Usable, Owns
    <2> SUFFICES ASSUME NEW u \in Threads \ {t}
                 PROVE  /\ pc[u] = "delete" => count'[held[u]] = 0
                        /\ pc[u] = "splitRelease" => count'[held[u]] = 1
                        /\ pc[u] = "writing" \/ after[u] = "writing" =>
                             count'[block'[inst[u]]] = 1
      BY <2>1
    <2>2. pc[u] \in {"delete", "splitRelease"} => held[u] # block[j]
      BY <2>1
    <2>3. pc[u] = "writing" \/ after[u] = "writing" =>
            block[inst[u]] # block[j] /\ inst[u] # i
      BY <2>1, SMTT(60)
    <2> QED  BY <2>1, <2>2, <2>3
  <1>5. ASSUME NEW i \in Instances, NEW j \in Instances, MoveAssign(t, i, j)
        PROVE  Solo'
    <2>1. /\ owner[i] = t /\ owner[j] = t /\ pc[t] = "idle" /\ after[t] = "idle"
          /\ \A x \in Instances \ {i, j} : block'[x] = block[x]
      BY <1>5 DEF MoveAssign, Move, Idle, Owns
    <2>2. \A u \in Threads : pc[u] = "writing" \/ after[u] = "writing" =>
            inst[u] \in Instances /\ inst[u] \notin {i, j}
      BY <2>1
    <2>3. ASSUME block[i] # Null, Release(t, block[i], "idle", Nobody) PROVE Solo'
      <3>1. \A u \in Threads \ {t} :
              /\ pc[u] \in {"delete", "splitRelease"} => held[u] # block[i]
              /\ pc[u] = "writing" \/ after[u] = "writing" => block[inst[u]] # block[i]
        BY <2>2, <2>3
      <3>2. Lands(t, block[i], "idle", Nobody)
        BY <2>3, ReleaseLands
      <3> QED  BY <1>0, <2>1, <2>2, <2>3, <3>1, <3>2 DEF Lands, One
    <2>4. CASE UNCHANGED <<pc, inst, held, after, count>>
      BY <2>1, <2>2, <2>4
    <2> QED  BY <1>5, <2>3, <2>4 DEF MoveAssign, Move
  <1>6. ASSUME NEW i \in Instances, Destroy(t, i)
        PROVE  Solo'
    BY <1>0, <1>6 DEF Destroy, Release, Idle, Owns
  <1>7. ASSUME NEW i \in Instances, Read(t, i)
        PROVE  Solo'
    BY <1>0, <1>7 DEF Read, Idle, Usable, Owns
  <1>8. ASSUME NEW i \in Instances, Unique(t, i)
        PROVE  Solo'
    BY <1>0, <1>8 DEF Unique, IsShared, Idle, Usable, Owns
  <1>9. ASSUME NEW b \in Blocks, UniqueCopy(t, b)
        PROVE  Solo'
    BY <1>0, <1>9 DEF UniqueCopy
  <1>10. ASSUME NEW v \in Values, Write(t, v)
        PROVE  Solo'
    BY <1>0, <1>10 DEF Write
  <1>11. CASE CopyAssignRelease(t)
    BY <1>0, <1>11 DEF CopyAssignRelease, Release
  <1>12. CASE UniqueRelease(t)
    BY <1>0, <1>12 DEF UniqueRelease, Release
  <1>13. CASE Delete(t)
    BY <1>0, <1>13 DEF Delete
  <1>14. CASE ReadEnd(t)
    BY <1>0, <1>14 DEF ReadEnd
  <1>15. ASSUME NEW u \in Threads, NEW i \in Instances, Handoff(t, u, i)
        PROVE  Solo'
    BY <1>0, <1>15 DEF Handoff, Idle, Owns
  <1> QED  BY <1>1, <1>2, <1>3, <1>4, <1>5, <1>6, <1>7, <1>8,
              <1>9, <1>10, <1>11, <1>12, <1>13, <1>14, <1>15 DEF Step

\* The tallies of references and of references in flight after a step.
Refs(b) == Tally(block, Instances, b)
Flying(b) == Tally(Flight, Threads, b)

\* The step of a thread changes at most its own reference in flight.
LEMMA FlightStep ==
  ASSUME NEW t \in Threads, NEW b,
         \A u \in Threads \ {t} : pc'[u] = pc[u] /\ held'[u] = held[u]
  PROVE  Flying(b)' = Flying(b) + One(Flight'[t], b) - One(Flight[t], b)
  <1>1. \A u \in Threads \ {t} : Flight'[u] = Flight[u]
    BY DEF Flight
  <1>2. Tally(Flight', Threads, b) = Tally(Flight, Threads, b)
          + One(Flight'[t], b) - One(Flight[t], b)
    BY <1>1, FiniteAssumption, TallyStep
  <1> QED  BY <1>2, Zenon DEF Flying

\* An assignment to one instance changes the tally of its old and new block.
LEMMA RefsStep ==
  ASSUME NEW i \in Instances, NEW b,
         \A x \in Instances \ {i} : block'[x] = block[x]
  PROVE  Refs(b)' = Refs(b) + One(block'[i], b) - One(block[i], b)
  <1>1. Tally(block', Instances, b) = Tally(block, Instances, b)
          + One(block'[i], b) - One(block[i], b)
    BY FiniteAssumption, TallyStep
  <1> QED  BY <1>1, Zenon DEF Refs

\* A move costs the target's old reference and nothing else.
LEMMA RefsMove ==
  ASSUME NEW i \in Instances, NEW j \in Instances, i # j, NEW b \in Blocks,
         block'[i] = block[j], block'[j] = Null,
         \A x \in Instances \ {i, j} : block'[x] = block[x]
  PROVE  Refs(b)' = Refs(b) - One(block[i], b)
  <1>1. Tally(block', Instances, b) = Tally(block, Instances, b) - One(block[i], b)
    BY NullAssumption, FiniteAssumption, TallyMove
  <1> QED  BY <1>1, Zenon DEF Refs

\* Nothing refers to an address that is free.
LEMMA FreshUnreferenced ==
  ASSUME MemoryInv, NEW b \in Blocks, b \notin live
  PROVE  Refs(b) = 0 /\ Flying(b) = 0
  <1>1. At(block, Instances, b) = {}
    BY NullAssumption DEF MemoryInv, NoDangling, At
  <1>2. At(Flight, Threads, b) = {}
    BY NullAssumption DEF MemoryInv, NoDangling, At, Flight
  <1> QED  BY <1>1, <1>2, FS_EmptySet DEF Refs, Flying, Tally

\* Every step moves the count together with the reference it makes or drops.
LEMMA ExactStep ==
  ASSUME MemoryInv, NEW t \in Threads, Step(t)
  PROVE  Exact'
  <1> USE NullAssumption DEF MemoryInv, TypeOK
  <1>0. TypeOK'
    BY TypeStep
  <1>a. \A b : Refs(b) \in Nat /\ Flying(b) \in Nat
    BY TallyIsNat, FiniteAssumption DEF Refs, Flying
  <1>b. \A b \in live : count[b] = Refs(b) + Flying(b)
    BY DEF Exact, Refs, Flying
  <1>c. ASSUME \A b \in live' : count'[b] = Refs(b)' + Flying(b)'
        PROVE  Exact'
    BY <1>c DEF Exact, Refs, Flying
  <1>d. ASSUME UNCHANGED block PROVE \A b : Refs(b)' = Refs(b)
    BY <1>d DEF Refs
  <1>e. ASSUME UNCHANGED <<pc, held>> PROVE \A b : Flying(b)' = Flying(b)
    BY <1>e DEF Flying, Flight
  <1>1. ASSUME NEW i \in Instances, NEW b \in Blocks, NEW v \in Values,
               CopyOnWriteMake(t, i, b, v)
        PROVE  Exact'
    <2>1. /\ \A x \in Instances \ {i} : block'[x] = block[x]
          /\ block'[i] = b /\ block[i] = Null /\ b \notin live /\ live' = live \cup {b}
          /\ count' = [count EXCEPT ![b] = 1] /\ UNCHANGED <<pc, held>>
      BY <1>1 DEF CopyOnWriteMake, Control
    <2>2. \A c \in Blocks : Refs(c)' = Refs(c) + One(b, c) - One(Null, c)
      BY <2>1, RefsStep
    <2>3. Refs(b) = 0 /\ Flying(b) = 0
      BY <2>1, FreshUnreferenced
    <2> QED  BY <1>a, <1>b, <1>c, <1>e, <2>1, <2>2, <2>3 DEF One
  <1>2. ASSUME NEW i \in Instances, NEW j \in Instances, CopyConstruct(t, i, j)
        PROVE  Exact'
    <2>1. /\ \A x \in Instances \ {i} : block'[x] = block[x]
          /\ block'[i] = block[j] /\ block[i] = Null /\ block[j] \in Blocks
          /\ count' = [count EXCEPT ![block[j]] = @ + 1] /\ UNCHANGED <<live, pc, held>>
      BY <1>2 DEF CopyConstruct, Retain, Usable, Control
    <2>2. \A c \in Blocks : Refs(c)' = Refs(c) + One(block[j], c) - One(Null, c)
      BY <2>1, RefsStep
    <2> QED  BY <1>a, <1>b, <1>c, <1>e, <2>1, <2>2 DEF One
  <1>3. ASSUME NEW i \in Instances, NEW j \in Instances, MoveConstruct(t, i, j)
        PROVE  Exact'
    <2>1. /\ block'[i] = block[j] /\ block'[j] = Null
          /\ \A x \in Instances \ {i, j} : block'[x] = block[x]
          /\ i # j /\ block[i] = Null /\ UNCHANGED <<live, count, pc, held>>
      BY <1>3 DEF MoveConstruct, Move, Owns, Control
    <2>2. \A c \in Blocks : Refs(c)' = Refs(c) - One(Null, c)
      BY <2>1, RefsMove
    <2> QED  BY <1>a, <1>b, <1>c, <1>e, <2>1, <2>2 DEF One
  <1>4. ASSUME NEW i \in Instances, NEW j \in Instances, CopyAssign(t, i, j)
        PROVE  Exact'
    <2>1. /\ block[j] \in Blocks /\ pc[t] = "idle" /\ UNCHANGED live
          /\ count' = [count EXCEPT ![block[j]] = @ + 1]
      BY <1>4 DEF CopyAssign, Retain, Usable, Idle
    <2>2. CASE Goto(t, "assignRelease", i, block[j], "idle") /\ UNCHANGED block
      <3>1. /\ \A u \in Threads \ {t} : pc'[u] = pc[u] /\ held'[u] = held[u]
            /\ Flight'[t] = block[j] /\ Flight[t] = Null
        BY <2>1, <2>2 DEF Goto, Flight
      <3>2. \A c \in Blocks : Flying(c)' = Flying(c) + One(block[j], c) - One(Null, c)
        BY <3>1, FlightStep
      <3> QED  BY <1>a, <1>b, <1>c, <1>d, <2>1, <2>2, <3>2 DEF One
    <2>3. CASE /\ block[i] = Null /\ block' = [block EXCEPT ![i] = block[j]]
               /\ UNCHANGED <<pc, held>>
      <3>1. \A x \in Instances \ {i} : block'[x] = block[x]
        BY <2>3
      <3>2. \A c \in Blocks : Refs(c)' = Refs(c) + One(block[j], c) - One(Null, c)
        BY <2>3, <3>1, RefsStep
      <3> QED  BY <1>a, <1>b, <1>c, <1>e, <2>1, <2>3, <3>2 DEF One
    <2> QED  BY <1>4, <2>2, <2>3 DEF CopyAssign
  <1>f. ASSUME NEW i \in Instances, block[i] # Null, pc[t] = "idle",
               Release(t, block[i], "idle", Nobody), UNCHANGED live,
               \A c \in Blocks : Refs(c)' = Refs(c) - One(block[i], c)
        PROVE  Exact'
    <2>1. Lands(t, block[i], "idle", Nobody)
      BY <1>f, ReleaseLands
    <2>2. /\ \A u \in Threads \ {t} : pc'[u] = pc[u] /\ held'[u] = held[u]
          /\ Flight'[t] = Null /\ Flight[t] = Null
          /\ \A c \in Blocks : count'[c] = count[c] - One(block[i], c)
      BY <1>f, <2>1 DEF Lands, Flight
    <2>3. \A c \in Blocks : Flying(c)' = Flying(c) + One(Null, c) - One(Null, c)
      BY <2>2, FlightStep
    <2> QED  BY <1>a, <1>b, <1>c, <1>f, <2>2, <2>3 DEF One
  <1>5. ASSUME NEW i \in Instances, NEW j \in Instances, MoveAssign(t, i, j)
        PROVE  Exact'
    <2>1. /\ block'[i] = block[j] /\ block'[j] = Null
          /\ \A x \in Instances \ {i, j} : block'[x] = block[x]
          /\ i # j /\ pc[t] = "idle" /\ UNCHANGED live
      BY <1>5 DEF MoveAssign, Move, Idle
    <2>2. \A c \in Blocks : Refs(c)' = Refs(c) - One(block[i], c)
      BY <2>1, RefsMove
    <2>3. CASE block[i] # Null /\ Release(t, block[i], "idle", Nobody)
      BY <1>f, <2>1, <2>2, <2>3
    <2>4. CASE block[i] = Null /\ UNCHANGED <<count, pc, held>>
      BY <1>a, <1>b, <1>c, <1>e, <2>1, <2>2, <2>4 DEF One
    <2> QED  BY <1>5, <2>3, <2>4 DEF MoveAssign, Move
  <1>6. ASSUME NEW i \in Instances, Destroy(t, i)
        PROVE  Exact'
    <2>1. /\ \A x \in Instances \ {i} : block'[x] = block[x]
          /\ block'[i] = Null /\ pc[t] = "idle" /\ UNCHANGED live
      BY <1>6 DEF Destroy, Idle
    <2>2. \A c \in Blocks : Refs(c)' = Refs(c) + One(Null, c) - One(block[i], c)
      BY <2>1, RefsStep
    <2>3. CASE block[i] # Null /\ Release(t, block[i], "idle", Nobody)
      <3>1. \A c \in Blocks : Refs(c)' = Refs(c) - One(block[i], c)
        BY <1>a, <2>2 DEF One
      <3> QED  BY <1>f, <2>1, <2>3, <3>1
    <2>4. CASE block[i] = Null /\ UNCHANGED <<count, pc, held>>
      BY <1>a, <1>b, <1>c, <1>e, <2>1, <2>2, <2>4 DEF One
    <2> QED  BY <1>6, <2>3, <2>4 DEF Destroy
  <1>g. ASSUME UNCHANGED <<block, live, count>>, Flight'[t] = Flight[t],
               \A u \in Threads \ {t} : pc'[u] = pc[u] /\ held'[u] = held[u]
        PROVE  Exact'
    <2>1. \A c \in Blocks : Flying(c)' = Flying(c) + One(Flight[t], c) - One(Flight[t], c)
      BY <1>g, FlightStep
    <2> QED  BY <1>a, <1>b, <1>c, <1>d, <1>g, <2>1 DEF One
  <1>7. ASSUME NEW i \in Instances, Read(t, i) \/ Unique(t, i)
        PROVE  Exact'
    <2>1. /\ UNCHANGED <<block, live, count>> /\ Flight'[t] = Flight[t]
          /\ \A u \in Threads \ {t} : pc'[u] = pc[u] /\ held'[u] = held[u]
      BY <1>7 DEF Read, Unique, Idle, Goto, Flight
    <2> QED  BY <1>g, <2>1
  <1>8. ASSUME NEW b \in Blocks, UniqueCopy(t, b)
        PROVE  Exact'
    <2>1. /\ b \notin live /\ live' = live \cup {b} /\ UNCHANGED block
          /\ count' = [count EXCEPT ![b] = 1]
          /\ Flight'[t] = b /\ Flight[t] = Null
          /\ \A u \in Threads \ {t} : pc'[u] = pc[u] /\ held'[u] = held[u]
      BY <1>8 DEF UniqueCopy, Goto, Flight
    <2>2. \A c \in Blocks : Flying(c)' = Flying(c) + One(b, c) - One(Null, c)
      BY <2>1, FlightStep
    <2>3. Refs(b) = 0 /\ Flying(b) = 0
      BY <2>1, FreshUnreferenced
    <2> QED  BY <1>a, <1>b, <1>c, <1>d, <2>1, <2>2, <2>3 DEF One
  <1>9. ASSUME NEW v \in Values, Write(t, v)
        PROVE  Exact'
    <2>1. /\ UNCHANGED <<block, live, count>> /\ Flight'[t] = Flight[t]
          /\ \A u \in Threads \ {t} : pc'[u] = pc[u] /\ held'[u] = held[u]
      BY <1>9 DEF Write, Done, Goto, Flight
    <2> QED  BY <1>g, <2>1
  <1>h. ASSUME NEW next \in {"idle", "writing"}, NEW k \in Instances \cup {Nobody},
               pc[t] \in {"assignRelease", "splitRelease"}, UNCHANGED live,
               block' = [block EXCEPT ![inst[t]] = held[t]],
               Release(t, block[inst[t]], next, k)
        PROVE  Exact'
    <2>1. inst[t] \in Instances /\ block[inst[t]] \in Blocks /\ held[t] \in Blocks
      BY <1>h DEF Control, Engaged
    <2>2. Lands(t, block[inst[t]], next, k)
      BY <1>h, <2>1, ReleaseLands
    <2>3. /\ \A u \in Threads \ {t} : pc'[u] = pc[u] /\ held'[u] = held[u]
          /\ Flight'[t] = Null /\ Flight[t] = held[t]
          /\ \A c \in Blocks : count'[c] = count[c] - One(block[inst[t]], c)
      BY <1>h, <2>2 DEF Lands, Flight
    <2>4. \A c \in Blocks : Flying(c)' = Flying(c) + One(Null, c) - One(held[t], c)
      BY <2>3, FlightStep
    <2>5. /\ \A x \in Instances \ {inst[t]} : block'[x] = block[x]
          /\ block'[inst[t]] = held[t]
      BY <1>h, <2>1
    <2>6. \A c \in Blocks :
            Refs(c)' = Refs(c) + One(held[t], c) - One(block[inst[t]], c)
      BY <2>1, <2>5, RefsStep
    <2> QED  BY <1>a, <1>b, <1>c, <1>h, <2>3, <2>4, <2>6 DEF One
  <1>10. CASE CopyAssignRelease(t) \/ UniqueRelease(t)
    BY <1>h, <1>10 DEF CopyAssignRelease, UniqueRelease
  <1>11. CASE Delete(t)
    <2>1. /\ UNCHANGED <<block, count>> /\ live' \subseteq live
          /\ Flight'[t] = Null /\ Flight[t] = Null
          /\ \A u \in Threads \ {t} : pc'[u] = pc[u] /\ held'[u] = held[u]
      BY <1>11 DEF Delete, Done, Goto, Flight
    <2>2. \A c \in Blocks : Flying(c)' = Flying(c) + One(Null, c) - One(Null, c)
      BY <2>1, FlightStep
    <2> QED  BY <1>a, <1>b, <1>c, <1>d, <2>1, <2>2 DEF One
  <1>12. CASE ReadEnd(t)
    <2>1. /\ UNCHANGED <<block, live, count>> /\ Flight'[t] = Flight[t]
          /\ \A u \in Threads \ {t} : pc'[u] = pc[u] /\ held'[u] = held[u]
      BY <1>12 DEF ReadEnd, Done, Goto, Flight
    <2> QED  BY <1>g, <2>1
  <1>13. ASSUME NEW u \in Threads, NEW i \in Instances, Handoff(t, u, i)
         PROVE  Exact'
    BY <1>b, <1>c, <1>d, <1>e, <1>13 DEF Handoff
  <1> QED  BY <1>1, <1>2, <1>3, <1>4, <1>5, <1>6, <1>7, <1>8, <1>9, <1>10, <1>11,
              <1>12, <1>13 DEF Step

-----------------------------------------------------------------------------
\* The inductive invariant holds in every reachable state.
THEOREM MemoryInvariant == Spec => []MemoryInv
  <1>1. Init => MemoryInv
    <2> SUFFICES ASSUME Init PROVE MemoryInv
      OBVIOUS
    <2>1. TypeOK
      BY DEF Init, TypeOK, Steps
    <2>2. Control /\ NoDangling /\ Solo
      BY NullAssumption DEF Init, Control, Engaged, NoDangling, Solo
    <2>3. Exact
      BY DEF Init, Exact
    <2> QED  BY <2>1, <2>2, <2>3 DEF MemoryInv
  <1>2. MemoryInv /\ [Next]_vars => MemoryInv'
    <2>1. ASSUME MemoryInv, NEW t \in Threads, Step(t) PROVE MemoryInv'
      BY <2>1, TypeStep, ControlStep, ExactStep, DanglingStep, SoloStep DEF MemoryInv
    <2>2. ASSUME MemoryInv, UNCHANGED vars PROVE MemoryInv'
      <3>1. TypeOK' /\ Control' /\ NoDangling' /\ Solo'
        BY <2>2 DEF vars, MemoryInv, TypeOK, Control, Engaged, NoDangling, Solo
      <3>2. Flight' = Flight /\ block' = block /\ count' = count /\ live' = live
        BY <2>2 DEF vars, Flight
      <3>3. Exact'
        BY <2>2, <3>2 DEF MemoryInv, Exact
      <3> QED  BY <3>1, <3>3 DEF MemoryInv
    <2> QED  BY <2>1, <2>2 DEF Next
  <1> QED  BY <1>1, <1>2, PTL DEF Spec

\* Counts, pointers and program counters stay in their types; a count is never
\* decremented below zero (CopyOnWriteBacked.h:51-80).
THEOREM TypeCorrect == Spec => []TypeOK
  <1>1. MemoryInv => TypeOK
    BY DEF MemoryInv
  <1> QED  BY <1>1, MemoryInvariant, PTL

\* For any number of threads and instances, the count of a live block is the
\* number of references to it (CopyOnWriteBacked.h:67-80).
THEOREM CountIsExact == Spec => []RefcountExact
  <1>1. MemoryInv => RefcountExact
    <2> SUFFICES ASSUME MemoryInv, NEW b \in live
                 PROVE  count[b] = Cardinality(References(b)) + Cardinality(InFlight(b))
      BY DEF RefcountExact
    <2>1. References(b) = At(block, Instances, b)
      BY DEF References, At
    <2>2. InFlight(b) = At(Flight, Threads, b)
      BY NullAssumption DEF InFlight, At, Flight, MemoryInv, TypeOK
    <2> QED  BY <2>1, <2>2 DEF MemoryInv, Exact, Tally
  <1> QED  BY <1>1, MemoryInvariant, PTL

\* No interleaving of copies, moves, splits and destructions leaves a pointer to
\* deleted memory or deletes a block twice (CopyOnWriteBacked.h:72-80).
THEOREM NeverDangles == Spec => []NoDangling
  <1>1. MemoryInv => NoDangling
    BY DEF MemoryInv
  <1> QED  BY <1>1, MemoryInvariant, PTL

\* The writer behind unique() has the element to itself, although the load that
\* decides is relaxed and nothing locks (CopyOnWriteBacked.h:145-153).
THEOREM WritesAlone == Spec => []ExclusiveWrite
  <1>1. MemoryInv => ExclusiveWrite
    <2> SUFFICES ASSUME MemoryInv, NEW t \in Threads, NEW u \in Threads, t # u,
                        pc[t] = "writing"
                 PROVE  /\ ~Touches(u, block[inst[t]])
                        /\ ~(pc[u] = "delete" /\ held[u] = block[inst[t]])
      BY DEF ExclusiveWrite
    <2>1. /\ inst[t] \in Instances /\ owner[inst[t]] = t /\ block[inst[t]] # Null
          /\ count[block[inst[t]]] = 1
      BY DEF MemoryInv, Control, Engaged, Solo
    <2>2. Touches(u, block[inst[t]]) =>
            inst[u] \in Instances /\ owner[inst[u]] = u /\ block[inst[u]] = block[inst[t]]
      BY DEF MemoryInv, Control, Engaged, Touches
    <2>3. pc[u] = "delete" => count[held[u]] = 0
      BY DEF MemoryInv, Solo
    <2> QED  BY <2>1, <2>2, <2>3, CountFacts
  <1> QED  BY <1>1, MemoryInvariant, PTL

-----------------------------------------------------------------------------
\* A step changes the value of no instance but its own.
LEMMA ValueStep ==
  ASSUME MemoryInv, ValueInv, NEW t \in Threads, Step(t)
  PROVE  ValueInv'
  <1> USE NullAssumption, CountFacts DEF MemoryInv, TypeOK, Control, Engaged, NoDangling, Solo, Flight,
        Goto, Done, ValueInv, ValueIsolation
  <1>0. TypeOK'
    BY TypeStep
  <1>1. ASSUME NEW i \in Instances, NEW b \in Blocks, NEW v \in Values,
               CopyOnWriteMake(t, i, b, v)
        PROVE  ValueInv'
    BY <1>0, <1>1 DEF CopyOnWriteMake, Idle
  <1>2. ASSUME NEW i \in Instances, NEW j \in Instances, CopyConstruct(t, i, j)
        PROVE  ValueInv'
    BY <1>0, <1>2 DEF CopyConstruct, Retain, Idle, Usable, Owns
  <1>3. ASSUME NEW i \in Instances, NEW j \in Instances, MoveConstruct(t, i, j)
        PROVE  ValueInv'
    BY <1>0, <1>3 DEF MoveConstruct, Move, Idle, Owns
  <1>4. ASSUME NEW i \in Instances, NEW j \in Instances, CopyAssign(t, i, j)
        PROVE  ValueInv'
    BY <1>0, <1>4 DEF CopyAssign, Retain, Idle, Usable, Owns
  <1>5. ASSUME NEW i \in Instances, NEW j \in Instances, MoveAssign(t, i, j)
        PROVE  ValueInv'
    <2>1. /\ block'[i] = block[j] /\ block'[j] = Null
          /\ \A x \in Instances \ {i, j} : block'[x] = block[x] /\ logical'[x] = logical[x]
          /\ logical'[i] = logical[j] /\ UNCHANGED val
          /\ owner[i] = t /\ owner[j] = t /\ pc[t] = "idle" /\ i # j
      BY <1>5 DEF MoveAssign, Move, Idle, Owns
    <2>2. /\ pc'[t] \in {"idle", "delete"}
          /\ \A u \in Threads \ {t} : pc'[u] = pc[u] /\ inst'[u] = inst[u] /\ held'[u] = held[u]
      <3>1. CASE block[i] # Null /\ Release(t, block[i], "idle", Nobody)
        BY <3>1, ReleaseLands DEF Lands
      <3>2. CASE UNCHANGED <<pc, inst, held>>
        BY <2>1, <3>2
      <3> QED  BY <1>5, <3>1, <3>2 DEF MoveAssign
    <2>3. \A u \in Threads : pc[u] = "assignRelease" => inst[u] \notin {i, j}
      BY <2>1
    <2>4. \A u \in Threads : pc[u] = "splitRelease" => inst[u] \notin {i, j}
      BY <2>1
    <2>5. block[j] # Null => val[block[j]] = logical[j]
      BY <2>1, <2>3
    <2>6. ValueIsolation'
      BY <2>1, <2>2, <2>3, <2>5, SMTT(60)
    <2> QED  BY <2>1, <2>2, <2>3, <2>4, <2>6
  <1>6. ASSUME NEW i \in Instances, Destroy(t, i)
        PROVE  ValueInv'
    BY <1>0, <1>6, SMTT(60) DEF Destroy, Release, Idle, Owns
  <1>7. ASSUME NEW i \in Instances, Read(t, i)
        PROVE  ValueInv'
    BY <1>0, <1>7, SMTT(60) DEF Read, Idle, Usable, Owns
  <1>8. ASSUME NEW i \in Instances, Unique(t, i)
        PROVE  ValueInv'
    BY <1>0, <1>8, SMTT(60) DEF Unique, IsShared, Idle, Usable, Owns
  <1>9. ASSUME NEW b \in Blocks, UniqueCopy(t, b)
        PROVE  ValueInv'
    BY <1>0, <1>9 DEF UniqueCopy
  <1>10. ASSUME NEW v \in Values, Write(t, v)
        PROVE  ValueInv'
    BY <1>0, <1>10 DEF Write
  <1>11. CASE CopyAssignRelease(t)
    <2>1. /\ inst[t] \in Instances /\ block[inst[t]] # Null /\ held[t] # Null
          /\ owner[inst[t]] = t /\ val[held[t]] = logical[inst[t]]
          /\ block' = [block EXCEPT ![inst[t]] = held[t]] /\ UNCHANGED <<val, logical>>
          /\ Release(t, block[inst[t]], "idle", Nobody)
      BY <1>11 DEF CopyAssignRelease
    <2>2. Lands(t, block[inst[t]], "idle", Nobody)
      BY <2>1, ReleaseLands
    <2>3. /\ pc'[t] \in {"idle", "delete"}
          /\ \A u \in Threads \ {t} : pc'[u] = pc[u] /\ inst'[u] = inst[u] /\ held'[u] = held[u]
      BY <2>2 DEF Lands
    <2>4. \A u \in Threads \ {t} :
            pc[u] \in {"assignRelease", "splitRelease"} => inst[u] # inst[t]
      BY <2>1
    <2>5. ValueIsolation'
      BY <2>1, <2>3, <2>4, SMTT(60)
    <2> QED  BY <2>1, <2>3, <2>4, <2>5
  <1>12. CASE UniqueRelease(t)
    <2>1. /\ inst[t] \in Instances /\ block[inst[t]] # Null /\ held[t] # Null
          /\ owner[inst[t]] = t /\ val[held[t]] = logical[inst[t]]
          /\ block' = [block EXCEPT ![inst[t]] = held[t]] /\ UNCHANGED <<val, logical>>
          /\ Release(t, block[inst[t]], "writing", inst[t])
      BY <1>12 DEF UniqueRelease
    <2>2. Lands(t, block[inst[t]], "writing", inst[t])
      BY <2>1, ReleaseLands
    <2>3. /\ pc'[t] \in {"writing", "delete"}
          /\ \A u \in Threads \ {t} : pc'[u] = pc[u] /\ inst'[u] = inst[u] /\ held'[u] = held[u]
      BY <2>2 DEF Lands
    <2>4. \A u \in Threads \ {t} :
            pc[u] \in {"assignRelease", "splitRelease"} => inst[u] # inst[t]
      BY <2>1
    <2>5. ValueIsolation'
      BY <2>1, <2>3, <2>4
    <2> QED  BY <2>1, <2>3, <2>4, <2>5
  <1>13. CASE Delete(t)
    BY <1>0, <1>13 DEF Delete
  <1>14. CASE ReadEnd(t)
    BY <1>0, <1>14 DEF ReadEnd
  <1>15. ASSUME NEW u \in Threads, NEW i \in Instances, Handoff(t, u, i)
        PROVE  ValueInv'
    BY <1>0, <1>15 DEF Handoff, Idle, Owns
  <1> QED  BY <1>1, <1>2, <1>3, <1>4, <1>5, <1>6, <1>7, <1>8,
              <1>9, <1>10, <1>11, <1>12, <1>13, <1>14, <1>15 DEF Step

-----------------------------------------------------------------------------
(***************************************************************************)
(* Happens-before.  A step either leaves the order alone, accesses an       *)
(* element that its thread carries, or releases; each keeps OrderInv as     *)
(* long as nobody else loses a block.                                       *)
(***************************************************************************)
\* Threads that carry a block still do, apart from t and b.
CarriesStay(t, b) ==
    \A x \in Threads, c \in Blocks :
        Carries(x, c) /\ ~(x = t /\ c = b) => Carries(x, c)'

\* No thread but t begins to delete, or deletes another block than before.
DeletersStay(t) ==
    \A x \in Threads \ {t} : pc'[x] = "delete" => pc[x] = "delete" /\ held'[x] = held[x]

\* A step that touches no element and releases nothing keeps the order.
LEMMA QuietOrder ==
  ASSUME TypeOK, OrderInv, NEW t \in Threads, UNCHANGED <<know, pub>>,
         live \subseteq live', CarriesStay(t, Null), Null \notin Blocks,
         DeletersStay(t), pc'[t] # "delete"
  PROVE  OrderInv'
  <1>1. Attributed' /\ Forgotten'
    BY DEF OrderInv, Attributed, Forgotten
  <1>2. Carried'
    BY DEF OrderInv, Carried, CarriesStay
  <1>3. DeletionOrdered'
    BY DEF OrderInv, DeletionOrdered, DeletersStay, KnowsAll
  <1> QED  BY <1>1, <1>2, <1>3 DEF OrderInv

\* An access by a thread that carries the block keeps the order: the thread knows
\* of it, and nobody is about to delete the block.
LEMMA AccessOrder ==
  ASSUME TypeOK, TypeOK', OrderInv, NEW t \in Threads, NEW b \in Blocks, Access(t, b),
         live \subseteq live', b \in live', CarriesStay(t, Null), Null \notin Blocks,
         Carries(t, b)', DeletersStay(t), pc'[t] # "delete",
         \A x \in Threads : pc[x] = "delete" => held[x] # b
  PROVE  OrderInv'
  <1>1. /\ \A x \in Threads, u \in Threads, c \in Blocks :
             u # t \/ c # b => (<<u, c>> \in know'[x] <=> <<u, c>> \in know[x])
        /\ \A x \in Threads : <<t, b>> \in know'[x] <=> x = t
        /\ \A u \in Threads, c \in Blocks :
             u # t \/ c # b => (u \in pub'[c] <=> u \in pub[c])
        /\ t \notin pub'[b]
    BY DEF Access, TypeOK
  <1>2. Attributed'
    BY <1>1 DEF OrderInv, Attributed
  <1>3. Forgotten'
    BY <1>1 DEF OrderInv, Forgotten
  <1>4. Carried'
    <2> SUFFICES ASSUME NEW u \in Threads, NEW c \in Blocks, <<u, c>> \in know'[u]
                 PROVE  \/ u \in pub'[c]
                        \/ \E x \in Threads : Carries(x, c)' /\ <<u, c>> \in know'[x]
      BY DEF Carried, Carries
    <2>1. CASE u = t /\ c = b
      BY <1>1, <2>1
    <2>2. CASE u # t \/ c # b
      <3>1. \/ u \in pub[c]
            \/ \E x \in Threads : Carries(x, c) /\ <<u, c>> \in know[x]
        BY <1>1, <2>2 DEF OrderInv, Carried
      <3> QED  BY <1>1, <2>2, <3>1 DEF CarriesStay
    <2> QED  BY <2>1, <2>2
  <1>5. DeletionOrdered'
    <2> SUFFICES ASSUME NEW x \in Threads, pc'[x] = "delete",
                        NEW u \in Threads, <<u, held'[x]>> \in know'[u]
                 PROVE  <<u, held'[x]>> \in know'[x]
      BY DEF DeletionOrdered, KnowsAll
    <2>1. x # t /\ pc[x] = "delete" /\ held'[x] = held[x] /\ held[x] # b
      BY DEF DeletersStay
    <2>2. held[x] \in Blocks
      <3>1. <<u, held'[x]>> \in Threads \X Blocks
        BY DEF TypeOK
      <3> QED  BY <2>1, <3>1
    <2>3. <<u, held[x]>> \in know[u]
      BY <1>1, <2>1, <2>2
    <2>4. <<u, held[x]>> \in know[x]
      BY <2>1, <2>3 DEF OrderInv, DeletionOrdered, KnowsAll
    <2> QED  BY <1>1, <2>1, <2>2, <2>4
  <1> QED  BY <1>2, <1>3, <1>4, <1>5 DEF OrderInv

\* A release publishes what its thread knows of the block, and the last one
\* learns of every access.
LEMMA ReleaseOrder ==
  ASSUME TypeOK, TypeOK', OrderInv, NEW t \in Threads, NEW b \in Blocks,
         NEW next \in {"idle", "writing"}, NEW k, Release(t, b, next, k),
         live' = live, CarriesStay(t, b), DeletersStay(t),
         pc'[t] = "delete" => held'[t] = b /\ \A x \in Threads \ {t} : ~Carries(x, b)
  PROVE  OrderInv'
  <1>1. /\ \A x \in Threads \ {t}, u \in Threads, c \in Blocks :
             <<u, c>> \in know'[x] <=> <<u, c>> \in know[x]
        /\ \A u \in Threads, c \in Blocks :
             <<u, c>> \in know'[t] <=> <<u, c>> \in know[t] \/ (c = b /\ u \in pub[b])
        /\ \A u \in Threads, c \in Blocks :
             u \in pub'[c] <=> u \in pub[c] \/ (c = b /\ <<u, b>> \in know[t])
    BY DEF Release, TypeOK
  <1>2. \A u \in Threads, c \in Blocks : <<u, c>> \in know'[u] <=> <<u, c>> \in know[u]
    BY <1>1 DEF OrderInv, Attributed
  <1>3. Attributed'
    BY <1>1, <1>2, ZenonT(60) DEF OrderInv, Attributed
  <1>4. Forgotten'
    BY <1>2 DEF OrderInv, Forgotten
  <1>5. Carried'
    <2> SUFFICES ASSUME NEW u \in Threads, NEW c \in Blocks, <<u, c>> \in know'[u]
                 PROVE  \/ u \in pub'[c]
                        \/ \E x \in Threads : Carries(x, c)' /\ <<u, c>> \in know'[x]
      BY DEF Carried, Carries
    <2>1. \/ u \in pub[c]
          \/ \E x \in Threads : Carries(x, c) /\ <<u, c>> \in know[x]
      BY <1>2 DEF OrderInv, Carried
    <2>2. CASE u \in pub[c]
      BY <1>1, <2>2
    <2>3. ASSUME NEW x \in Threads, Carries(x, c), <<u, c>> \in know[x]
          PROVE  \/ u \in pub'[c]
                 \/ Carries(x, c)' /\ <<u, c>> \in know'[x]
      <3>1. CASE x = t /\ c = b
        BY <1>1, <2>3, <3>1
      <3>2. CASE ~(x = t /\ c = b)
        BY <1>1, <2>3, <3>2 DEF CarriesStay
      <3> QED  BY <3>1, <3>2
    <2> QED  BY <2>1, <2>2, <2>3
  <1>6. DeletionOrdered'
    <2> SUFFICES ASSUME NEW x \in Threads, pc'[x] = "delete",
                        NEW u \in Threads, <<u, held'[x]>> \in know'[u]
                 PROVE  <<u, held'[x]>> \in know'[x]
      BY DEF DeletionOrdered, KnowsAll
    <2>1. CASE x = t
      <3>1. held'[x] = b /\ <<u, b>> \in know[u]
        BY <1>2, <2>1
      <3>2. u \in pub[b] \/ <<u, b>> \in know[t]
        BY <2>1, <3>1 DEF OrderInv, Carried
      <3> QED  BY <1>1, <2>1, <3>1, <3>2
    <2>2. CASE x # t
      <3>1. pc[x] = "delete" /\ held'[x] = held[x]
        BY <2>2 DEF DeletersStay
      <3>2. <<u, held'[x]>> \in Threads \X Blocks
        BY DEF TypeOK
      <3> QED  BY <1>1, <1>2, <2>2, <3>1, <3>2 DEF OrderInv, DeletionOrdered, KnowsAll
    <2> QED  BY <2>1, <2>2
  <1> QED  BY <1>3, <1>4, <1>5, <1>6 DEF OrderInv

\* What is known of an access reaches whoever deletes the block.
LEMMA OrderStep ==
  ASSUME MemoryInv, OrderInv, NEW t \in Threads, Step(t)
  PROVE  OrderInv'
  <1> USE NullAssumption DEF MemoryInv, TypeOK
  <1>0. TypeOK'
    BY TypeStep
  <1>a. \A x \in Threads : pc[x] = "delete" =>
          /\ held[x] \in live /\ count[held[x]] = 0
          /\ \A i \in Instances : block[i] # held[x]
    BY CountFacts DEF Control, NoDangling, Solo
  <1>1. ASSUME NEW i \in Instances, NEW b \in Blocks, NEW v \in Values,
               CopyOnWriteMake(t, i, b, v)
        PROVE  OrderInv'
    <2>1. /\ Access(t, b) /\ live' = live \cup {b} /\ b \notin live
          /\ UNCHANGED <<pc, held>> /\ pc[t] = "idle" /\ block[i] = Null
          /\ block' = [block EXCEPT ![i] = b] /\ owner' = [owner EXCEPT ![i] = t]
      BY <1>1 DEF CopyOnWriteMake, Idle, Control
    <2>2. CarriesStay(t, Null) /\ Carries(t, b)'
      BY <1>0, <2>1 DEF CarriesStay, Carries
    <2>3. DeletersStay(t)
      BY <2>1 DEF DeletersStay
    <2>4. \A x \in Threads : pc[x] = "delete" => held[x] # b
      BY <1>a, <2>1
    <2> QED  BY <1>0, <2>1, <2>2, <2>3, <2>4, AccessOrder
  <1>2. ASSUME NEW i \in Instances, NEW j \in Instances, CopyConstruct(t, i, j)
        PROVE  OrderInv'
    <2>1. /\ UNCHANGED <<know, pub, live, pc, held>> /\ pc[t] = "idle" /\ block[i] = Null
          /\ block' = [block EXCEPT ![i] = block[j]] /\ owner' = [owner EXCEPT ![i] = t]
      BY <1>2 DEF CopyConstruct, Idle, Control, order
    <2>2. CarriesStay(t, Null) /\ DeletersStay(t)
      BY <1>0, <2>1 DEF CarriesStay, Carries, DeletersStay
    <2> QED  BY <2>1, <2>2, QuietOrder
  <1>3. ASSUME NEW i \in Instances, NEW j \in Instances, MoveConstruct(t, i, j)
        PROVE  OrderInv'
    <2>1. /\ UNCHANGED <<know, pub, live, pc, held>> /\ pc[t] = "idle"
          /\ block[i] = Null /\ i # j /\ owner[j] = t
          /\ block' = [block EXCEPT ![i] = block[j], ![j] = Null]
          /\ owner' = [owner EXCEPT ![i] = t]
      BY <1>3 DEF MoveConstruct, Move, Idle, Owns, Control, order
    <2>2. CarriesStay(t, Null) /\ DeletersStay(t)
      BY <1>0, <2>1 DEF CarriesStay, Carries, DeletersStay
    <2> QED  BY <2>1, <2>2, QuietOrder
  <1>4. ASSUME NEW i \in Instances, NEW j \in Instances, CopyAssign(t, i, j)
        PROVE  OrderInv'
    <2>1. /\ UNCHANGED <<know, pub, live, owner>> /\ pc[t] = "idle" /\ held[t] = Null
          /\ \A x \in Instances : block[x] = Null \/ block'[x] = block[x]
          /\ pc'[t] # "delete"
          /\ \A x \in Threads \ {t} : pc'[x] = pc[x] /\ held'[x] = held[x]
      BY <1>4 DEF CopyAssign, Goto, Idle, Control, order
    <2>2. CarriesStay(t, Null) /\ DeletersStay(t)
      BY <1>0, <2>1 DEF CarriesStay, Carries, DeletersStay
    <2> QED  BY <2>1, <2>2, QuietOrder
  <1>b. ASSUME NEW i \in Instances, block[i] # Null, owner[i] = t,
               NEW next \in {"idle", "writing"}, NEW k \in Instances \cup {Nobody},
               Release(t, block[i], next, k), live' = live, CarriesStay(t, block[i])
        PROVE  OrderInv'
    <2>1. Lands(t, block[i], next, k)
      BY <1>b, ReleaseLands
    <2>2. DeletersStay(t) /\ (pc'[t] = "delete" => held'[t] = block[i])
      BY <1>b, <2>1 DEF Lands, DeletersStay
    <2>3. ASSUME pc'[t] = "delete", NEW x \in Threads \ {t}, Carries(x, block[i])
          PROVE  FALSE
      <3>1. count[block[i]] = 1
        BY <1>b, <2>1, <2>3 DEF Lands
      <3>2. held[x] # block[i]
        <4>1. pc[x] = "delete" => held[x] # block[i]
          BY <1>a
        <4>2. Flight[x] # block[i]
          BY <1>b, <3>1, CountFacts
        <4> QED  BY <1>b, <4>1, <4>2 DEF Control, Flight
      <3>3. \A j \in Instances : block[j] = block[i] => owner[j] # x
        BY <1>b, <3>1, CountFacts
      <3> QED  BY <2>3, <3>2, <3>3 DEF Carries
    <2>4. block[i] \in Blocks
      BY <1>b
    <2> QED  BY <1>0, <1>b, <2>2, <2>3, <2>4, ReleaseOrder
  <1>5. ASSUME NEW i \in Instances, NEW j \in Instances, MoveAssign(t, i, j)
        PROVE  OrderInv'
    <2>1. /\ UNCHANGED <<live, owner>> /\ pc[t] = "idle" /\ held[t] = Null
          /\ owner[i] = t /\ owner[j] = t /\ i # j
          /\ block' = [block EXCEPT ![i] = block[j], ![j] = Null]
      BY <1>5 DEF MoveAssign, Move, Idle, Owns, Control
    <2>2. CASE block[i] # Null /\ Release(t, block[i], "idle", Nobody)
      <3>1. \A x \in Threads \ {t} : held'[x] = held[x]
        BY <2>2, ReleaseLands DEF Lands
      <3>2. CarriesStay(t, block[i])
        BY <1>0, <2>1, <3>1 DEF CarriesStay, Carries
      <3> QED  BY <1>b, <2>1, <2>2, <3>2
    <2>3. CASE block[i] = Null /\ UNCHANGED <<pc, held, know, pub>>
      <3>1. CarriesStay(t, Null) /\ DeletersStay(t)
        BY <1>0, <2>1, <2>3 DEF CarriesStay, Carries, DeletersStay
      <3> QED  BY <2>1, <2>3, <3>1, QuietOrder
    <2> QED  BY <1>5, <2>2, <2>3 DEF MoveAssign, Move, order
  <1>6. ASSUME NEW i \in Instances, Destroy(t, i)
        PROVE  OrderInv'
    <2>1. /\ UNCHANGED live /\ pc[t] = "idle" /\ held[t] = Null /\ owner[i] = t
          /\ \A x \in Instances \ {i} : block'[x] = block[x] /\ owner'[x] = owner[x]
      BY <1>6 DEF Destroy, Idle, Owns, Control
    <2>2. CASE block[i] # Null /\ Release(t, block[i], "idle", Nobody)
      <3>1. \A x \in Threads \ {t} : held'[x] = held[x]
        BY <2>2, ReleaseLands DEF Lands
      <3>2. CarriesStay(t, block[i])
        BY <1>0, <2>1, <3>1 DEF CarriesStay, Carries
      <3> QED  BY <1>b, <2>1, <2>2, <3>2
    <2>3. CASE block[i] = Null /\ UNCHANGED <<pc, held, know, pub>>
      <3>1. CarriesStay(t, Null) /\ DeletersStay(t)
        BY <1>0, <2>1, <2>3 DEF CarriesStay, Carries, DeletersStay
      <3> QED  BY <2>1, <2>3, <3>1, QuietOrder
    <2> QED  BY <1>6, <2>2, <2>3 DEF Destroy, order
  <1>c. ASSUME NEW i \in Instances, block[i] # Null, owner[i] = t, Access(t, block[i]),
               UNCHANGED <<owner, block, live>>, held[t] = Null, pc'[t] # "delete",
               \A x \in Threads \ {t} : pc'[x] = pc[x] /\ held'[x] = held[x]
        PROVE  OrderInv'
    <2>1. CarriesStay(t, Null) /\ DeletersStay(t) /\ Carries(t, block[i])'
      BY <1>c DEF CarriesStay, Carries, DeletersStay
    <2>2. \A x \in Threads : pc[x] = "delete" => held[x] # block[i]
      BY <1>a
    <2>3. block[i] \in Blocks /\ block[i] \in live
      BY <1>c DEF NoDangling
    <2> QED  BY <1>0, <1>c, <2>1, <2>2, <2>3, AccessOrder
  <1>d. ASSUME UNCHANGED <<owner, block, live, know, pub>>, held[t] = Null, pc'[t] # "delete",
               \A x \in Threads \ {t} : pc'[x] = pc[x] /\ held'[x] = held[x]
        PROVE  OrderInv'
    <2>1. CarriesStay(t, Null) /\ DeletersStay(t)
      BY <1>d DEF CarriesStay, Carries, DeletersStay
    <2> QED  BY <1>d, <2>1, QuietOrder
  <1>7. ASSUME NEW i \in Instances, Read(t, i)
        PROVE  OrderInv'
    BY <1>c, <1>7 DEF Read, Idle, Usable, Owns, Goto, Control
  <1>8. ASSUME NEW i \in Instances, Unique(t, i)
        PROVE  OrderInv'
    BY <1>c, <1>d, <1>8 DEF Unique, Idle, Usable, Owns, Goto, Control, order
  <1>9. ASSUME NEW b \in Blocks, UniqueCopy(t, b)
        PROVE  OrderInv'
    <2>1. /\ Access(t, b) /\ live' = live \cup {b} /\ b \notin live
          /\ UNCHANGED <<owner, block>> /\ held[t] = Null /\ held'[t] = b
          /\ pc'[t] # "delete"
          /\ \A x \in Threads \ {t} : pc'[x] = pc[x] /\ held'[x] = held[x]
      BY <1>9 DEF UniqueCopy, Goto, Control
    <2>2. CarriesStay(t, Null) /\ Carries(t, b)' /\ DeletersStay(t)
      BY <1>0, <2>1 DEF CarriesStay, Carries, DeletersStay
    <2>3. \A x \in Threads : pc[x] = "delete" => held[x] # b
      BY <1>a, <2>1
    <2> QED  BY <1>0, <2>1, <2>2, <2>3, AccessOrder
  <1>10. ASSUME NEW v \in Values, Write(t, v)
         PROVE  OrderInv'
    <2>1. inst[t] \in Instances /\ block[inst[t]] # Null /\ owner[inst[t]] = t
      BY <1>10 DEF Write, Control, Engaged
    <2> QED  BY <1>c, <1>10, <2>1 DEF Write, Done, Goto, Control
  <1>11. CASE CopyAssignRelease(t) \/ UniqueRelease(t)
    <2>1. PICK next \in {"idle", "writing"}, k \in Instances \cup {Nobody} :
            Release(t, block[inst[t]], next, k)
      BY <1>11 DEF CopyAssignRelease, UniqueRelease
    <2>2. /\ inst[t] \in Instances /\ block[inst[t]] # Null /\ owner[inst[t]] = t
          /\ block' = [block EXCEPT ![inst[t]] = held[t]] /\ UNCHANGED <<owner, live>>
      BY <1>11 DEF CopyAssignRelease, UniqueRelease, Control, Engaged
    <2>3. \A x \in Threads \ {t} : held'[x] = held[x]
      BY <2>1, <2>2, ReleaseLands DEF Lands
    <2>4. CarriesStay(t, block[inst[t]])
      BY <1>0, <2>2, <2>3 DEF CarriesStay, Carries
    <2> QED  BY <1>b, <2>1, <2>2, <2>4
  <1>12. CASE Delete(t)
    <2>1. /\ held[t] \in live /\ live' = live \ {held[t]} /\ UNCHANGED <<owner, block>>
          /\ Forget(held[t]) /\ pc'[t] # "delete" /\ pc[t] = "delete"
          /\ \A x \in Threads \ {t} : pc'[x] = pc[x] /\ held'[x] = held[x]
      BY <1>12, <1>a DEF Delete, Done, Goto
    <2>2. /\ \A x \in Threads, u \in Threads, c \in Blocks :
               <<u, c>> \in know'[x] <=> <<u, c>> \in know[x] /\ c # held[t]
          /\ \A c \in Blocks \ {held[t]} : pub'[c] = pub[c]
          /\ pub'[held[t]] = {}
      BY <2>1 DEF Forget
    <2>3. Attributed' /\ Forgotten'
      BY <2>1, <2>2 DEF OrderInv, Attributed, Forgotten
    <2>4. \A x \in Threads, c \in Blocks \ {held[t]} : Carries(x, c) => Carries(x, c)'
      BY <2>1 DEF Carries
    <2>5. Carried'
      <3> SUFFICES ASSUME NEW u \in Threads, NEW c \in Blocks, <<u, c>> \in know'[u]
                   PROVE  \/ u \in pub'[c]
                          \/ \E x \in Threads : Carries(x, c)' /\ <<u, c>> \in know'[x]
        BY DEF Carried, Carries
      <3>1. <<u, c>> \in know[u] /\ c # held[t]
        BY <2>2
      <3>2. \/ u \in pub[c]
            \/ \E x \in Threads : Carries(x, c) /\ <<u, c>> \in know[x]
        BY <3>1 DEF OrderInv, Carried
      <3> QED  BY <2>2, <2>4, <3>1, <3>2
    <2>6. DeletionOrdered'
      <3> SUFFICES ASSUME NEW x \in Threads, pc'[x] = "delete",
                          NEW u \in Threads, <<u, held'[x]>> \in know'[u]
                   PROVE  <<u, held'[x]>> \in know'[x]
        BY DEF DeletionOrdered, KnowsAll
      <3>1. /\ x # t /\ pc[x] = "delete" /\ held'[x] = held[x]
            /\ held[x] \in Blocks
        BY <1>a, <2>1
      <3>2. <<u, held[x]>> \in know[u] /\ held[x] # held[t]
        BY <2>2, <3>1
      <3> QED  BY <2>2, <3>1, <3>2 DEF OrderInv, DeletionOrdered, KnowsAll
    <2> QED  BY <2>3, <2>5, <2>6 DEF OrderInv
  <1>13. CASE ReadEnd(t)
    BY <1>d, <1>13 DEF ReadEnd, Done, Goto, Control, order
  <1>14. ASSUME NEW w \in Threads, NEW i \in Instances, Handoff(t, w, i)
         PROVE  OrderInv'
    <2>1. /\ UNCHANGED <<block, live, pc, held, pub>> /\ owner[i] = t /\ t # w
          /\ held[t] = Null
          /\ owner' = [owner EXCEPT ![i] = w]
          /\ know' = [know EXCEPT ![w] = @ \cup know[t]]
      BY <1>14 DEF Handoff, Idle, Owns, Control
    <2>2. /\ \A x \in Threads \ {w} : know'[x] = know[x]
          /\ know'[w] = know[w] \cup know[t]
      BY <2>1
    <2>3. \A u \in Threads, c \in Blocks : <<u, c>> \in know'[u] <=> <<u, c>> \in know[u]
      BY <2>2 DEF OrderInv, Attributed
    <2>4. Attributed' /\ Forgotten'
      BY <2>1, <2>2, <2>3 DEF OrderInv, Attributed, Forgotten
    <2>5. Carried'
      <3> SUFFICES ASSUME NEW u \in Threads, NEW c \in Blocks, <<u, c>> \in know'[u]
                   PROVE  \/ u \in pub'[c]
                          \/ \E x \in Threads : Carries(x, c)' /\ <<u, c>> \in know'[x]
        BY DEF Carried, Carries
      <3>1. \/ u \in pub[c]
            \/ \E x \in Threads : Carries(x, c) /\ <<u, c>> \in know[x]
        BY <2>3 DEF OrderInv, Carried
      <3>2. ASSUME NEW x \in Threads, Carries(x, c), <<u, c>> \in know[x]
            PROVE  \E y \in Threads : Carries(y, c)' /\ <<u, c>> \in know'[y]
        <4>1. Carries(x, c)' \/ (x = t /\ Carries(w, c)')
          BY <2>1, <3>2 DEF Carries
        <4> QED  BY <2>2, <3>2, <4>1
      <3> QED  BY <2>1, <3>1, <3>2
    <2>6. DeletionOrdered'
      <3> SUFFICES ASSUME NEW x \in Threads, pc'[x] = "delete",
                          NEW u \in Threads, <<u, held'[x]>> \in know'[u]
                   PROVE  <<u, held'[x]>> \in know'[x]
        BY DEF DeletionOrdered, KnowsAll
      <3>1. pc[x] = "delete" /\ held'[x] = held[x] /\ held[x] \in Blocks
        BY <1>a, <2>1
      <3> QED  BY <2>2, <2>3, <3>1 DEF OrderInv, DeletionOrdered, KnowsAll
    <2> QED  BY <2>4, <2>5, <2>6 DEF OrderInv
  <1> QED  BY <1>1, <1>2, <1>3, <1>4, <1>5, <1>6, <1>7, <1>8, <1>9, <1>10, <1>11,
              <1>12, <1>13, <1>14 DEF Step

-----------------------------------------------------------------------------
\* "A mutation is never visible through another reference"
\* (CopyOnWriteBacked.h:42-44), for any number of threads, instances and values.
THEOREM Isolated == Spec => []ValueIsolation
  <1>1. Init => ValueInv
    BY NullAssumption DEF Init, ValueInv, ValueIsolation
  <1>2. MemoryInv /\ ValueInv /\ [Next]_vars => ValueInv'
    <2>1. ASSUME MemoryInv, ValueInv, NEW t \in Threads, Step(t) PROVE ValueInv'
      BY <2>1, ValueStep
    <2>2. ASSUME ValueInv, UNCHANGED vars PROVE ValueInv'
      BY <2>2 DEF vars, ValueInv, ValueIsolation
    <2> QED  BY <2>1, <2>2 DEF Next
  <1>3. ValueInv => ValueIsolation
    BY DEF ValueInv
  <1> QED  BY <1>1, <1>2, <1>3, MemoryInvariant, PTL DEF Spec

\* Every access to an element, by whatever thread, happens before the element is
\* deleted: the order of release() suffices (CopyOnWriteBacked.h:76).
THEOREM DeletesInOrder == Spec => []DeletionOrdered
  <1>1. Init => OrderInv
    BY DEF Init, OrderInv, Attributed, Forgotten, Carried, DeletionOrdered
  <1>2. MemoryInv /\ OrderInv /\ [Next]_vars => OrderInv'
    <2>1. ASSUME MemoryInv, OrderInv, NEW t \in Threads, Step(t) PROVE OrderInv'
      BY <2>1, OrderStep
    <2>2. ASSUME OrderInv, UNCHANGED vars PROVE OrderInv'
      BY <2>2 DEF vars, OrderInv, Attributed, Forgotten, Carried, Carries,
        DeletionOrdered, KnowsAll
    <2> QED  BY <2>1, <2>2 DEF Next
  <1>3. OrderInv => DeletionOrdered
    BY DEF OrderInv
  <1> QED  BY <1>1, <1>2, <1>3, MemoryInvariant, PTL DEF Spec
=============================================================================
