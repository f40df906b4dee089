-------------------------------- MODULE Heap --------------------------------
(***************************************************************************)
(* The binary heap of DataStructures/Heap.h, over a vector.  Indexes count  *)
(* from 0 as in the code; At reads the vector.  The loops are recursive     *)
(* functions of the vector and the loop's index.                            *)
(*                                                                          *)
(* contents and popped record what a priority queue should hold and what    *)
(* pop returned.                                                            *)
(***************************************************************************)
EXTENDS Integers, Sequences, FiniteSets

CONSTANTS
    Elements,  \* integers to store
    MaxSize    \* bound: elements in the heap

ASSUME ElementsAssumption == Elements \subseteq Int /\ MaxSize \in Nat

VARIABLES
    type,      \* HeapType
    storage,
    contents,  \* history: per element, how often it was put in and not popped
    popped     \* what the last pop returned, as a sequence of length 0 or 1

heapVars == <<type, storage, contents, popped>>

Vectors == UNION {[1..n -> Elements] : n \in 0..MaxSize}
Nothing == [e \in Elements |-> 0]

CountOf(s) == [e \in Elements |-> Cardinality({i \in 1..Len(s) : s[i] = e})]

At(s, idx)       == s[idx + 1]
parentIndex(idx) == (idx - 1) \div 2
leftIndex(idx)   == 2 * idx + 1
rightIndex(idx)  == 2 * idx + 2

\* Whether element a goes above element b.
Above(a, b) == IF type = "min" THEN a < b ELSE a > b

comparator(s, lhs, rhs) == Above(At(s, lhs), At(s, rhs))

-----------------------------------------------------------------------------
(***************************************************************************)
(* Faulty variants, each a slip one could make in the header.               *)
(***************************************************************************)
FaultySwap(s, lhs, rhs) ==                \* an assignment instead of a swap
    [s EXCEPT ![lhs + 1] = At(s, rhs)]

FaultyRemoved(s) ==                       \* the last element is not sifted
    LET last == Len(s) - 1 IN
    [s EXCEPT ![1] = At(s, last), ![last + 1] = At(s, 0)]

-----------------------------------------------------------------------------
swap(s, lhs, rhs) == [s EXCEPT ![lhs + 1] = At(s, rhs), ![rhs + 1] = At(s, lhs)]

\* One round of heapify: the child that idx is swapped with, or idx itself.
Child(s, idx, size) ==
    LET left  == leftIndex(idx)
        right == rightIndex(idx)
        next  == IF comparator(s, left, idx) THEN left ELSE idx
    IN  IF right < size /\ comparator(s, right, next) THEN right ELSE next

\* What a loop works on: a vector of the length of s, and an index up to n.
LoopStates(s, n) == [1..Len(s) -> Elements] \X (0..n)

heapify(s, idx, size) ==
    LET down[p \in LoopStates(s, Len(s) - 1)] ==
          LET v == p[1]  i == p[2] IN
          IF leftIndex(i) >= size \/ Child(v, i, size) = i THEN v
          ELSE down[<<swap(v, i, Child(v, i, size)), Child(v, i, size)>>]
    IN  down[<<s, idx>>]

siftUp(s, idx) ==
    LET up[p \in LoopStates(s, Len(s) - 1)] ==
          LET v == p[1]  i == p[2] IN
          IF i <= 0 \/ ~comparator(v, i, parentIndex(i)) THEN v
          ELSE up[<<swap(v, i, parentIndex(i)), parentIndex(i)>>]
    IN  up[<<s, idx>>]

\* build: heapify from the last parent down to the root.
build(s) ==
    LET from[p \in LoopStates(s, Len(s))] ==      \* the rounds for p[2] - 1 .. 0
          LET v == p[1]  k == p[2] IN
          IF k = 0 THEN v ELSE from[<<heapify(v, k - 1, Len(s)), k - 1>>]
    IN  from[<<s, Len(s) \div 2>>]

\* pop, before the last element is taken off.
Removed(s) ==
    LET last == Len(s) - 1 IN
    IF last > 0 THEN heapify(swap(s, 0, last), 0, last) ELSE s

\* The constructors; the one without a list is that of the empty list.
HeapInit ==
    /\ type \in {"max", "min"}
    /\ \E list \in Vectors : storage = build(list) /\ contents = CountOf(list)
    /\ popped = <<>>

push(value) ==
    /\ Len(storage) < MaxSize
    /\ storage' = siftUp(Append(storage, value), Len(storage))
    /\ contents' = [contents EXCEPT ![value] = @ + 1]
    /\ popped' = <<>>
    /\ UNCHANGED type

\* An empty heap returns nullopt.
pop ==
    /\ \/ /\ storage = <<>>
          /\ popped' = <<>>
          /\ UNCHANGED <<storage, contents>>
       \/ /\ storage # <<>>
          /\ LET s == Removed(storage)  value == s[Len(s)] IN
               /\ storage' = SubSeq(s, 1, Len(s) - 1)
               /\ popped' = <<value>>
               /\ contents' = [contents EXCEPT ![value] = @ - 1]
    /\ UNCHANGED type

clear ==
    /\ storage' = <<>>
    /\ contents' = Nothing
    /\ popped' = <<>>
    /\ UNCHANGED type

HeapNext ==
    \/ \E value \in Elements : push(value)
    \/ pop
    \/ clear

HeapSpec == HeapInit /\ [][HeapNext]_heapVars

-----------------------------------------------------------------------------
(***************************************************************************)
(* Properties                                                               *)
(***************************************************************************)
\* No operation loses, duplicates or invents an element (Heap.h:114-217).
SameContents == contents = CountOf(storage)

\* pop returns what top showed, which is an extreme of everything that is in the
\* heap, and nullopt only if nothing is, after any sequence of builds, pushes and
\* pops, ties included (Heap.h:49-51, 105-110, 202-217).
PopsExtreme ==
    [][pop => IF contents = Nothing THEN storage = <<>> /\ popped' = <<>>
              ELSE /\ popped' = <<storage[1]>>
                   /\ contents[storage[1]] > 0
                   /\ \A e \in Elements :
                        contents[e] > 0 => ~Above(e, storage[1])]_heapVars
=============================================================================
