-------------------------- MODULE StandaloneProofs --------------------------
(***************************************************************************)
(* The machine context, for any progress of the target, and the heap, for   *)
(* every set of elements and every size.                                    *)
(***************************************************************************)
EXTENDS Heap, MachineContext, WellFoundedInduction, FunctionTheorems,
        FiniteSetTheorems, SequenceTheorems, TLAPS

-----------------------------------------------------------------------------
(***************************************************************************)
(* The machine context.  The two parts are read in this order after the     *)
(* call began, and a call that returned true has read both.                 *)
(***************************************************************************)
MachineType ==
    /\ arch \in Archs /\ moment \in Nat /\ began \in Nat
    /\ target \in {"running", "suspended", "gone"} /\ step \in {"idle", "ss", "es"}
    /\ context \in [ss : Nat, es : Nat]

ReadInOrder ==
    /\ began <= moment /\ context.ss <= moment /\ context.es <= moment
    /\ step = "es" => began <= context.ss

ReturnedBoth ==
    /\ step # "idle" => ~result
    /\ result => began <= context.ss /\ context.ss <= context.es

MachineInv == MachineType /\ ReadInOrder /\ ReturnedBoth

LEMMA MachineInvHolds == MachineSpec => []MachineInv
  <1>1. MachineInit => MachineInv
    <2> SUFFICES ASSUME MachineInit PROVE MachineInv
      OBVIOUS
    <2>1. MachineType /\ ReadInOrder
      BY DEF MachineInit, MachineType, ReadInOrder, Archs
    <2>2. ReturnedBoth
      BY Zenon DEF MachineInit, ReturnedBoth
    <2> QED  BY <2>1, <2>2 DEF MachineInv
  <1>2. MachineInv /\ [MachineNext]_machineVars => MachineInv'
    <2> SUFFICES ASSUME MachineInv, [MachineNext]_machineVars PROVE MachineInv'
      OBVIOUS
    <2> USE DEF MachineInv
    <2>1. ASSUME NEW hasContext \in BOOLEAN, NPMachineContextGet(hasContext) PROVE MachineInv'
      <3>1. MachineType' /\ ReadInOrder'
        BY <2>1 DEF NPMachineContextGet, MachineType, ReadInOrder
      <3>2. ReturnedBoth'
        BY <2>1, Zenon DEF NPMachineContextGet, ReturnedBoth
      <3> QED  BY <3>1, <3>2
    <2>2. ASSUME GetThreadState PROVE MachineInv'
      <3>1. MachineType' /\ ReadInOrder'
        BY <2>2 DEF GetThreadState, setState, MachineType, ReadInOrder
      <3>2. ~result' /\ step = "ss"
        BY <2>2, Zenon DEF GetThreadState, ReturnedBoth
      <3> QED  BY <3>1, <3>2, Zenon DEF ReturnedBoth
    <2>3. ASSUME GetExceptionState PROVE MachineInv'
      <3>1. CASE setState("es") /\ result' = TRUE
        <4>1. MachineType' /\ ReadInOrder' /\ began' <= context'.ss /\ context'.ss <= context'.es
          BY <2>3, <3>1 DEF GetExceptionState, setState, MachineType, ReadInOrder
        <4>2. step' = "idle"
          BY <2>3 DEF GetExceptionState
        <4> QED  BY <4>1, <4>2, Zenon DEF ReturnedBoth
      <3>2. CASE UNCHANGED <<context, result>>
        <4>1. MachineType' /\ ReadInOrder'
          BY <2>3, <3>2 DEF GetExceptionState, MachineType, ReadInOrder
        <4>2. ~result' /\ step' = "idle"
          BY <2>3, <3>2, Zenon DEF GetExceptionState, ReturnedBoth
        <4> QED  BY <4>1, <4>2, Zenon DEF ReturnedBoth
      <3> QED  BY <2>3, <3>1, <3>2 DEF GetExceptionState
    <2>4. ASSUME TargetRuns PROVE MachineInv'
      <3>1. MachineType' /\ ReadInOrder'
        BY <2>4 DEF TargetRuns, MachineType, ReadInOrder
      <3>2. ReturnedBoth'
        BY <2>4, Zenon DEF TargetRuns, ReturnedBoth
      <3> QED  BY <3>1, <3>2
    <2>5. ASSUME TargetEnds PROVE MachineInv'
      BY <2>5 DEF TargetEnds, MachineType, ReadInOrder, ReturnedBoth
    <2>6. ASSUME Toggle PROVE MachineInv'
      BY <2>6 DEF Toggle, MachineType, ReadInOrder, ReturnedBoth
    <2>7. ASSUME UNCHANGED machineVars PROVE MachineInv'
      BY <2>7 DEF machineVars, MachineType, ReadInOrder, ReturnedBoth
    <2> QED  BY <2>1, <2>2, <2>3, <2>4, <2>5, <2>6, <2>7 DEF MachineNext
  <1> QED  BY <1>1, <1>2, PTL DEF MachineSpec

\* After a call that returned true, the accessors read three different registers
\* of one moment of the call, on every architecture, however far the target runs
\* and wherever it ends (MachineContext.c:33-116).
THEOREM SnapshotCorrect == MachineSpec => []SnapshotWithinCall
  <1>1. MachineInv => SnapshotWithinCall
    <2> SUFFICES ASSUME MachineInv, step = "idle", result PROVE SnapshotWithinCall
      BY DEF SnapshotWithinCall
    <2>1. /\ began <= context.ss /\ context.ss <= context.es /\ context.es <= moment
          /\ arch \in Archs
      BY DEF MachineInv, MachineType, ReadInOrder, ReturnedBoth
    <2> DEFINE fp == NPMachineContextGetFramePointer
               sp == NPMachineContextGetStackPointer
               pc == NPMachineContextGetInstructionAddress
               lr == NPMachineContextGetLinkRegister
    <2>2. /\ fp.at = context.ss /\ sp.at = context.ss /\ pc.at = context.ss
          /\ fp.of # sp.of /\ sp.of # pc.of /\ pc.of # fp.of
          /\ lr.of = "zero" \/ (lr.at = context.ss /\ lr.of \notin {fp.of, sp.of, pc.of})
      BY <2>1 DEF Archs, Register, NPMachineContextGetFramePointer,
                  NPMachineContextGetStackPointer, NPMachineContextGetInstructionAddress,
                  NPMachineContextGetLinkRegister
    <2> HIDE DEF fp, sp, pc, lr
    <2>3. Frame = {fp, sp, pc}
      BY DEF Frame, fp, sp, pc
    <2>4. /\ \A r \in Frame : began <= r.at /\ r.at <= context.es
          /\ \A r, s \in Frame : r.at = s.at
      BY <2>1, <2>2, <2>3
    <2>5. \E r, s, u \in Frame : r.of # s.of /\ s.of # u.of /\ u.of # r.of
      BY <2>2, <2>3
    <2>6. lr.of = "zero" \/ (lr.at = context.ss /\ lr \notin Frame)
      BY <2>2, <2>3
    <2> QED  BY <2>1, <2>4, <2>5, <2>6 DEF SnapshotWithinCall, lr
  <1> QED  BY <1>1, MachineInvHolds, PTL

-----------------------------------------------------------------------------
(***************************************************************************)
(* Loops.  A loop whose measure goes down defines a function, and what it   *)
(* computes is shown by induction on the measure.                           *)
(***************************************************************************)
\* Of the numbers in a set, one is the least.
LEMMA LeastIndex ==
  ASSUME NEW S, S \subseteq Nat, S # {}
  PROVE  \E m \in S : \A k \in S : m <= k
  <1> DEFINE R == {p \in Nat \X Nat : p[1] < p[2]}
  <1>1. IsWellFoundedOn(R, Nat)
    <2>1. R \cap (Nat \X Nat) \subseteq OpToRel(<, Nat)
      BY DEF OpToRel
    <2> QED  BY <2>1, NatLessThanWellFounded, IsWellFoundedOnSubrelation
  <1>2. PICK x \in S : \A y \in S : ~(<<y, x>> \in R)
    <2> HIDE DEF R
    <2> QED  BY <1>1, WFMin
  <1>3. ASSUME NEW y \in S PROVE x <= y
    <2>1. x \in Nat /\ y \in Nat /\ <<y, x>> \notin R
      BY <1>2
    <2>2. y < x => <<y, x>> \in R
      BY <2>1
    <2> QED  BY <2>1, <2>2
  <1> QED  BY <1>2, <1>3

\* Induction on a measure: what holds of a state if it holds of the lower ones
\* holds of all.
LEMMA MeasureInduction ==
  ASSUME NEW D, NEW m \in [D -> Nat], NEW S,
         \A p \in D : (\A q \in D : m[q] < m[p] => q \in S) => p \in S
  PROVE  D \subseteq S
  <1> DEFINE Bad == {k \in Nat : \E p \in D : p \notin S /\ m[p] = k}
  <1> SUFFICES ASSUME NEW p \in D, p \notin S PROVE FALSE
    OBVIOUS
  <1>1. m[p] \in Bad
    OBVIOUS
  <1>2. PICK k \in Bad : \A j \in Bad : k <= j
    BY <1>1, LeastIndex
  <1>3. PICK r \in D : r \notin S /\ m[r] = k
    BY <1>2
  <1>4. ASSUME NEW q \in D, m[q] < m[r] PROVE q \in S
    <2>1. m[q] \in Nat /\ m[r] \in Nat
      OBVIOUS
    <2>2. m[q] \notin Bad
      BY <1>2, <1>3, <1>4, <2>1
    <2> QED  BY <2>1, <2>2
  <1> QED  BY <1>3, <1>4

\* One step of a loop: it is done, or goes on from the next state.
Round(f, Done, next, outcome, p) == IF p \in Done THEN outcome[p] ELSE f[next[p]]

\* Function f is what the loop computes on its states.
Computes(f, D, Done, next, outcome) == f = [p \in D |-> Round(f, Done, next, outcome, p)]

\* Such a loop ends, so there is a function that it computes.
LEMMA LoopEnds ==
  ASSUME NEW D, NEW Done, NEW next \in [D -> D], NEW outcome,
         NEW bound \in Nat, NEW m \in [D -> 0..bound],
         \A p \in D : p \notin Done => m[next[p]] < m[p]
  PROVE  \E f : Computes(f, D, Done, next, outcome)
  <1> DEFINE Low(k) == {p \in D : m[p] < k}
             Good(k, f) == f = [p \in Low(k) |-> Round(f, Done, next, outcome, p)]
             Bad == {k \in Nat : ~ \E f : Good(k, f)}
  <1>1. Bad = {}
    <2> SUFFICES ASSUME Bad # {} PROVE FALSE
      OBVIOUS
    <2>1. PICK k \in Bad : \A j \in Bad : k <= j
      BY LeastIndex
    <2>2. k \in Nat /\ ~ \E f : Good(k, f)
      OBVIOUS
    <2>3. CASE k = 0
      <3> DEFINE g == [p \in Low(0) |-> 0]
      <3>1. ASSUME NEW p \in Low(0) PROVE 0 = Round(g, Done, next, outcome, p)
        OBVIOUS
      <3>2. Good(0, g)
        <4>1. g = [p \in Low(0) |-> 0]
          OBVIOUS
        <4> HIDE DEF g, Low
        <4> QED  BY <3>1, <4>1, Zenon
      <3> HIDE DEF g
      <3> QED  BY <2>2, <2>3, <3>2
    <2>4. CASE k # 0
      <3>1. k - 1 \in Nat /\ k - 1 \notin Bad
        <4> HIDE DEF Bad
        <4> QED  BY <2>1, <2>2, <2>4
      <3>2. PICK f : Good(k - 1, f)
        BY <3>1
      <3> DEFINE g == [p \in Low(k) |-> Round(f, Done, next, outcome, p)]
      <3>3. ASSUME NEW p \in Low(k), p \notin Done
            PROVE  next[p] \in Low(k - 1) /\ next[p] \in Low(k)
        BY <2>2, <3>3
      <3>4. ASSUME NEW p \in Low(k - 1) PROVE p \in Low(k) /\ g[p] = f[p]
        <4>1. p \in Low(k)
          BY <2>2
        <4>2. f[p] = Round(f, Done, next, outcome, p)
          BY <3>2, Zenon
        <4> QED  BY <4>1, <4>2
      <3>5. ASSUME NEW p \in Low(k)
            PROVE  Round(g, Done, next, outcome, p) = Round(f, Done, next, outcome, p)
        <4> HIDE DEF g, Low
        <4> QED  BY <3>3, <3>4 DEF Round
      <3>6. Good(k, g)
        <4>1. g = [p \in Low(k) |-> Round(f, Done, next, outcome, p)]
          OBVIOUS
        <4> HIDE DEF g, Low
        <4> QED  BY <3>5, <4>1, Zenon
      <3> HIDE DEF g
      <3> QED  BY <2>2, <3>6
    <2> QED  BY <2>3, <2>4
  <1>2. PICK f : Good(bound + 1, f)
    <2>1. bound + 1 \in Nat
      OBVIOUS
    <2>2. bound + 1 \notin Bad
      BY <1>1, Zenon
    <2> QED  BY <2>1, <2>2, Zenon
  <1>3. Low(bound + 1) = D
    OBVIOUS
  <1> HIDE DEF Low
  <1> QED  BY <1>2, <1>3, Zenon DEF Computes

-----------------------------------------------------------------------------
(***************************************************************************)
(* Vectors, their order and their elements.                                 *)
(***************************************************************************)
Vecs(n) == [1..n -> Elements]

\* Element a may stand above element b.
Tops(a, b) == ~Above(b, a)

IsChild(j, i) == j = leftIndex(i) \/ j = rightIndex(i)

LEMMA TopsOrder ==
  ASSUME NEW a \in Elements, NEW b \in Elements, NEW c \in Elements
  PROVE  /\ Tops(a, a)
         /\ Tops(a, b) /\ Tops(b, c) => Tops(a, c)
         /\ Above(a, b) => Tops(a, b)
  <1>1. a \in Int /\ b \in Int /\ c \in Int
    BY ElementsAssumption
  <1> QED  BY <1>1 DEF Tops, Above

LEMMA VecLen ==
  ASSUME NEW n \in Nat, NEW v \in Vecs(n)
  PROVE  v \in Seq(Elements) /\ Len(v) = n
  BY DEF Vecs

LEMMA AtElement ==
  ASSUME NEW n \in Nat, NEW v \in Vecs(n), NEW i \in 0..(n - 1)
  PROVE  At(v, i) \in Elements
  <1>1. i + 1 \in 1..n
    OBVIOUS
  <1> QED  BY <1>1 DEF At, Vecs

LEMMA SwapFacts ==
  ASSUME NEW n \in Nat, NEW v \in Vecs(n), NEW i \in 0..(n - 1), NEW j \in 0..(n - 1), i # j
  PROVE  /\ swap(v, i, j) \in Vecs(n)
         /\ At(swap(v, i, j), i) = At(v, j) /\ At(swap(v, i, j), j) = At(v, i)
         /\ \A k \in 0..(n - 1) : k # i /\ k # j => At(swap(v, i, j), k) = At(v, k)
  <1>1. i + 1 \in 1..n /\ j + 1 \in 1..n /\ i + 1 # j + 1
    OBVIOUS
  <1>2. At(v, i) \in Elements /\ At(v, j) \in Elements
    BY AtElement
  <1>3. ASSUME NEW k \in 0..(n - 1), k # i, k # j
        PROVE  At(swap(v, i, j), k) = At(v, k)
    <2>1. k + 1 \in 1..n /\ k + 1 # i + 1 /\ k + 1 # j + 1
      BY <1>3
    <2> QED  BY <2>1 DEF At, swap, Vecs
  <1>4. swap(v, i, j) \in Vecs(n)
    BY <1>1, <1>2 DEF swap, Vecs
  <1>5. At(swap(v, i, j), i) = At(v, j) /\ At(swap(v, i, j), j) = At(v, i)
    BY <1>1 DEF At, swap, Vecs
  <1> QED  BY <1>3, <1>4, <1>5

LEMMA ChildFacts ==
  ASSUME NEW i \in Nat, NEW j \in Nat, IsChild(j, i)
  PROVE  /\ i < j /\ \A k \in Nat : IsChild(j, k) => k = i
         /\ i = parentIndex(j)
  <1>1. j = 2 * i + 1 \/ j = 2 * i + 2
    BY DEF IsChild, leftIndex, rightIndex
  <1>2. i < j
    BY <1>1
  <1>3. ASSUME NEW k \in Nat, IsChild(j, k) PROVE k = i
    <2>1. j = 2 * k + 1 \/ j = 2 * k + 2
      BY <1>3 DEF IsChild, leftIndex, rightIndex
    <2> QED  BY <1>1, <2>1
  <1>4. i = parentIndex(j)
    BY <1>1 DEF parentIndex
  <1> QED  BY <1>2, <1>3, <1>4

LEMMA ParentFacts ==
  ASSUME NEW j \in Nat, j > 0
  PROVE  parentIndex(j) \in Nat /\ IsChild(j, parentIndex(j)) /\ parentIndex(j) < j
  <1> DEFINE p == parentIndex(j)
  <1>1. p \in Nat /\ (j = 2 * p + 1 \/ j = 2 * p + 2)
    BY DEF parentIndex
  <1> HIDE DEF p
  <1>2. p < j
    BY <1>1
  <1>3. IsChild(j, p)
    BY <1>1 DEF IsChild, leftIndex, rightIndex
  <1> QED  BY <1>1, <1>2, <1>3 DEF p

\* swap moves elements, and nothing else.
LEMMA SwapCounts ==
  ASSUME NEW n \in Nat, NEW v \in Vecs(n), NEW i \in 0..(n - 1), NEW j \in 0..(n - 1), i # j
  PROVE  CountOf(swap(v, i, j)) = CountOf(v)
  <1> DEFINE w == swap(v, i, j)
  <1>1. /\ w \in Vecs(n) /\ At(w, i) = At(v, j) /\ At(w, j) = At(v, i)
        /\ \A k \in 0..(n - 1) : k # i /\ k # j => At(w, k) = At(v, k)
    BY SwapFacts
  <1> HIDE DEF w
  <1>2. Len(v) = n /\ Len(w) = n
    BY <1>1, VecLen
  <1> DEFINE x == i + 1
             y == j + 1
  <1>3. /\ x \in 1..n /\ y \in 1..n /\ x # y
        /\ w[x] = v[y] /\ w[y] = v[x]
        /\ \A k \in 1..n : k # x /\ k # y => w[k] = v[k]
    <2>1. x \in 1..n /\ y \in 1..n /\ x # y /\ w[x] = v[y] /\ w[y] = v[x]
      BY <1>1 DEF At
    <2>2. ASSUME NEW k \in 1..n, k # x, k # y PROVE w[k] = v[k]
      <3>1. k - 1 \in 0..(n - 1) /\ k - 1 # i /\ k - 1 # j /\ (k - 1) + 1 = k
        BY <2>2
      <3>2. w[(k - 1) + 1] = v[(k - 1) + 1]
        BY <1>1, <3>1 DEF At
      <3> QED  BY <3>1, <3>2
    <2> QED  BY <2>1, <2>2
  <1> HIDE DEF x, y
  <1>4. ASSUME NEW e \in Elements
        PROVE  Cardinality({k \in 1..n : w[k] = e}) = Cardinality({k \in 1..n : v[k] = e})
    <2> DEFINE S == {k \in 1..n : v[k] = e}
               T == {k \in 1..n : w[k] = e}
               f == [k \in S |-> IF k = x THEN y ELSE IF k = y THEN x ELSE k]
    <2>1. f \in [S -> T]
      BY <1>3
    <2>2. \A k, l \in S : f[k] = f[l] => k = l
      OBVIOUS
    <2>3. ASSUME NEW t \in T PROVE \E k \in S : f[k] = t
      <3> DEFINE k == IF t = x THEN y ELSE IF t = y THEN x ELSE t
      <3>1. k \in S /\ f[k] = t
        BY <1>3
      <3> QED  BY <3>1
    <2>4. f \in Bijection(S, T)
      <3> HIDE DEF f, S, T
      <3> QED  BY <2>1, <2>2, <2>3, Fun_IsBij
    <2>5. IsFiniteSet(S)
      <3>1. IsFiniteSet(1..n)
        BY FS_Interval
      <3> QED  BY <3>1, FS_Subset
    <2>6. ExistsBijection(S, T)
      <3> HIDE DEF f, S, T
      <3> QED  BY <2>4, Fun_ExistsBij
    <2> QED  BY <2>5, <2>6, FS_Bijection
  <1>5. CountOf(w) = CountOf(v)
    BY <1>2, <1>4 DEF CountOf
  <1> QED  BY <1>5 DEF w

-----------------------------------------------------------------------------
(***************************************************************************)
(* heapify.  Element x of a part of the vector may be too low for its       *)
(* children, but not its children for its parent.                           *)
(***************************************************************************)
\* From lo on and below size, parents other than x top their children.
Ordered(v, lo, size, x) ==
    \A i, j \in 0..(size - 1) : lo <= i /\ i # x /\ IsChild(j, i) => Tops(At(v, i), At(v, j))

\* The parent of x tops the children of x.
Bridged(v, lo, size, x) ==
    \A i, j \in 0..(size - 1) :
        lo <= i /\ IsChild(x, i) /\ IsChild(j, x) => Tops(At(v, i), At(v, j))

\* The child that goes up tops its parent and its sibling.
LEMMA ChildTops ==
  ASSUME NEW n \in Nat, NEW v \in Vecs(n), NEW size \in 0..n, NEW i \in 0..(n - 1),
         leftIndex(i) < size
  PROVE  /\ Child(v, i, size) \in 0..(size - 1)
         /\ Child(v, i, size) = i \/ IsChild(Child(v, i, size), i)
         /\ Child(v, i, size) # i => Above(At(v, Child(v, i, size)), At(v, i))
         /\ \A j \in 0..(size - 1) :
              IsChild(j, i) => Tops(At(v, Child(v, i, size)), At(v, j))
  <1> DEFINE left == leftIndex(i)
             right == rightIndex(i)
             next == IF comparator(v, left, i) THEN left ELSE i
             c == Child(v, i, size)
  <1>1. /\ left \in 0..(size - 1) /\ i \in 0..(size - 1) /\ right \in Nat
        /\ left # i /\ right # i /\ left # right
        /\ left \in 0..(n - 1) /\ (right < size => right \in 0..(n - 1) /\ right \in 0..(size - 1))
    BY DEF leftIndex, rightIndex
  <1>2. c = IF right < size /\ comparator(v, right, next) THEN right ELSE next
    BY DEF Child
  <1>3. \A j \in 0..(size - 1) : IsChild(j, i) <=> j = left \/ j = right
    BY DEF IsChild
  <1> HIDE DEF c, left, right
  <1>4. At(v, i) \in Elements /\ At(v, left) \in Elements
        /\ (right < size => At(v, right) \in Elements)
    BY <1>1, AtElement
  <1>5. /\ next \in {left, i}
        /\ next = left => Above(At(v, left), At(v, i))
        /\ next = i => Tops(At(v, i), At(v, left))
        /\ Tops(At(v, next), At(v, left)) /\ Tops(At(v, next), At(v, i))
        /\ At(v, next) \in Elements
    <2>1. CASE comparator(v, left, i)
      BY <1>1, <1>4, <2>1, TopsOrder DEF comparator
    <2>2. CASE ~comparator(v, left, i)
      BY <1>1, <1>4, <2>2, TopsOrder DEF comparator, Tops
    <2> QED  BY <2>1, <2>2
  <1> HIDE DEF next
  <1>6. CASE right < size /\ comparator(v, right, next)
    <2>1. c = right /\ Above(At(v, right), At(v, next))
      BY <1>2, <1>6 DEF comparator
    <2>2. Tops(At(v, right), At(v, next))
      BY <1>4, <1>5, <1>6, <2>1, TopsOrder
    <2>3. Tops(At(v, right), At(v, left)) /\ Tops(At(v, right), At(v, right))
      BY <1>4, <1>5, <1>6, <2>2, TopsOrder
    <2>4. Above(At(v, right), At(v, i))
      <3>1. At(v, right) \in Int /\ At(v, next) \in Int /\ At(v, i) \in Int
        BY <1>4, <1>5, <1>6, ElementsAssumption
      <3> QED  BY <1>5, <2>1, <3>1 DEF Tops, Above
    <2>5. c \in 0..(size - 1) /\ IsChild(c, i)
      BY <1>1, <1>6, <2>1 DEF IsChild, right
    <2> QED  BY <1>3, <2>1, <2>3, <2>4, <2>5 DEF c
  <1>7. CASE ~(right < size /\ comparator(v, right, next))
    <2>1. c = next
      BY <1>2, <1>7
    <2>2. c \in 0..(size - 1) /\ (c = i \/ IsChild(c, i))
      BY <1>1, <1>5, <2>1 DEF IsChild, left
    <2>3. c # i => Above(At(v, c), At(v, i))
      BY <1>5, <2>1
    <2>4. right < size => Tops(At(v, next), At(v, right))
      BY <1>7 DEF comparator, Tops
    <2>5. ASSUME NEW j \in 0..(size - 1), IsChild(j, i) PROVE Tops(At(v, c), At(v, j))
      <3>1. j = left \/ (j = right /\ right < size)
        BY <1>1, <1>3, <2>5
      <3> QED  BY <1>5, <2>1, <2>4, <3>1
    <2> QED  BY <2>2, <2>3, <2>5 DEF c
  <1> QED  BY <1>6, <1>7

\* One round: the gap moves down.
LEMMA RoundDown ==
  ASSUME NEW n \in Nat, NEW v \in Vecs(n), NEW size \in 0..n, NEW lo \in Nat,
         NEW i \in 0..(n - 1), lo <= i, NEW c \in 0..(size - 1), IsChild(c, i),
         Above(At(v, c), At(v, i)),
         \A j \in 0..(size - 1) : IsChild(j, i) => Tops(At(v, c), At(v, j)),
         Ordered(v, lo, size, i), Bridged(v, lo, size, i)
  PROVE  Ordered(swap(v, i, c), lo, size, c) /\ Bridged(swap(v, i, c), lo, size, c)
  <1> DEFINE w == swap(v, i, c)
  <1>1. i \in Nat /\ c \in Nat /\ i < c /\ c \in 0..(n - 1) /\ i \in 0..(size - 1) /\ i # c
        /\ lo <= c
    BY ChildFacts
  <1>2. /\ At(w, i) = At(v, c) /\ At(w, c) = At(v, i)
        /\ \A k \in 0..(n - 1) : k # i /\ k # c => At(w, k) = At(v, k)
    BY <1>1, SwapFacts
  <1>3. 0..(size - 1) \subseteq 0..(n - 1) /\ 0..(size - 1) \subseteq Nat
    OBVIOUS
  <1> HIDE DEF w
  <1>4. \A k \in 0..(size - 1) : At(v, k) \in Elements
    BY <1>3, AtElement
  <1>5. ASSUME NEW a \in 0..(size - 1), NEW b \in 0..(size - 1), lo <= a, a # c, IsChild(b, a)
        PROVE  Tops(At(w, a), At(w, b))
    <2>1. CASE a = i
      <3>1. CASE b = c
        BY <1>1, <1>2, <1>4, <2>1, <3>1, TopsOrder
      <3>2. CASE b # c
        <4>1. b # i
          BY <1>3, <1>5, <2>1, ChildFacts
        <4>2. At(w, b) = At(v, b)
          BY <1>2, <1>3, <3>2, <4>1
        <4> QED  BY <1>2, <1>5, <2>1, <4>2
      <3> QED  BY <3>1, <3>2
    <2>2. CASE a # i
      <3>1. At(w, a) = At(v, a)
        BY <1>2, <1>3, <1>5, <2>2
      <3>2. b # c
        BY <1>1, <1>3, <1>5, <2>2, ChildFacts
      <3>3. CASE b = i
        <4>1. Tops(At(v, a), At(v, c))
          BY <1>5, <3>3 DEF Bridged
        <4> QED  BY <1>2, <3>1, <3>3, <4>1
      <3>4. CASE b # i
        <4>1. At(w, b) = At(v, b)
          BY <1>2, <1>3, <3>2, <3>4
        <4>2. Tops(At(v, a), At(v, b))
          BY <1>5, <2>2 DEF Ordered
        <4> QED  BY <3>1, <4>1, <4>2
      <3> QED  BY <3>3, <3>4
    <2> QED  BY <2>1, <2>2
  <1>6. ASSUME NEW a \in 0..(size - 1), NEW b \in 0..(size - 1), lo <= a,
               IsChild(c, a), IsChild(b, c)
        PROVE  Tops(At(w, a), At(w, b))
    <2>1. a = i
      BY <1>1, <1>3, <1>6, ChildFacts
    <2>2. c < b /\ b # c /\ b # i
      BY <1>1, <1>3, <1>6, ChildFacts
    <2>3. At(w, b) = At(v, b)
      BY <1>2, <1>3, <2>2
    <2>4. Tops(At(v, c), At(v, b))
      BY <1>1, <1>6 DEF Ordered
    <2> QED  BY <1>2, <2>1, <2>3, <2>4
  <1> QED  BY <1>5, <1>6 DEF Ordered, Bridged, w

\* The loop as a function of its states.
Down(n, size) ==
    CHOOSE f : f = [p \in Vecs(n) \X (0..(n - 1)) |->
        IF leftIndex(p[2]) >= size \/ Child(p[1], p[2], size) = p[2] THEN p[1]
        ELSE f[<<swap(p[1], p[2], Child(p[1], p[2], size)), Child(p[1], p[2], size)>>]]

LEMMA HeapifyIsDown ==
  ASSUME NEW n \in Nat, NEW v \in Vecs(n), NEW i, NEW size
  PROVE  heapify(v, i, size) = Down(n, size)[<<v, i>>]
  <1>1. Len(v) = n
    BY VecLen
  <1> QED  BY <1>1 DEF heapify, Down, LoopStates, Vecs

LEMMA DownExists ==
  ASSUME NEW n \in Nat, NEW size \in 0..n
  PROVE  \A p \in Vecs(n) \X (0..(n - 1)) :
           Down(n, size)[p] =
             IF leftIndex(p[2]) >= size \/ Child(p[1], p[2], size) = p[2] THEN p[1]
             ELSE Down(n, size)[<<swap(p[1], p[2], Child(p[1], p[2], size)),
                                  Child(p[1], p[2], size)>>]
  <1> DEFINE D == Vecs(n) \X (0..(n - 1))
             Ends(p) == leftIndex(p[2]) >= size \/ Child(p[1], p[2], size) = p[2]
             Goes(p) == <<swap(p[1], p[2], Child(p[1], p[2], size)), Child(p[1], p[2], size)>>
             Done == {p \in D : Ends(p)}
             next == [p \in D |-> IF Ends(p) THEN p ELSE Goes(p)]
             outcome == [p \in D |-> p[1]]
             m == [p \in D |-> n - p[2]]
  <1>1. ASSUME NEW p \in D, ~Ends(p)
        PROVE  Goes(p) \in D /\ p[2] < Goes(p)[2] /\ Goes(p)[2] \in 0..(n - 1)
    <2> DEFINE v == p[1]
               i == p[2]
               c == Child(v, i, size)
    <2>1. v \in Vecs(n) /\ i \in 0..(n - 1)
      OBVIOUS
    <2>2. ~(leftIndex(i) >= size) /\ c # i
      BY <1>1
    <2>3. leftIndex(i) < size
      BY <2>1, <2>2 DEF leftIndex
    <2> HIDE DEF v, i
    <2>4. c \in 0..(size - 1) /\ IsChild(c, i)
      BY <2>1, <2>2, <2>3, ChildTops
    <2> HIDE DEF c
    <2>5. i < c /\ c \in 0..(n - 1)
      BY <2>1, <2>4, ChildFacts
    <2>6. i # c
      BY <2>1, <2>5
    <2>7. swap(v, i, c) \in Vecs(n)
      BY <2>1, <2>5, <2>6, SwapFacts
    <2>8. Goes(p) = <<swap(v, i, c), c>>
      BY DEF v, i, c
    <2> QED  BY <2>5, <2>7, <2>8 DEF i
  <1>2. next \in [D -> D]
    BY <1>1, Zenon
  <1>3. m \in [D -> 0..n]
    OBVIOUS
  <1>4. ASSUME NEW p \in D, p \notin Done PROVE m[next[p]] < m[p]
    <2>1. ~Ends(p) /\ next[p] = Goes(p)
      BY <1>4
    <2>2. Goes(p) \in D /\ p[2] < Goes(p)[2] /\ Goes(p)[2] \in 0..(n - 1) /\ p[2] \in 0..(n - 1)
      BY <1>1, <2>1
    <2> HIDE DEF Goes, next
    <2>3. m[next[p]] = n - Goes(p)[2] /\ m[p] = n - p[2]
      BY <2>1, <2>2
    <2> QED  BY <2>2, <2>3
  <1>5. PICK f : Computes(f, D, Done, next, outcome)
    <2> HIDE DEF D, Done, next, outcome, m
    <2>1. \A p \in D : p \notin Done => m[next[p]] < m[p]
      BY <1>4
    <2> QED  BY <1>2, <1>3, <2>1, LoopEnds
  <1>6. ASSUME NEW p \in D
        PROVE  Round(f, Done, next, outcome, p) = IF Ends(p) THEN p[1] ELSE f[Goes(p)]
    <2>1. p \in Done <=> Ends(p)
      OBVIOUS
    <2>2. outcome[p] = p[1] /\ (~Ends(p) => next[p] = Goes(p))
      OBVIOUS
    <2> HIDE DEF Done, next, outcome, Ends, Goes, D
    <2> QED  BY <2>1, <2>2 DEF Round
  <1>7. f = [p \in D |-> IF Ends(p) THEN p[1] ELSE f[Goes(p)]]
    <2> HIDE DEF Done, next, outcome, Ends, Goes, D
    <2> QED  BY <1>5, <1>6, Zenon DEF Computes
  <1> DEFINE d == Down(n, size)
  <1>8. d = [p \in D |-> IF Ends(p) THEN p[1] ELSE d[Goes(p)]]
    BY <1>7, Zenon DEF Down
  <1>9. ASSUME NEW p \in D PROVE d[p] = IF Ends(p) THEN p[1] ELSE d[Goes(p)]
    <2> HIDE DEF d, D, Ends, Goes
    <2> QED  BY <1>8, Zenon
  <1> QED  BY <1>9

\* What a loop leaves: the same elements, in order, and the rest where it was.
Sifted(w, v, n, lo, size) ==
    /\ w \in Vecs(n) /\ CountOf(w) = CountOf(v)
    /\ Ordered(w, lo, size, size)
    /\ \A k \in 0..(n - 1) : k >= size => At(w, k) = At(v, k)

\* heapify fills the gap.
LEMMA HeapifySifts ==
  ASSUME NEW n \in Nat, NEW v \in Vecs(n), NEW size \in 0..n, NEW lo \in Nat,
         NEW i \in 0..(n - 1), lo <= i, Ordered(v, lo, size, i), Bridged(v, lo, size, i)
  PROVE  Sifted(heapify(v, i, size), v, n, lo, size)
  <1> DEFINE D == Vecs(n) \X (0..(n - 1))
             m == [p \in D |-> n - p[2]]
             S == {p \in D : lo <= p[2] /\ Ordered(p[1], lo, size, p[2])
                                        /\ Bridged(p[1], lo, size, p[2])
                             => Sifted(Down(n, size)[p], p[1], n, lo, size)}
  <1>1. m \in [D -> Nat]
    OBVIOUS
  <1>2. ASSUME NEW p \in D, \A q \in D : m[q] < m[p] => q \in S PROVE p \in S
    <2> DEFINE u == p[1]
               j == p[2]
               c == Child(u, j, size)
               w == swap(u, j, c)
    <2>1. u \in Vecs(n) /\ j \in 0..(n - 1)
      OBVIOUS
    <2>2. Down(n, size)[p] = IF leftIndex(j) >= size \/ c = j THEN u
                             ELSE Down(n, size)[<<w, c>>]
      BY DownExists, Zenon
    <2> SUFFICES ASSUME lo <= j, Ordered(u, lo, size, j), Bridged(u, lo, size, j)
                 PROVE  Sifted(Down(n, size)[p], u, n, lo, size)
      OBVIOUS
    <2>3. CASE leftIndex(j) >= size
      <3>1. ASSUME NEW a \in 0..(size - 1), NEW b \in 0..(size - 1), lo <= a, IsChild(b, a)
            PROVE  Tops(At(u, a), At(u, b))
        <4>1. a # j
          BY <2>1, <2>3, <3>1 DEF IsChild, leftIndex, rightIndex
        <4> QED  BY <3>1, <4>1 DEF Ordered
      <3> HIDE DEF u, j, c, w, D, m, S
      <3> QED  BY <2>1, <2>2, <2>3, <3>1 DEF Sifted, Ordered
    <2>4. CASE leftIndex(j) < size /\ c = j
      <3> HIDE DEF u, j, D, m, S
      <3>1. ASSUME NEW a \in 0..(size - 1), NEW b \in 0..(size - 1), lo <= a, IsChild(b, a)
            PROVE  Tops(At(u, a), At(u, b))
        <4>1. CASE a = j
          BY <2>1, <2>4, <3>1, <4>1, ChildTops
        <4>2. CASE a # j
          BY <3>1, <4>2 DEF Ordered
        <4> QED  BY <4>1, <4>2
      <3> HIDE DEF c, w
      <3> QED  BY <2>1, <2>2, <2>4, <3>1 DEF Sifted, Ordered
    <2>5. CASE leftIndex(j) < size /\ c # j
      <3>1. /\ c \in 0..(size - 1) /\ IsChild(c, j) /\ Above(At(u, c), At(u, j))
            /\ \A k \in 0..(size - 1) : IsChild(k, j) => Tops(At(u, c), At(u, k))
        <4> HIDE DEF u, j, D, m, S
        <4> QED  BY <2>1, <2>5, ChildTops
      <3> HIDE DEF u, j, c, S
      <3>2. j < c /\ c \in 0..(n - 1) /\ j # c
        BY <2>1, <3>1, ChildFacts
      <3>3. Ordered(w, lo, size, c) /\ Bridged(w, lo, size, c)
        BY <2>1, <3>1, RoundDown
      <3>4. /\ w \in Vecs(n) /\ CountOf(w) = CountOf(u)
            /\ \A k \in 0..(n - 1) : k # j /\ k # c => At(w, k) = At(u, k)
        BY <2>1, <3>2, SwapFacts, SwapCounts
      <3> HIDE DEF w
      <3>5. <<w, c>> \in D /\ <<w, c>>[1] = w /\ <<w, c>>[2] = c
        BY <3>2, <3>4
      <3>6. m[<<w, c>>] < m[p]
        <4>1. m[<<w, c>>] = n - c
          BY <3>5
        <4>2. m[p] = n - j
          BY DEF j
        <4> QED  BY <2>1, <3>2, <4>1, <4>2
      <3>7. <<w, c>> \in S
        BY <1>2, <3>5, <3>6
      <3>8. Sifted(Down(n, size)[<<w, c>>], w, n, lo, size)
        <4>1. lo <= c
          BY <2>1, <3>2
        <4> QED  BY <3>3, <3>5, <3>7, <4>1, Zenon DEF S
      <3>9. Down(n, size)[p] = Down(n, size)[<<w, c>>]
        BY <2>1, <2>2, <2>5 DEF leftIndex
      <3>10. ASSUME NEW k \in 0..(n - 1), k >= size PROVE At(w, k) = At(u, k)
        <4>1. k # c /\ k # j
          BY <2>1, <3>1, <3>2, <3>10
        <4> QED  BY <3>4, <4>1
      <3> QED  BY <3>4, <3>8, <3>9, <3>10 DEF Sifted
    <2>6. leftIndex(j) >= size \/ leftIndex(j) < size
      BY <2>1 DEF leftIndex
    <2> QED  BY <2>3, <2>4, <2>5, <2>6
  <1>3. D \subseteq S
    <2> HIDE DEF D, m, S
    <2> QED  BY <1>1, <1>2, MeasureInduction
  <1>4. <<v, i>> \in S /\ <<v, i>>[1] = v /\ <<v, i>>[2] = i
    BY <1>3
  <1>5. Sifted(Down(n, size)[<<v, i>>], v, n, lo, size)
    BY <1>4, Zenon
  <1> QED  BY <1>5, HeapifyIsDown

-----------------------------------------------------------------------------
(***************************************************************************)
(* siftUp.  Element x may be too high for its parent.                       *)
(***************************************************************************)
\* Children other than x are topped by their parents.
OrderedBut(v, n, x) ==
    \A i, j \in 0..(n - 1) : j # x /\ IsChild(j, i) => Tops(At(v, i), At(v, j))

\* One round: the element moves up.
LEMMA RoundUp ==
  ASSUME NEW n \in Nat, NEW v \in Vecs(n), NEW i \in 0..(n - 1), NEW h \in 0..(n - 1),
         IsChild(i, h), Above(At(v, i), At(v, h)),
         OrderedBut(v, n, i), Bridged(v, 0, n, i)
  PROVE  OrderedBut(swap(v, i, h), n, h) /\ Bridged(swap(v, i, h), 0, n, h)
  <1> DEFINE w == swap(v, i, h)
  <1>0. 0..(n - 1) \subseteq Nat
    OBVIOUS
  <1>1. i \in Nat /\ h \in Nat /\ h < i /\ h # i /\ i # h
    BY <1>0, ChildFacts
  <1>2. /\ At(w, i) = At(v, h) /\ At(w, h) = At(v, i)
        /\ \A k \in 0..(n - 1) : k # i /\ k # h => At(w, k) = At(v, k)
    BY <1>1, SwapFacts
  <1>3. \A k \in 0..(n - 1) : At(v, k) \in Elements
    BY AtElement
  <1>4. Tops(At(v, i), At(v, h))
    BY <1>3, TopsOrder
  <1> HIDE DEF w
  <1>5. ASSUME NEW a \in 0..(n - 1), NEW b \in 0..(n - 1), b # h, IsChild(b, a)
        PROVE  Tops(At(w, a), At(w, b))
    <2>1. CASE b = i
      <3>1. a = h
        BY <1>0, <1>5, <2>1, ChildFacts
      <3> QED  BY <1>2, <1>4, <2>1, <3>1
    <2>2. CASE b # i
      <3>1. At(w, b) = At(v, b)
        BY <1>2, <1>5, <2>2
      <3>2. Tops(At(v, a), At(v, b))
        BY <1>5, <2>2 DEF OrderedBut
      <3>3. CASE a = h
        <4>1. Tops(At(v, i), At(v, b))
          BY <1>3, <1>4, <3>2, <3>3, TopsOrder
        <4> QED  BY <1>2, <3>1, <3>3, <4>1
      <3>4. CASE a = i
        <4>1. Tops(At(v, h), At(v, b))
          BY <1>1, <1>5, <3>4 DEF Bridged
        <4> QED  BY <1>2, <3>1, <3>4, <4>1
      <3>5. CASE a # h /\ a # i
        BY <1>2, <3>1, <3>2, <3>5
      <3> QED  BY <3>3, <3>4, <3>5
    <2> QED  BY <2>1, <2>2
  <1>6. ASSUME NEW a \in 0..(n - 1), NEW b \in 0..(n - 1), IsChild(h, a), IsChild(b, h)
        PROVE  Tops(At(w, a), At(w, b))
    <2>1. a < h /\ a # h /\ a # i /\ b # h
      BY <1>0, <1>1, <1>6, ChildFacts
    <2>2. Tops(At(v, a), At(v, h))
      BY <1>1, <1>6 DEF OrderedBut
    <2>3. At(w, a) = At(v, a)
      BY <1>2, <2>1
    <2>4. CASE b = i
      BY <1>2, <2>2, <2>3, <2>4
    <2>5. CASE b # i
      <3>1. Tops(At(v, h), At(v, b))
        BY <1>6, <2>5 DEF OrderedBut
      <3>2. Tops(At(v, a), At(v, b))
        BY <1>3, <2>2, <3>1, TopsOrder
      <3> QED  BY <1>2, <2>1, <2>3, <2>5, <3>2
    <2> QED  BY <2>4, <2>5
  <1> QED  BY <1>5, <1>6 DEF OrderedBut, Bridged, w

Up(n) ==
    CHOOSE f : f = [p \in Vecs(n) \X (0..(n - 1)) |->
        IF p[2] <= 0 \/ ~comparator(p[1], p[2], parentIndex(p[2])) THEN p[1]
        ELSE f[<<swap(p[1], p[2], parentIndex(p[2])), parentIndex(p[2])>>]]

LEMMA SiftUpIsUp ==
  ASSUME NEW n \in Nat, NEW v \in Vecs(n), NEW i
  PROVE  siftUp(v, i) = Up(n)[<<v, i>>]
  <1>1. Len(v) = n
    BY VecLen
  <1> QED  BY <1>1 DEF siftUp, Up, LoopStates, Vecs

LEMMA UpExists ==
  ASSUME NEW n \in Nat
  PROVE  \A p \in Vecs(n) \X (0..(n - 1)) :
           Up(n)[p] =
             IF p[2] <= 0 \/ ~comparator(p[1], p[2], parentIndex(p[2])) THEN p[1]
             ELSE Up(n)[<<swap(p[1], p[2], parentIndex(p[2])), parentIndex(p[2])>>]
  <1> DEFINE D == Vecs(n) \X (0..(n - 1))
             Ends(p) == p[2] <= 0 \/ ~comparator(p[1], p[2], parentIndex(p[2]))
             Goes(p) == <<swap(p[1], p[2], parentIndex(p[2])), parentIndex(p[2])>>
             Done == {p \in D : Ends(p)}
             next == [p \in D |-> IF Ends(p) THEN p ELSE Goes(p)]
             outcome == [p \in D |-> p[1]]
             m == [p \in D |-> p[2]]
  <1>1. ASSUME NEW p \in D, ~Ends(p)
        PROVE  Goes(p) \in D /\ Goes(p)[2] < p[2] /\ Goes(p)[2] \in 0..(n - 1)
    <2> DEFINE v == p[1]
               i == p[2]
               h == parentIndex(i)
    <2>1. v \in Vecs(n) /\ i \in 0..(n - 1) /\ i \in Nat /\ i > 0
      BY <1>1
    <2> HIDE DEF v, i
    <2>2. h \in Nat /\ h < i
      BY <2>1, ParentFacts
    <2> HIDE DEF h
    <2>3. h \in 0..(n - 1) /\ i # h
      BY <2>1, <2>2
    <2>4. swap(v, i, h) \in Vecs(n)
      BY <2>1, <2>3, SwapFacts
    <2>5. Goes(p) = <<swap(v, i, h), h>>
      BY DEF v, i, h
    <2> QED  BY <2>2, <2>3, <2>4, <2>5 DEF i
  <1>2. next \in [D -> D]
    BY <1>1, Zenon
  <1>3. m \in [D -> 0..n]
    OBVIOUS
  <1>4. ASSUME NEW p \in D, p \notin Done PROVE m[next[p]] < m[p]
    <2>1. ~Ends(p) /\ next[p] = Goes(p)
      BY <1>4
    <2>2. Goes(p) \in D /\ Goes(p)[2] < p[2]
      BY <1>1, <2>1
    <2> HIDE DEF Goes, next
    <2> QED  BY <2>1, <2>2
  <1>5. PICK f : Computes(f, D, Done, next, outcome)
    <2> HIDE DEF D, Done, next, outcome, m
    <2>1. \A p \in D : p \notin Done => m[next[p]] < m[p]
      BY <1>4
    <2> QED  BY <1>2, <1>3, <2>1, LoopEnds
  <1>6. ASSUME NEW p \in D
        PROVE  Round(f, Done, next, outcome, p) = IF Ends(p) THEN p[1] ELSE f[Goes(p)]
    <2>1. p \in Done <=> Ends(p)
      OBVIOUS
    <2>2. outcome[p] = p[1] /\ (~Ends(p) => next[p] = Goes(p))
      OBVIOUS
    <2> HIDE DEF Done, next, outcome, Ends, Goes, D
    <2> QED  BY <2>1, <2>2 DEF Round
  <1>7. f = [p \in D |-> IF Ends(p) THEN p[1] ELSE f[Goes(p)]]
    <2> HIDE DEF Done, next, outcome, Ends, Goes, D
    <2> QED  BY <1>5, <1>6, Zenon DEF Computes
  <1> DEFINE d == Up(n)
  <1>8. d = [p \in D |-> IF Ends(p) THEN p[1] ELSE d[Goes(p)]]
    BY <1>7, Zenon DEF Up
  <1>9. ASSUME NEW p \in D PROVE d[p] = IF Ends(p) THEN p[1] ELSE d[Goes(p)]
    <2> HIDE DEF d, D, Ends, Goes
    <2> QED  BY <1>8, Zenon
  <1> QED  BY <1>9

\* siftUp puts the element in its place.
LEMMA SiftUpSifts ==
  ASSUME NEW n \in Nat, NEW v \in Vecs(n), NEW i \in 0..(n - 1),
         OrderedBut(v, n, i), Bridged(v, 0, n, i)
  PROVE  Sifted(siftUp(v, i), v, n, 0, n)
  <1> DEFINE D == Vecs(n) \X (0..(n - 1))
             m == [p \in D |-> p[2]]
             S == {p \in D : OrderedBut(p[1], n, p[2]) /\ Bridged(p[1], 0, n, p[2])
                             => Sifted(Up(n)[p], p[1], n, 0, n)}
  <1>1. m \in [D -> Nat]
    OBVIOUS
  <1>2. ASSUME NEW p \in D, \A q \in D : m[q] < m[p] => q \in S PROVE p \in S
    <2> DEFINE u == p[1]
               j == p[2]
               h == parentIndex(j)
               w == swap(u, j, h)
    <2>1. u \in Vecs(n) /\ j \in 0..(n - 1) /\ j \in Nat
      OBVIOUS
    <2>2. Up(n)[p] = IF j <= 0 \/ ~comparator(u, j, h) THEN u ELSE Up(n)[<<w, h>>]
      BY UpExists, Zenon
    <2> SUFFICES ASSUME OrderedBut(u, n, j), Bridged(u, 0, n, j)
                 PROVE  Sifted(Up(n)[p], u, n, 0, n)
      OBVIOUS
    <2>3. CASE j <= 0 \/ ~comparator(u, j, h)
      <3>1. ASSUME NEW a \in 0..(n - 1), NEW b \in 0..(n - 1), IsChild(b, a)
            PROVE  Tops(At(u, a), At(u, b))
        <4> HIDE DEF u, j, D, m, S
        <4>1. CASE b # j
          BY <3>1, <4>1 DEF OrderedBut
        <4>2. CASE b = j
          <5>1. a < j /\ a = h /\ a \in Nat
            BY <3>1, <4>2, ChildFacts
          <5>2. ~comparator(u, j, h)
            BY <2>1, <2>3, <5>1
          <5> QED  BY <4>2, <5>1, <5>2 DEF comparator, Tops
        <4> QED  BY <4>1, <4>2
      <3>2. Up(n)[p] = u
        BY <2>2, <2>3
      <3> HIDE DEF u, j, h, w, D, m, S
      <3> QED  BY <2>1, <3>1, <3>2 DEF Sifted, Ordered
    <2>4. CASE ~(j <= 0 \/ ~comparator(u, j, h))
      <3> HIDE DEF u, j, S
      <3>1. h \in Nat /\ IsChild(j, h) /\ h < j
        BY <2>1, <2>4, ParentFacts
      <3>2. Above(At(u, j), At(u, h)) /\ Up(n)[p] = Up(n)[<<w, h>>]
        BY <2>2, <2>4 DEF comparator
      <3> HIDE DEF h
      <3>3. h \in 0..(n - 1) /\ j # h
        BY <2>1, <3>1
      <3>4. OrderedBut(w, n, h) /\ Bridged(w, 0, n, h)
        BY <2>1, <3>1, <3>2, <3>3, RoundUp
      <3>5. w \in Vecs(n) /\ CountOf(w) = CountOf(u)
        BY <2>1, <3>3, SwapFacts, SwapCounts
      <3> HIDE DEF w
      <3>6. <<w, h>> \in D /\ <<w, h>>[1] = w /\ <<w, h>>[2] = h
        BY <3>3, <3>5
      <3>7. m[<<w, h>>] < m[p]
        <4>1. m[<<w, h>>] = h
          BY <3>6
        <4>2. m[p] = j
          BY DEF j
        <4> QED  BY <3>1, <4>1, <4>2
      <3>8. <<w, h>> \in S
        BY <1>2, <3>6, <3>7
      <3>9. Sifted(Up(n)[<<w, h>>], w, n, 0, n)
        BY <3>4, <3>6, <3>8, Zenon DEF S
      <3> QED  BY <3>2, <3>5, <3>9 DEF Sifted
    <2> QED  BY <2>3, <2>4
  <1>3. D \subseteq S
    <2> HIDE DEF D, m, S
    <2> QED  BY <1>1, <1>2, MeasureInduction
  <1>4. <<v, i>> \in S /\ <<v, i>>[1] = v /\ <<v, i>>[2] = i
    BY <1>3
  <1>5. Sifted(Up(n)[<<v, i>>], v, n, 0, n)
    BY <1>4, Zenon
  <1> QED  BY <1>5, SiftUpIsUp

-----------------------------------------------------------------------------
(***************************************************************************)
(* build.  Each round extends the part that is in order by one parent.      *)
(***************************************************************************)
LEMMA HeapifyType ==
  ASSUME NEW n \in Nat, NEW v \in Vecs(n), NEW size \in 0..n, NEW i \in 0..(n - 1)
  PROVE  heapify(v, i, size) \in Vecs(n)
  <1> DEFINE D == Vecs(n) \X (0..(n - 1))
             m == [p \in D |-> n - p[2]]
             S == {p \in D : Down(n, size)[p] \in Vecs(n)}
  <1>1. m \in [D -> Nat]
    OBVIOUS
  <1>2. ASSUME NEW p \in D, \A q \in D : m[q] < m[p] => q \in S PROVE p \in S
    <2> DEFINE u == p[1]
               j == p[2]
               c == Child(u, j, size)
               w == swap(u, j, c)
    <2>1. u \in Vecs(n) /\ j \in 0..(n - 1)
      OBVIOUS
    <2>2. Down(n, size)[p] = IF leftIndex(j) >= size \/ c = j THEN u
                             ELSE Down(n, size)[<<w, c>>]
      BY DownExists, Zenon
    <2>3. CASE leftIndex(j) >= size \/ c = j
      BY <2>1, <2>2, <2>3
    <2>4. CASE ~(leftIndex(j) >= size \/ c = j)
      <3> HIDE DEF u, j, S
      <3>1. leftIndex(j) < size /\ c # j
        BY <2>1, <2>4 DEF leftIndex
      <3>2. c \in 0..(size - 1) /\ IsChild(c, j)
        BY <2>1, <3>1, ChildTops
      <3> HIDE DEF c
      <3>3. j < c /\ c \in 0..(n - 1) /\ j # c
        BY <2>1, <3>2, ChildFacts
      <3>4. w \in Vecs(n)
        BY <2>1, <3>3, SwapFacts
      <3> HIDE DEF w
      <3>5. <<w, c>> \in D /\ <<w, c>>[2] = c
        BY <3>3, <3>4
      <3>6. m[<<w, c>>] = n - c /\ m[p] = n - j
        BY <3>5 DEF j
      <3>7. m[<<w, c>>] < m[p]
        BY <2>1, <3>3, <3>6
      <3>8. <<w, c>> \in S
        BY <1>2, <3>5, <3>7
      <3>9. Down(n, size)[p] \in Vecs(n)
        BY <2>2, <2>4, <3>8 DEF S
      <3> QED  BY <3>9 DEF S
    <2> QED  BY <2>3, <2>4
  <1>3. D \subseteq S
    <2> HIDE DEF D, m, S
    <2> QED  BY <1>1, <1>2, MeasureInduction
  <1>4. <<v, i>> \in S
    BY <1>3
  <1> QED  BY <1>4, HeapifyIsDown

From(n) ==
    CHOOSE f : f = [p \in Vecs(n) \X (0..n) |->
        IF p[2] = 0 THEN p[1] ELSE f[<<heapify(p[1], p[2] - 1, n), p[2] - 1>>]]

LEMMA BuildIsFrom ==
  ASSUME NEW n \in Nat, NEW v \in Vecs(n)
  PROVE  build(v) = From(n)[<<v, n \div 2>>]
  <1>1. Len(v) = n
    BY VecLen
  <1> QED  BY <1>1 DEF build, From, LoopStates, Vecs

LEMMA FromExists ==
  ASSUME NEW n \in Nat
  PROVE  \A p \in Vecs(n) \X (0..n) :
           From(n)[p] = IF p[2] = 0 THEN p[1]
                        ELSE From(n)[<<heapify(p[1], p[2] - 1, n), p[2] - 1>>]
  <1> DEFINE D == Vecs(n) \X (0..n)
             Ends(p) == p[2] = 0
             Goes(p) == <<heapify(p[1], p[2] - 1, n), p[2] - 1>>
             Done == {p \in D : Ends(p)}
             next == [p \in D |-> IF Ends(p) THEN p ELSE Goes(p)]
             outcome == [p \in D |-> p[1]]
             m == [p \in D |-> p[2]]
  <1>1. ASSUME NEW p \in D, ~Ends(p)
        PROVE  Goes(p) \in D /\ Goes(p)[2] < p[2]
    <2> DEFINE v == p[1]
               k == p[2]
    <2>1. v \in Vecs(n) /\ k \in 0..n /\ k # 0
      BY <1>1
    <2> HIDE DEF v, k
    <2>2. k - 1 \in 0..(n - 1) /\ k - 1 \in 0..n /\ k - 1 < k /\ n \in 0..n
      BY <2>1
    <2>3. heapify(v, k - 1, n) \in Vecs(n)
      BY <2>1, <2>2, HeapifyType
    <2>4. Goes(p) = <<heapify(v, k - 1, n), k - 1>>
      BY DEF v, k
    <2> QED  BY <2>2, <2>3, <2>4 DEF k
  <1>2. next \in [D -> D]
    BY <1>1, Zenon
  <1>3. m \in [D -> 0..n]
    OBVIOUS
  <1>4. ASSUME NEW p \in D, p \notin Done PROVE m[next[p]] < m[p]
    <2>1. ~Ends(p) /\ next[p] = Goes(p)
      BY <1>4
    <2>2. Goes(p) \in D /\ Goes(p)[2] < p[2]
      BY <1>1, <2>1
    <2> HIDE DEF Goes, next
    <2> QED  BY <2>1, <2>2
  <1>5. PICK f : Computes(f, D, Done, next, outcome)
    <2> HIDE DEF D, Done, next, outcome, m
    <2>1. \A p \in D : p \notin Done => m[next[p]] < m[p]
      BY <1>4
    <2> QED  BY <1>2, <1>3, <2>1, LoopEnds
  <1>6. ASSUME NEW p \in D
        PROVE  Round(f, Done, next, outcome, p) = IF Ends(p) THEN p[1] ELSE f[Goes(p)]
    <2>1. p \in Done <=> Ends(p)
      OBVIOUS
    <2>2. outcome[p] = p[1] /\ (~Ends(p) => next[p] = Goes(p))
      OBVIOUS
    <2> HIDE DEF Done, next, outcome, Ends, Goes, D
    <2> QED  BY <2>1, <2>2 DEF Round
  <1>7. f = [p \in D |-> IF Ends(p) THEN p[1] ELSE f[Goes(p)]]
    <2> HIDE DEF Done, next, outcome, Ends, Goes, D
    <2> QED  BY <1>5, <1>6, Zenon DEF Computes
  <1> DEFINE d == From(n)
  <1>8. d = [p \in D |-> IF Ends(p) THEN p[1] ELSE d[Goes(p)]]
    BY <1>7, Zenon DEF From
  <1>9. ASSUME NEW p \in D PROVE d[p] = IF Ends(p) THEN p[1] ELSE d[Goes(p)]
    <2> HIDE DEF d, D, Ends, Goes
    <2> QED  BY <1>8, Zenon
  <1> QED  BY <1>9

\* A vector whose parents from k + 1 on top their children has at most a gap at k.
LEMMA NextGap ==
  ASSUME NEW n \in Nat, NEW v \in Vecs(n), NEW k \in Nat, Ordered(v, k + 1, n, n)
  PROVE  Ordered(v, k, n, k) /\ Bridged(v, k, n, k)
  <1>1. ASSUME NEW a \in 0..(n - 1), NEW b \in 0..(n - 1), k <= a, a # k, IsChild(b, a)
        PROVE  Tops(At(v, a), At(v, b))
    <2>1. k + 1 <= a /\ a # n
      BY <1>1
    <2> QED  BY <1>1, <2>1 DEF Ordered
  <1>2. ASSUME NEW a \in 0..(n - 1), k <= a, IsChild(k, a) PROVE FALSE
    <2>1. a < k
      BY <1>2, ChildFacts
    <2> QED  BY <1>2, <2>1
  <1> QED  BY <1>1, <1>2 DEF Ordered, Bridged

\* build puts any vector in order.
LEMMA BuildSifts ==
  ASSUME NEW n \in Nat, NEW v \in Vecs(n)
  PROVE  Sifted(build(v), v, n, 0, n)
  <1> DEFINE D == Vecs(n) \X (0..n)
             m == [p \in D |-> p[2]]
             S == {p \in D : Ordered(p[1], p[2], n, n) => Sifted(From(n)[p], p[1], n, 0, n)}
  <1>1. m \in [D -> Nat]
    OBVIOUS
  <1>2. ASSUME NEW p \in D, \A q \in D : m[q] < m[p] => q \in S PROVE p \in S
    <2> DEFINE u == p[1]
               k == p[2]
               w == heapify(u, k - 1, n)
    <2>1. u \in Vecs(n) /\ k \in 0..n
      OBVIOUS
    <2>2. From(n)[p] = IF k = 0 THEN u ELSE From(n)[<<w, k - 1>>]
      BY FromExists, Zenon
    <2> SUFFICES ASSUME Ordered(u, k, n, n) PROVE Sifted(From(n)[p], u, n, 0, n)
      OBVIOUS
    <2>3. CASE k = 0
      <3> HIDE DEF u, k, w, D, m, S
      <3> QED  BY <2>1, <2>2, <2>3 DEF Sifted
    <2>4. CASE k # 0
      <3> HIDE DEF u, k, S
      <3> DEFINE i == k - 1
      <3>1. i \in Nat /\ i \in 0..(n - 1) /\ i \in 0..n /\ n \in 0..n /\ i <= i /\ i + 1 = k
        BY <2>1, <2>4
      <3> HIDE DEF i
      <3>2. Ordered(u, i, n, i) /\ Bridged(u, i, n, i)
        BY <2>1, <3>1, NextGap
      <3>3. w = heapify(u, i, n)
        BY DEF i
      <3> HIDE DEF w
      <3>4. Sifted(w, u, n, i, n)
        BY <2>1, <3>1, <3>2, <3>3, HeapifySifts
      <3>5. w \in Vecs(n) /\ CountOf(w) = CountOf(u) /\ Ordered(w, i, n, n)
        BY <3>4 DEF Sifted
      <3>6. <<w, i>> \in D /\ <<w, i>>[1] = w /\ <<w, i>>[2] = i
        BY <3>1, <3>5
      <3>7. m[<<w, i>>] < m[p]
        <4>1. m[<<w, i>>] = i
          BY <3>6
        <4>2. m[p] = k
          BY DEF k
        <4> QED  BY <2>1, <3>1, <4>1, <4>2
      <3>8. <<w, i>> \in S
        BY <1>2, <3>6, <3>7
      <3>9. Sifted(From(n)[<<w, i>>], w, n, 0, n)
        BY <3>5, <3>6, <3>8, Zenon DEF S
      <3>10. From(n)[p] = From(n)[<<w, i>>]
        BY <2>2, <2>4 DEF i
      <3> QED  BY <3>5, <3>9, <3>10 DEF Sifted
    <2> QED  BY <2>3, <2>4
  <1>3. D \subseteq S
    <2> HIDE DEF D, m, S
    <2> QED  BY <1>1, <1>2, MeasureInduction
  <1> DEFINE h == n \div 2
  <1>4. h \in 0..n /\ h \in Nat /\ 2 * h + 1 >= n
    OBVIOUS
  <1>5. <<v, h>> \in S /\ <<v, h>>[1] = v /\ <<v, h>>[2] = h
    <2> HIDE DEF h
    <2> QED  BY <1>3, <1>4
  <1>6. Ordered(v, h, n, n)
    <2> HIDE DEF h
    <2>1. ASSUME NEW a \in 0..(n - 1), NEW b \in 0..(n - 1), h <= a, IsChild(b, a) PROVE FALSE
      BY <1>4, <2>1 DEF IsChild, leftIndex, rightIndex
    <2> QED  BY <2>1 DEF Ordered
  <1>7. Sifted(From(n)[<<v, h>>], v, n, 0, n)
    <2> HIDE DEF h
    <2> QED  BY <1>5, <1>6, Zenon
  <1> QED  BY <1>7, BuildIsFrom

-----------------------------------------------------------------------------
(***************************************************************************)
(* The heap.                                                                *)
(***************************************************************************)
InOrder(v) == Ordered(v, 0, Len(v), Len(v))

HeapInv == storage \in Seq(Elements) /\ InOrder(storage) /\ SameContents

\* The root tops every element.
LEMMA RootTops ==
  ASSUME NEW n \in Nat, NEW v \in Vecs(n), Ordered(v, 0, n, n), NEW j \in 0..(n - 1)
  PROVE  Tops(At(v, 0), At(v, j))
  <1> DEFINE Bad == {k \in 0..(n - 1) : ~Tops(At(v, 0), At(v, k))}
  <1> SUFFICES ASSUME Bad # {} PROVE FALSE
    OBVIOUS
  <1>1. Bad \subseteq Nat
    OBVIOUS
  <1>2. PICK k \in Bad : \A l \in Bad : k <= l
    BY <1>1, LeastIndex
  <1>3. k \in 0..(n - 1) /\ k \in Nat /\ ~Tops(At(v, 0), At(v, k))
    OBVIOUS
  <1>4. \A l \in 0..(n - 1) : At(v, l) \in Elements
    BY AtElement
  <1>5. k > 0
    BY <1>3, <1>4, TopsOrder
  <1> DEFINE h == parentIndex(k)
  <1>6. h \in Nat /\ IsChild(k, h) /\ h < k
    BY <1>3, <1>5, ParentFacts
  <1> HIDE DEF h
  <1>7. h \in 0..(n - 1) /\ h # n /\ 0 <= h /\ 0 \in 0..(n - 1)
    BY <1>3, <1>6
  <1>8. Tops(At(v, 0), At(v, h))
    <2>1. h \notin Bad
      <3> HIDE DEF Bad
      <3> QED  BY <1>2, <1>3, <1>6
    <2> QED  BY <1>7, <2>1
  <1>9. Tops(At(v, h), At(v, k))
    BY <1>3, <1>6, <1>7 DEF Ordered
  <1> QED  BY <1>3, <1>4, <1>7, <1>8, <1>9, TopsOrder

LEMMA CountFacts ==
  ASSUME NEW n \in Nat, NEW v \in Vecs(n), NEW e \in Elements
  PROVE  /\ CountOf(v)[e] = Cardinality({i \in 1..n : v[i] = e})
         /\ IsFiniteSet({i \in 1..n : v[i] = e}) /\ CountOf(v)[e] \in Nat
         /\ CountOf(v)[e] > 0 <=> \E i \in 1..n : v[i] = e
  <1> DEFINE S == {i \in 1..n : v[i] = e}
  <1>1. CountOf(v)[e] = Cardinality(S)
    BY VecLen DEF CountOf
  <1>2. IsFiniteSet(S)
    <2>1. IsFiniteSet(1..n) /\ S \subseteq 1..n
      BY FS_Interval
    <2> QED  BY <2>1, FS_Subset
  <1>3. S = {} <=> ~ \E i \in 1..n : v[i] = e
    OBVIOUS
  <1> HIDE DEF S
  <1>4. Cardinality(S) \in Nat /\ (Cardinality(S) = 0 <=> S = {})
    BY <1>2, FS_CardinalityType, FS_EmptySet
  <1>5. CountOf(v)[e] \in Nat /\ (CountOf(v)[e] > 0 <=> \E i \in 1..n : v[i] = e)
    BY <1>1, <1>3, <1>4
  <1> QED  BY <1>1, <1>2, <1>5 DEF S

\* One more element at the end counts once.
LEMMA CountLast ==
  ASSUME NEW n \in Nat, NEW u \in Vecs(n), NEW v \in Vecs(n + 1),
         \A i \in 1..n : v[i] = u[i]
  PROVE  /\ v[n + 1] \in Elements
         /\ CountOf(v) = [CountOf(u) EXCEPT ![v[n + 1]] = @ + 1]
         /\ CountOf(u) = [CountOf(v) EXCEPT ![v[n + 1]] = @ - 1]
  <1>0. n + 1 \in Nat /\ n + 1 \in 1..(n + 1) /\ n + 1 \notin 1..n
    OBVIOUS
  <1>1. v[n + 1] \in Elements
    BY <1>0 DEF Vecs
  <1>2. ASSUME NEW e \in Elements
        PROVE  CountOf(v)[e] = IF e = v[n + 1] THEN CountOf(u)[e] + 1 ELSE CountOf(u)[e]
    <2> DEFINE S == {i \in 1..n : u[i] = e}
               T == {i \in 1..(n + 1) : v[i] = e}
    <2>1. CountOf(u)[e] = Cardinality(S) /\ IsFiniteSet(S) /\ CountOf(v)[e] = Cardinality(T)
      BY <1>0, CountFacts
    <2>2. \A i \in 1..(n + 1) : i \in 1..n \/ i = n + 1
      OBVIOUS
    <2>3. \A i \in 1..n : i \in 1..(n + 1)
      OBVIOUS
    <2>4. n + 1 \notin S
      BY <1>0
    <2>5. CASE e = v[n + 1]
      <3>1. T = S \cup {n + 1}
        BY <1>0, <2>2, <2>3, <2>5
      <3> HIDE DEF S, T
      <3>2. Cardinality(S \cup {n + 1}) = Cardinality(S) + 1
        BY <2>1, <2>4, FS_AddElement, Zenon
      <3> QED  BY <2>1, <2>5, <3>1, <3>2, Zenon
    <2>6. CASE e # v[n + 1]
      <3>1. T = S
        BY <1>0, <2>2, <2>3, <2>6
      <3> QED  BY <2>1, <2>6, <3>1
    <2> QED  BY <2>5, <2>6
  <1>3. ASSUME NEW e \in Elements PROVE CountOf(u)[e] \in Nat
    BY CountFacts
  <1>4. CountOf(u) = [e \in Elements |-> CountOf(u)[e]]
    BY DEF CountOf
  <1>5. CountOf(v) = [e \in Elements |-> CountOf(v)[e]]
    BY DEF CountOf
  <1> DEFINE U == CountOf(u)
             V == CountOf(v)
             x == v[n + 1]
  <1>6. /\ x \in Elements /\ U = [e \in Elements |-> U[e]] /\ V = [e \in Elements |-> V[e]]
        /\ \A e \in Elements : U[e] \in Nat
        /\ \A e \in Elements : V[e] = IF e = x THEN U[e] + 1 ELSE U[e]
    BY <1>1, <1>2, <1>3, <1>4, <1>5
  <1> HIDE DEF U, V, x
  <1>7. V = [U EXCEPT ![x] = @ + 1]
    BY <1>6
  <1>8. U = [V EXCEPT ![x] = @ - 1]
    BY <1>6
  <1> QED  BY <1>1, <1>7, <1>8 DEF U, V, x

\* The order depends on the elements and the type only.
LEMMA OrderStays ==
  ASSUME NEW v \in Seq(Elements), Ordered(v, 0, Len(v), Len(v)), storage' = v, UNCHANGED type
  PROVE  InOrder(storage)'
  BY DEF InOrder, Ordered, Tops, Above, At, IsChild, leftIndex, rightIndex

LEMMA SiftedInOrder ==
  ASSUME NEW n \in Nat, NEW w, NEW v, Sifted(w, v, n, 0, n)
  PROVE  w \in Seq(Elements) /\ Len(w) = n /\ Ordered(w, 0, Len(w), Len(w)) /\ CountOf(w) = CountOf(v)
  <1>1. w \in Vecs(n) /\ Ordered(w, 0, n, n) /\ CountOf(w) = CountOf(v)
    BY DEF Sifted
  <1>2. w \in Seq(Elements) /\ Len(w) = n
    BY <1>1, VecLen
  <1> QED  BY <1>1, <1>2

LEMMA PushStep ==
  ASSUME HeapInv, NEW value \in Elements, push(value)
  PROVE  HeapInv'
  <1> DEFINE n == Len(storage)
             v == Append(storage, value)
             w == siftUp(v, n)
  <1>1. storage \in Seq(Elements) /\ n \in Nat /\ storage \in Vecs(n) /\ contents = CountOf(storage)
        /\ Ordered(storage, 0, n, n)
    BY DEF HeapInv, SameContents, Vecs, InOrder
  <1>2. storage' = w /\ contents' = [contents EXCEPT ![value] = @ + 1] /\ UNCHANGED type
    BY DEF push
  <1>3. /\ v \in Seq(Elements) /\ Len(v) = n + 1 /\ v[n + 1] = value
        /\ \A i \in 1..n : v[i] = storage[i]
    BY <1>1, AppendProperties
  <1> HIDE DEF n, v
  <1>4. n + 1 \in Nat /\ v \in Vecs(n + 1) /\ n \in 0..((n + 1) - 1)
    <2>1. n + 1 \in Nat /\ n \in 0..((n + 1) - 1)
      BY <1>1
    <2>2. v \in [1..Len(v) -> Elements]
      BY <1>3
    <2> QED  BY <1>3, <2>1, <2>2 DEF Vecs
  <1>5. CountOf(v) = [contents EXCEPT ![value] = @ + 1]
    <2>1. CountOf(v) = [CountOf(storage) EXCEPT ![v[n + 1]] = @ + 1]
      BY <1>1, <1>3, <1>4, CountLast
    <2> QED  BY <1>1, <1>3, <2>1
  <1>6. OrderedBut(v, n + 1, n)
    <2>1. ASSUME NEW a \in 0..((n + 1) - 1), NEW b \in 0..((n + 1) - 1), b # n, IsChild(b, a)
          PROVE  Tops(At(v, a), At(v, b))
      <3>1. a \in Nat /\ b \in Nat
        BY <1>1
      <3>2. a < b
        BY <2>1, <3>1, ChildFacts
      <3>3. a \in 0..(n - 1) /\ b \in 0..(n - 1) /\ 0 <= a /\ a # n
            /\ a + 1 \in 1..n /\ b + 1 \in 1..n
        BY <1>1, <2>1, <3>1, <3>2
      <3>4. Tops(At(storage, a), At(storage, b))
        BY <1>1, <2>1, <3>3 DEF Ordered
      <3>5. At(v, a) = At(storage, a) /\ At(v, b) = At(storage, b)
        BY <1>3, <3>3 DEF At
      <3> QED  BY <3>4, <3>5
    <2> QED  BY <2>1 DEF OrderedBut
  <1>7. Bridged(v, 0, n + 1, n)
    <2>1. ASSUME NEW b \in 0..((n + 1) - 1), IsChild(b, n) PROVE FALSE
      <3>1. n < b
        BY <1>1, <2>1, ChildFacts
      <3> QED  BY <1>1, <2>1, <3>1
    <2> QED  BY <2>1 DEF Bridged
  <1>8. Sifted(w, v, n + 1, 0, n + 1)
    BY <1>4, <1>6, <1>7, SiftUpSifts
  <1> HIDE DEF w
  <1>9. w \in Seq(Elements) /\ Ordered(w, 0, Len(w), Len(w)) /\ CountOf(w) = CountOf(v)
    BY <1>4, <1>8, SiftedInOrder
  <1>10. InOrder(storage)'
    BY <1>2, <1>9, OrderStays
  <1>11. SameContents'
    <2>1. contents' = CountOf(w)
      BY <1>2, <1>5, <1>9
    <2> QED  BY <1>2, <2>1 DEF SameContents, CountOf
  <1> QED  BY <1>2, <1>9, <1>10, <1>11 DEF HeapInv

\* What pop takes off is the old root, and the rest is in order.
LEMMA RemovedFacts ==
  ASSUME NEW n \in Nat, NEW v \in Vecs(n + 1), Ordered(v, 0, n + 1, n + 1)
  PROVE  /\ Removed(v) \in Vecs(n + 1) /\ CountOf(Removed(v)) = CountOf(v)
         /\ Removed(v)[n + 1] = v[1]
         /\ Ordered(Removed(v), 0, n, n)
  <1>0. n + 1 \in Nat /\ Len(v) = n + 1 /\ Len(v) - 1 = n /\ 0 + 1 = 1
    BY VecLen
  <1>1. Removed(v) = IF n > 0 THEN heapify(swap(v, 0, n), 0, n) ELSE v
    BY <1>0, Zenon DEF Removed
  <1>2. CASE n = 0
    <2>1. Removed(v) = v
      BY <1>1, <1>2
    <2>2. Ordered(v, 0, n, n)
      BY <1>2 DEF Ordered
    <2> QED  BY <1>2, <2>1, <2>2
  <1>3. CASE n # 0
    <2> DEFINE u == swap(v, 0, n)
               w == heapify(u, 0, n)
    <2>1. /\ 0 \in 0..((n + 1) - 1) /\ n \in 0..((n + 1) - 1) /\ 0 # n /\ n > 0
          /\ n \in 0..(n + 1) /\ 0 \in Nat /\ 0 <= 0
      BY <1>3
    <2>2. /\ u \in Vecs(n + 1) /\ At(u, n) = At(v, 0) /\ CountOf(u) = CountOf(v)
          /\ \A k \in 0..((n + 1) - 1) : k # 0 /\ k # n => At(u, k) = At(v, k)
      BY <1>0, <2>1, SwapFacts, SwapCounts
    <2> HIDE DEF u
    <2>3. Ordered(u, 0, n, 0)
      <3>1. ASSUME NEW a \in 0..(n - 1), NEW b \in 0..(n - 1), a # 0, IsChild(b, a)
            PROVE  Tops(At(u, a), At(u, b))
        <4>1. a < b
          BY <3>1, ChildFacts
        <4>2. /\ a \in 0..((n + 1) - 1) /\ b \in 0..((n + 1) - 1) /\ 0 <= a
              /\ a # n /\ b # n /\ b # 0 /\ a # n + 1
          BY <3>1, <4>1
        <4>3. Tops(At(v, a), At(v, b))
          BY <3>1, <4>2 DEF Ordered
        <4> QED  BY <2>2, <3>1, <4>2, <4>3
      <3> QED  BY <3>1 DEF Ordered
    <2>4. Bridged(u, 0, n, 0)
      <3>1. ASSUME NEW a \in 0..(n - 1), IsChild(0, a) PROVE FALSE
        BY <3>1, ChildFacts
      <3> QED  BY <3>1 DEF Bridged
    <2>5. Sifted(w, u, n + 1, 0, n)
      BY <1>0, <2>1, <2>2, <2>3, <2>4, HeapifySifts
    <2> HIDE DEF w
    <2>6. /\ w \in Vecs(n + 1) /\ CountOf(w) = CountOf(v) /\ Ordered(w, 0, n, n)
          /\ At(w, n) = At(u, n)
      BY <2>1, <2>2, <2>5 DEF Sifted
    <2>7. w[n + 1] = v[1]
      BY <1>0, <2>2, <2>6 DEF At
    <2>8. Removed(v) = w
      BY <1>1, <2>1 DEF w, u
    <2> QED  BY <2>6, <2>7, <2>8
  <1> QED  BY <1>2, <1>3

\* A pop of a heap that is not empty.
LEMMA PopFacts ==
  ASSUME HeapInv, pop, storage # <<>>
  PROVE  /\ HeapInv' /\ popped' = <<storage[1]>>
  <1> DEFINE n == Len(storage) - 1
             s == Removed(storage)
             t == SubSeq(s, 1, n)
  <1>1. /\ storage \in Seq(Elements) /\ n \in Nat /\ n + 1 = Len(storage)
        /\ storage \in Vecs(n + 1) /\ contents = CountOf(storage)
        /\ Ordered(storage, 0, n + 1, n + 1)
    <2>1. storage \in Seq(Elements) /\ Len(storage) \in Nat /\ Len(storage) # 0
      BY DEF HeapInv
    <2>2. n \in Nat /\ n + 1 = Len(storage)
      BY <2>1
    <2>3. contents = CountOf(storage) /\ Ordered(storage, 0, Len(storage), Len(storage))
      BY DEF HeapInv, SameContents, InOrder
    <2>4. storage \in Vecs(Len(storage))
      BY <2>1 DEF Vecs
    <2> HIDE DEF n
    <2> QED  BY <2>1, <2>2, <2>3, <2>4
  <1> HIDE DEF n
  <1>2. /\ s \in Vecs(n + 1) /\ CountOf(s) = CountOf(storage) /\ s[n + 1] = storage[1]
        /\ Ordered(s, 0, n, n)
    BY <1>1, RemovedFacts
  <1> HIDE DEF s
  <1>3. n + 1 \in Nat /\ Len(s) = n + 1 /\ Len(s) - 1 = n /\ s \in Seq(Elements)
    BY <1>1, <1>2, VecLen
  <1>4. /\ storage' = t /\ popped' = <<storage[1]>> /\ UNCHANGED type
        /\ contents' = [contents EXCEPT ![s[n + 1]] = @ - 1]
    <2>1. /\ storage' = SubSeq(s, 1, Len(s) - 1) /\ popped' = <<s[Len(s)]>> /\ UNCHANGED type
          /\ contents' = [contents EXCEPT ![s[Len(s)]] = @ - 1]
      BY DEF pop, s
    <2> QED  BY <1>2, <1>3, <2>1
  <1>5. /\ t \in Seq(Elements) /\ Len(t) = n /\ \A i \in 1..n : s[i] = t[i]
    <2>1. ASSUME NEW i \in 1..n PROVE s[i] \in Elements
      BY <1>1, <1>2 DEF Vecs
    <2>2. /\ t \in Seq(Elements) /\ Len(t) = IF 1 <= n THEN n - 1 + 1 ELSE 0
          /\ \A i \in 1..(n - 1 + 1) : t[i] = s[1 + i - 1]
      BY <1>1, <2>1, SubSeqProperties
    <2> HIDE DEF t
    <2>3. Len(t) = n
      BY <1>1, <2>2
    <2>4. ASSUME NEW i \in 1..n PROVE s[i] = t[i]
      <3>1. i \in 1..(n - 1 + 1) /\ 1 + i - 1 = i
        BY <1>1
      <3> QED  BY <2>2, <3>1
    <2> QED  BY <2>2, <2>3, <2>4
  <1> HIDE DEF t
  <1>6. t \in Vecs(n)
    BY <1>5 DEF Vecs
  <1>7. CountOf(t) = [CountOf(s) EXCEPT ![s[n + 1]] = @ - 1]
    BY <1>1, <1>2, <1>5, <1>6, CountLast
  <1>8. SameContents'
    <2>1. contents' = CountOf(t)
      BY <1>1, <1>2, <1>4, <1>7
    <2> QED  BY <1>4, <2>1 DEF SameContents, CountOf
  <1>9. Ordered(t, 0, Len(t), Len(t))
    <2>1. ASSUME NEW a \in 0..(n - 1) PROVE At(t, a) = At(s, a)
      <3>1. a + 1 \in 1..n
        BY <1>1
      <3> QED  BY <1>5, <3>1 DEF At
    <2>2. Ordered(t, 0, n, n)
      BY <1>2, <2>1 DEF Ordered
    <2> QED  BY <1>5, <2>2
  <1>10. InOrder(storage)'
    BY <1>4, <1>5, <1>9, OrderStays
  <1> QED  BY <1>4, <1>5, <1>8, <1>10 DEF HeapInv

LEMMA EmptyHeap ==
  /\ <<>> \in Seq(Elements) /\ Ordered(<<>>, 0, Len(<<>>), Len(<<>>))
  /\ CountOf(<<>>) = Nothing
  <1>1. <<>> \in Seq(Elements) /\ Len(<<>>) = 0
    BY EmptySeq
  <1>2. Ordered(<<>>, 0, Len(<<>>), Len(<<>>))
    BY <1>1 DEF Ordered
  <1>3. ASSUME NEW e \in Elements PROVE Cardinality({i \in 1..Len(<<>>) : <<>>[i] = e}) = 0
    <2>1. {i \in 1..Len(<<>>) : <<>>[i] = e} = {}
      BY <1>1
    <2> QED  BY <2>1, FS_EmptySet
  <1>4. CountOf(<<>>) = Nothing
    BY <1>3, Zenon DEF CountOf, Nothing
  <1> QED  BY <1>1, <1>2, <1>4

LEMMA HeapInvHolds == HeapSpec => []HeapInv
  <1>1. HeapInit => HeapInv
    <2> SUFFICES ASSUME HeapInit PROVE HeapInv
      OBVIOUS
    <2>1. PICK list \in Vectors : storage = build(list) /\ contents = CountOf(list)
      BY DEF HeapInit
    <2>2. PICK n \in 0..MaxSize : list \in [1..n -> Elements]
      BY DEF Vectors
    <2>3. n \in Nat /\ list \in Vecs(n)
      BY <2>2, ElementsAssumption DEF Vecs
    <2>4. Sifted(storage, list, n, 0, n)
      BY <2>1, <2>3, BuildSifts
    <2> QED  BY <2>1, <2>3, <2>4, SiftedInOrder DEF HeapInv, InOrder, SameContents
  <1>2. HeapInv /\ [HeapNext]_heapVars => HeapInv'
    <2> SUFFICES ASSUME HeapInv, [HeapNext]_heapVars PROVE HeapInv'
      OBVIOUS
    <2>1. ASSUME UNCHANGED <<type, storage, contents>> PROVE HeapInv'
      <3>1. InOrder(storage)'
        BY <2>1, OrderStays DEF HeapInv, InOrder
      <3> QED  BY <2>1, <3>1 DEF HeapInv, SameContents
    <2>2. ASSUME NEW value \in Elements, push(value) PROVE HeapInv'
      BY <2>2, PushStep
    <2>3. ASSUME pop, storage = <<>> PROVE HeapInv'
      BY <2>1, <2>3 DEF pop
    <2>4. ASSUME pop, storage # <<>> PROVE HeapInv'
      BY <2>4, PopFacts
    <2>5. ASSUME clear PROVE HeapInv'
      <3>1. storage' = <<>> /\ contents' = CountOf(<<>>) /\ UNCHANGED type
        BY <2>5, EmptyHeap DEF clear, Nothing
      <3>2. InOrder(storage)'
        BY <3>1, EmptyHeap, OrderStays
      <3>3. SameContents'
        BY <3>1 DEF SameContents, CountOf
      <3> QED  BY <3>1, <3>2, <3>3, EmptyHeap DEF HeapInv
    <2>6. ASSUME UNCHANGED heapVars PROVE HeapInv'
      BY <2>1, <2>6 DEF heapVars
    <2> QED  BY <2>2, <2>3, <2>4, <2>5, <2>6 DEF HeapNext
  <1> QED  BY <1>1, <1>2, PTL DEF HeapSpec

\* No operation loses, duplicates or invents an element, however large the heap
\* and whatever its elements (Heap.h:114-217).
THEOREM ContentsCorrect == HeapSpec => []SameContents
  <1>1. HeapInv => SameContents
    BY DEF HeapInv
  <1> QED  BY <1>1, HeapInvHolds, PTL

\* pop returns the root, which is an extreme of everything in the heap, and
\* nullopt only if there is nothing (Heap.h:202-217).
THEOREM PopCorrect == HeapSpec => PopsExtreme
  <1> DEFINE Extreme ==
               pop => IF contents = Nothing THEN storage = <<>> /\ popped' = <<>>
                      ELSE /\ popped' = <<storage[1]>>
                           /\ contents[storage[1]] > 0
                           /\ \A e \in Elements :
                                contents[e] > 0 => ~Above(e, storage[1])
  <1>1. ASSUME HeapInv, pop, storage = <<>>
        PROVE  contents = Nothing /\ popped' = <<>>
    <2>1. contents = Nothing
      BY <1>1, EmptyHeap DEF HeapInv, SameContents
    <2> QED  BY <1>1, <2>1 DEF pop
  <1>2. ASSUME HeapInv, pop, storage # <<>>
        PROVE  /\ contents # Nothing /\ popped' = <<storage[1]>> /\ contents[storage[1]] > 0
               /\ \A e \in Elements : contents[e] > 0 => ~Above(e, storage[1])
    <2> DEFINE n == Len(storage)
    <2>1. /\ n \in Nat /\ 1 \in 1..n /\ storage \in Vecs(n) /\ contents = CountOf(storage)
          /\ Ordered(storage, 0, n, n)
      BY <1>2 DEF HeapInv, SameContents, InOrder, Vecs
    <2> HIDE DEF n
    <2>2. storage[1] \in Elements
      BY <2>1 DEF Vecs
    <2>3. contents[storage[1]] > 0
      BY <2>1, <2>2, CountFacts
    <2>4. contents # Nothing
      <3>1. Nothing[storage[1]] = 0
        BY <2>2 DEF Nothing
      <3>2. ~(0 > 0)
        OBVIOUS
      <3> QED  BY <2>3, <3>1, <3>2, Zenon
    <2>5. ASSUME NEW e \in Elements, contents[e] > 0 PROVE ~Above(e, storage[1])
      <3>1. PICK i \in 1..n : storage[i] = e
        BY <2>1, <2>5, CountFacts
      <3> DEFINE j == i - 1
      <3>2. j \in 0..(n - 1) /\ j + 1 = i /\ 0 + 1 = 1
        BY <2>1
      <3> HIDE DEF j
      <3>3. Tops(At(storage, 0), At(storage, j))
        BY <2>1, <3>2, RootTops
      <3> QED  BY <3>1, <3>2, <3>3 DEF Tops, At
    <2> QED  BY <1>2, <2>3, <2>4, <2>5, PopFacts
  <1>3. HeapInv => [Extreme]_heapVars
    <2> SUFFICES ASSUME HeapInv, pop
                 PROVE  IF contents = Nothing THEN storage = <<>> /\ popped' = <<>>
                        ELSE /\ popped' = <<storage[1]>>
                             /\ contents[storage[1]] > 0
                             /\ \A e \in Elements : contents[e] > 0 => ~Above(e, storage[1])
      OBVIOUS
    <2>1. CASE storage = <<>>
      BY <1>1, <2>1
    <2>2. CASE storage # <<>>
      BY <1>2, <2>2
    <2> QED  BY <2>1, <2>2
  <1> QED  BY <1>3, HeapInvHolds, PTL DEF PopsExtreme
=============================================================================
