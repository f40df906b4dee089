-------------------------- MODULE ObjCRuntimeProofs --------------------------
(***************************************************************************)
(* Methods are layered without loss, for every set of classes, blocks and   *)
(* threads.                                                                 *)
(*                                                                          *)
(* A block belongs to the thread that installs it until it is a layer of    *)
(* its class, and is then a layer once, for good.  A method that replaced   *)
(* another one is never the first layer, so it has something to lead to,    *)
(* and only the thread that installed it can owe it that.  A class that     *)
(* has a method keeps one, so what a block was promised above it stays.     *)
(***************************************************************************)
EXTENDS ObjCRuntime, WellFoundedInduction, SequenceTheorems, TLAPS

Installing == {"add", "replace", "assign"}

\* What a thread installs is a block that a macro made for a class.
OwnBlock ==
    \A t \in Threads : pc[t] \in Installing =>
        /\ imp[t] \in Blocks /\ home[imp[t]] \in Classes
        /\ kind[imp[t]] \in (IF pc[t] = "add" THEN {"add", "override"} ELSE {"replace"})
        /\ next[imp[t]] = Nil
        /\ pc[t] = "replace" => methods[home[imp[t]]] # Nil

\* Nobody else is installing that one.
OneInstaller ==
    \A t, u \in Threads :
        pc[t] \in Installing /\ pc[u] \in Installing /\ imp[t] = imp[u] => t = u

\* The layers of a class are different, and are its own.  The first one is compiled, or
\* an addition; the others have replaced something.
KindIn(k, i) == IF i \in Blocks THEN k[i] ELSE "add"

LayeredAt(c, s, k, h) ==
    /\ \A i \in 1..Len(s) :
         /\ s[i] \in Blocks => h[s[i]] = c
         /\ s[i] \notin Blocks => s[i] = Compiled[c]
         /\ IF i = 1 THEN KindIn(k, s[i]) \in {"add", "override"}
                     ELSE s[i] \in Blocks /\ k[s[i]] = "replace"
    /\ \A i, j \in 1..Len(s) : s[i] = s[j] => i = j

Layered == \A c \in Classes : LayeredAt(c, layers[c], kind, home)

\* NoLayerLost for one class, by its layers s and its method m; x is next, and the others
\* are pc, imp and found.
Leaving(p, im, f, b, i) == \E t \in Threads : p[t] = "assign" /\ im[t] = b /\ f[t] = i

ChainAt(s, m, x, p, im, f) ==
    /\ s = <<>> <=> m = Nil
    /\ s # <<>> => m = s[Len(s)]
    /\ \A i \in 2..Len(s) :
         x[s[i]] = s[i - 1] \/ (x[s[i]] = Nil /\ Leaving(p, im, f, s[i], s[i - 1]))

Chained == \A c \in Classes : ChainAt(layers[c], methods[c], next, pc, imp, found)

\* A block that is free, or still to be installed, is not a layer.
NotYet(b) == kind[b] = "free" \/ \E t \in Threads : pc[t] \in {"add", "replace"} /\ imp[t] = b

FreshBlock ==
    \A b \in Blocks : NotYet(b) =>
        next[b] = Nil /\ \A c \in Classes : \A i \in 1..Len(layers[c]) : layers[c][i] # b

\* A thread that is about to assign has found the layer below its own.
Covers(s, b, f) == \E i \in 2..Len(s) : s[i] = b /\ s[i - 1] = f

Owing ==
    \A t \in Threads : pc[t] = "assign" =>
        Covers(layers[home[imp[t]]], imp[t], found[t])

\* What a thread runs is a layer of some class.
RunsLayer ==
    \A t \in Threads : pc[t] = "send" =>
        \E c \in Classes : \E i \in 1..Len(layers[c]) : layers[c][i] = imp[t]

\* What an override goes on to is there.
HasSuper ==
    \A b \in Blocks :
        /\ kind[b] # "free" => home[b] \in Classes
        /\ kind[b] = "override" => NPClassGetSuperMethod(home[b]) # Nil

RuntimeInv ==
    /\ TypeOK /\ OwnBlock /\ OneInstaller /\ Layered /\ FreshBlock /\ Owing
    /\ RunsLayer /\ HasSuper /\ Chained /\ CrashNeedsWindow

-----------------------------------------------------------------------------
\* A set of natural numbers that is not empty has a least element.
LEMMA LeastIndex ==
  ASSUME NEW S, S \subseteq Nat, S # {}
  PROVE  Min(S) \in S
  <1> DEFINE R == {p \in Nat \X Nat : p[1] < p[2]}
  <1>1. IsWellFoundedOn(R, Nat)
    <2>1. R \cap (Nat \X Nat) \subseteq OpToRel(<, Nat)
      BY DEF OpToRel
    <2> QED  BY <2>1, NatLessThanWellFounded, IsWellFoundedOnSubrelation
  <1>2. PICK x \in S : \A y \in S : ~(<<y, x>> \in R)
    <2> HIDE DEF R
    <2> QED  BY <1>1, WFMin
  <1>3. ASSUME NEW y \in S PROVE x =< y
    <2>1. x \in Nat /\ y \in Nat /\ <<y, x>> \notin R
      BY <1>2
    <2>2. y < x => <<y, x>> \in R
      BY <2>1
    <2> QED  BY <2>1, <2>2
  <1> QED  BY <1>2, <1>3 DEF Min

\* Nearest, with the method table as an argument.
NearestIn(m, line) ==
    LET having == {i \in 1..Len(line) : m[line[i]] # Nil}
    IN  IF having = {} THEN Nil ELSE m[line[Min(having)]]

\* What is found along a line of classes is the method of one of them, and something is
\* found as soon as one of them has a method.
LEMMA NearestFinds ==
  ASSUME NEW m, NEW line \in Seq(Classes)
  PROVE  /\ NearestIn(m, line) # Nil => \E c \in Classes : NearestIn(m, line) = m[c]
         /\ (\E i \in 1..Len(line) : m[line[i]] # Nil) <=> NearestIn(m, line) # Nil
  <1> DEFINE having == {i \in 1..Len(line) : m[line[i]] # Nil}
  <1>1. having \subseteq Nat /\ Len(line) \in Nat
    OBVIOUS
  <1>2. \A i \in 1..Len(line) : line[i] \in Classes
    OBVIOUS
  <1>3. NearestIn(m, line) = IF having = {} THEN Nil ELSE m[line[Min(having)]]
    BY DEF NearestIn
  <1>4. having # {} => Min(having) \in having
    <2> HIDE DEF having
    <2> QED  BY <1>1, LeastIndex
  <1>5. having # {} => Min(having) \in 1..Len(line) /\ m[line[Min(having)]] # Nil
    BY <1>4
  <1>6. (\E i \in 1..Len(line) : m[line[i]] # Nil) <=> having # {}
    OBVIOUS
  <1> HIDE DEF having
  <1> QED  BY <1>2, <1>3, <1>5, <1>6

\* The part of a lineage above a class is a line of classes.
LEMMA Above ==
  ASSUME NEW c \in Classes
  PROVE  Lineage[c] \in Seq(Classes) /\ Tail(Lineage[c]) \in Seq(Classes)
  <1>1. Lineage[c] \in Seq(Classes) /\ Lineage[c] # <<>>
    BY ClassAssumption
  <1>2. Tail(Lineage[c]) \in Seq(Classes)
    BY <1>1, HeadTailProperties
  <1> QED  BY <1>1, <1>2

\* A class that has a method has it as a layer.
LEMMA MethodIsLayer ==
  ASSUME TypeOK, Chained, NEW c \in Classes, methods[c] # Nil
  PROVE  \E i \in 1..Len(layers[c]) : layers[c][i] = methods[c]
  <1>1. layers[c] # <<>> /\ methods[c] = layers[c][Len(layers[c])] /\ layers[c] \in Seq(Imps)
    BY DEF Chained, ChainAt, TypeOK
  <1>2. Len(layers[c]) \in 1..Len(layers[c])
    BY <1>1
  <1> QED  BY <1>1, <1>2

\* Nil is no implementation.
LEMMA NilIsNoImp == Nil \notin Imps
  BY ClassAssumption DEF Imps

\* While classes keep their methods, an override keeps what it goes on to.
LEMMA SuperStays ==
  ASSUME HasSuper, UNCHANGED <<kind, home>>,
         \A c \in Classes : methods[c] # Nil => methods'[c] # Nil
  PROVE  HasSuper'
  <1> SUFFICES ASSUME NEW b \in Blocks, kind[b] = "override"
               PROVE  NPClassGetSuperMethod(home[b])' # Nil
    BY DEF HasSuper
  <1>1. home[b] \in Classes /\ NPClassGetSuperMethod(home[b]) # Nil
    BY DEF HasSuper
  <1> DEFINE line == Tail(Lineage[home[b]])
  <1>2. line \in Seq(Classes)
    BY <1>1, Above
  <1>3. NPClassGetSuperMethod(home[b]) = NearestIn(methods, line)
        /\ NPClassGetSuperMethod(home[b])' = NearestIn(methods', line)
    BY DEF NPClassGetSuperMethod, Nearest, NearestIn
  <1> HIDE DEF line
  <1>4. PICK i \in 1..Len(line) : methods[line[i]] # Nil
    BY <1>1, <1>2, <1>3, NearestFinds
  <1>5. methods'[line[i]] # Nil
    BY <1>2, <1>4
  <1> QED  BY <1>2, <1>3, <1>5, NearestFinds

-----------------------------------------------------------------------------
\* A macro that makes a block and leaves it at that preserves the invariant.
LEMMA BeginStep ==
  ASSUME RuntimeInv, crashed = Nil, NEW t \in Threads, pc[t] = "idle",
         NEW c \in Classes, NEW b \in Blocks, kind[b] = "free",
         NEW k \in {"add", "replace", "override"}, MakeImp(t, c, b, k),
         pc' = [pc EXCEPT ![t] = IF k = "replace" THEN "replace" ELSE "add"],
         UNCHANGED <<methods, layers, next, seen, found, crashed>>,
         k = "replace" => methods[c] # Nil,
         k = "override" => NPClassGetSuperMethod(c) # Nil
  PROVE  RuntimeInv'
  <1> USE DEF RuntimeInv
  <1>0. b \in Imps /\ b # Nil
    BY ClassAssumption DEF Imps
  <1>1. /\ kind'[b] = k /\ home'[b] = c /\ imp'[t] = b
        /\ pc'[t] = IF k = "replace" THEN "replace" ELSE "add"
        /\ \A x \in Blocks \ {b} : kind'[x] = kind[x] /\ home'[x] = home[x]
        /\ \A u \in Threads \ {t} : pc'[u] = pc[u] /\ imp'[u] = imp[u]
    BY DEF MakeImp, TypeOK
  <1>2. next[b] = Nil /\ \A d \in Classes : \A i \in 1..Len(layers[d]) : layers[d][i] # b
    BY DEF FreshBlock, NotYet
  <1>3. \A u \in Threads : pc[u] \in Installing => imp[u] \in Blocks /\ imp[u] # b
    BY DEF OwnBlock
  <1>4. TypeOK'
    BY <1>0 DEF TypeOK, MakeImp
  <1>5. OwnBlock'
    BY <1>1, <1>2, <1>3 DEF OwnBlock, Installing
  <1>6. OneInstaller'
    BY <1>1, <1>3 DEF OneInstaller
  <1>7. Layered'
    BY <1>1, <1>2 DEF Layered, LayeredAt, KindIn
  <1>8. FreshBlock'
    BY <1>1, <1>2 DEF FreshBlock, NotYet
  <1>9. Owing'
    BY <1>1, <1>3 DEF Owing, Installing
  <1>10. RunsLayer'
    BY <1>1 DEF RunsLayer
  <1>11. HasSuper'
    <2>1. \A d : NPClassGetSuperMethod(d)' = NPClassGetSuperMethod(d)
      BY DEF NPClassGetSuperMethod, Nearest
    <2> QED  BY <1>1, <2>1 DEF HasSuper
  <1>12. Chained'
    <2>1. \A x, i : Leaving(pc, imp, found, x, i) => Leaving(pc', imp', found', x, i)
      BY <1>1 DEF Leaving
    <2> QED  BY <2>1 DEF Chained, ChainAt
  <1>13. CrashNeedsWindow'
    BY DEF CrashNeedsWindow
  <1> QED  BY <1>4, <1>5, <1>6, <1>7, <1>8, <1>9, <1>10, <1>11, <1>12, <1>13

\* Layers with one more on top, layer by layer.
LEMMA LayerOnTop ==
  ASSUME NEW s \in Seq(Imps), NEW b \in Imps
  PROVE  /\ Len(s) \in Nat /\ Len(Append(s, b)) = Len(s) + 1
         /\ Append(s, b)[Len(s) + 1] = b /\ Append(s, b) # <<>>
         /\ \A i \in 1..Len(s) : Append(s, b)[i] = s[i]
  BY AppendProperties

\* A new block on top of the layers keeps them different and in order.
LEMMA LayeredOnTop ==
  ASSUME NEW c, NEW s \in Seq(Imps), NEW k, NEW h, NEW b \in Blocks,
         LayeredAt(c, s, k, h), h[b] = c, \A i \in 1..Len(s) : s[i] # b,
         k[b] \in (IF Len(s) = 0 THEN {"add", "override"} ELSE {"replace"})
  PROVE  LayeredAt(c, Append(s, b), k, h)
  <1> DEFINE r == Append(s, b)
             n == Len(s)
             Layer(i) == /\ r[i] \in Blocks => h[r[i]] = c
                         /\ r[i] \notin Blocks => r[i] = Compiled[c]
                         /\ IF i = 1 THEN KindIn(k, r[i]) \in {"add", "override"}
                                     ELSE r[i] \in Blocks /\ k[r[i]] = "replace"
  <1>1. /\ n \in Nat /\ Len(r) = n + 1 /\ r[n + 1] = b
        /\ \A i \in 1..n : r[i] = s[i]
    BY LayerOnTop DEF Imps
  <1> HIDE DEF r
  <1>2. \A i \in 1..n : Layer(i)
    BY <1>1 DEF LayeredAt
  <1>3. Layer(n + 1)
    BY <1>1 DEF KindIn
  <1>4. \A i \in 1..(n + 1) : i \in 1..n \/ i = n + 1
    BY <1>1
  <1>5. \A i, j \in 1..n : r[i] = r[j] => i = j
    BY <1>1 DEF LayeredAt
  <1>6. \A i \in 1..n : r[i] # r[n + 1]
    BY <1>1
  <1>7. \A i, j \in 1..(n + 1) : r[i] = r[j] => i = j
    BY <1>4, <1>5, <1>6
  <1>8. \A i \in 1..(n + 1) : Layer(i)
    BY <1>2, <1>3, <1>4
  <1>9. LayeredAt(c, r, k, h)
    BY <1>1, <1>7, <1>8 DEF LayeredAt
  <1> QED  BY <1>9 DEF r

\* What was above another layer stays there, and the new one is above the last.
LEMMA CoversOnTop ==
  ASSUME NEW s \in Seq(Imps), NEW b \in Imps
  PROVE  /\ \A x, f : Covers(s, x, f) => Covers(Append(s, b), x, f)
         /\ Len(s) > 0 => Covers(Append(s, b), b, s[Len(s)])
  <1> DEFINE r == Append(s, b)
             n == Len(s)
  <1>1. /\ n \in Nat /\ Len(r) = n + 1 /\ r[n + 1] = b
        /\ \A i \in 1..n : r[i] = s[i]
    BY LayerOnTop
  <1> HIDE DEF r
  <1>2. ASSUME NEW x, NEW f, Covers(s, x, f) PROVE Covers(r, x, f)
    <2>1. PICK i \in 2..n : s[i] = x /\ s[i - 1] = f
      BY <1>2 DEF Covers
    <2>2. i \in 2..Len(r) /\ r[i] = x /\ r[i - 1] = f
      BY <1>1, <2>1
    <2> QED  BY <2>2 DEF Covers
  <1>3. ASSUME n > 0 PROVE Covers(r, b, s[n])
    <2>1. n + 1 \in 2..Len(r) /\ r[n + 1] = b /\ r[(n + 1) - 1] = s[n]
      BY <1>1, <1>3
    <2> QED  BY <2>1 DEF Covers
  <1> QED  BY <1>2, <1>3 DEF r

\* A block becomes a layer of its class, by class_addMethod or class_replaceMethod.
LEMMA PushStep ==
  ASSUME RuntimeInv, crashed = Nil, NEW t \in Threads, pc[t] \in {"add", "replace"},
         NEW c, c = home[imp[t]],
         methods' = [methods EXCEPT ![c] = imp[t]],
         layers' = [layers EXCEPT ![c] = Append(@, imp[t])],
         \/ /\ pc[t] = "add" /\ methods[c] = Nil
            /\ pc' = [pc EXCEPT ![t] = "idle"] /\ imp' = [imp EXCEPT ![t] = Nil]
            /\ UNCHANGED found
         \/ /\ pc[t] = "replace" /\ pc' = [pc EXCEPT ![t] = "assign"] /\ UNCHANGED imp
            /\ found' = [found EXCEPT ![t] = methods[c]],
         UNCHANGED <<kind, home, next, seen, crashed>>
  PROVE  RuntimeInv'
  <1> USE DEF RuntimeInv
  <1> DEFINE b == imp[t]
             s == layers[c]
             n == Len(s)
  <1>0. /\ b \in Blocks /\ c \in Classes /\ b \in Imps /\ b # Nil /\ next[b] = Nil
        /\ kind[b] \in (IF pc[t] = "add" THEN {"add", "override"} ELSE {"replace"})
        /\ pc[t] = "replace" => methods[c] # Nil
        /\ home[b] = c
    BY ClassAssumption DEF OwnBlock, Installing, Imps
  <1>1. \A d \in Classes : \A i \in 1..Len(layers[d]) : layers[d][i] # b
    BY <1>0 DEF FreshBlock, NotYet
  <1>2. s \in Seq(Imps) /\ n \in Nat
    BY <1>0 DEF TypeOK
  <1>3. /\ layers'[c] = Append(s, b) /\ \A d \in Classes \ {c} : layers'[d] = layers[d]
        /\ methods'[c] = b /\ \A d \in Classes \ {c} : methods'[d] = methods[d]
    BY <1>0 DEF TypeOK
  <1>4. /\ Len(layers'[c]) = n + 1 /\ layers'[c][n + 1] = b
        /\ \A i \in 1..n : layers'[c][i] = s[i]
        /\ layers'[c] # <<>>
    BY <1>0, <1>2, <1>3, LayerOnTop
  <1>5. /\ \A u \in Threads \ {t} : pc'[u] = pc[u] /\ imp'[u] = imp[u] /\ found'[u] = found[u]
        /\ pc'[t] = IF pc[t] = "add" THEN "idle" ELSE "assign"
        /\ pc[t] = "replace" => imp'[t] = b /\ found'[t] = methods[c]
    BY DEF TypeOK
  <1>6. IF pc[t] = "add" THEN n = 0 ELSE n > 0 /\ s[n] = methods[c]
    BY <1>0, <1>2 DEF Chained, ChainAt
  <1>7. TypeOK'
    <2>1. methods' \in [Classes -> Imps \cup {Nil}]
      BY <1>0 DEF TypeOK
    <2>2. layers' \in [Classes -> Seq(Imps)]
      <3>1. Append(s, b) \in Seq(Imps)
        BY <1>0, <1>2, AppendProperties
      <3> QED  BY <1>0, <3>1 DEF TypeOK
    <2>3. found' \in [Threads -> Imps \cup {Nil}]
      BY <1>0 DEF TypeOK
    <2>4. /\ pc' \in [Threads -> {"idle", "add", "replace", "assign", "send"}]
          /\ imp' \in [Threads -> Imps \cup {Nil}]
      BY <1>0 DEF TypeOK
    <2>5. \A u \in Threads : pc'[u] # "idle" => imp'[u] # Nil
      BY <1>0, <1>5 DEF TypeOK
    <2> QED  BY <2>1, <2>2, <2>3, <2>4, <2>5 DEF TypeOK
  <1> HIDE DEF b, s, n
  <1>8. \A d \in Classes : methods[d] # Nil => methods'[d] # Nil
    BY <1>0, <1>3
  <1>9. OwnBlock'
    BY <1>0, <1>5, <1>8 DEF OwnBlock, Installing, b
  <1>10. OneInstaller'
    BY <1>5 DEF OneInstaller, Installing, b
  <1>11. Layered'
    <2>1. LayeredAt(c, s, kind, home)
      BY <1>0 DEF Layered, s
    <2>2. LayeredAt(c, layers'[c], kind, home)
      <3>1. \A i \in 1..Len(s) : s[i] # b
        BY <1>0, <1>1 DEF s
      <3>2. kind[b] \in (IF Len(s) = 0 THEN {"add", "override"} ELSE {"replace"})
        BY <1>0, <1>2, <1>6 DEF n
      <3>3. LayeredAt(c, Append(s, b), kind, home)
        BY <1>0, <1>2, <2>1, <3>1, <3>2, LayeredOnTop
      <3> QED  BY <1>3, <3>3
    <2>3. \A d \in Classes \ {c} : LayeredAt(d, layers'[d], kind, home)
      BY <1>3 DEF Layered
    <2> QED  BY <2>2, <2>3 DEF Layered
  <1>12. FreshBlock'
    <2>1. ASSUME NEW x \in Blocks, NotYet(x)' PROVE NotYet(x) /\ x # b
      <3>1. CASE kind'[x] = "free"
        BY <1>0, <3>1 DEF NotYet
      <3>2. CASE \E u \in Threads : pc'[u] \in {"add", "replace"} /\ imp'[u] = x
        BY <1>5, <3>2 DEF NotYet, OneInstaller, Installing, b
      <3> QED  BY <2>1, <3>1, <3>2 DEF NotYet
    <2>2. ASSUME NEW x \in Blocks, NotYet(x)', NEW d \in Classes, NEW i \in 1..Len(layers'[d])
          PROVE  layers'[d][i] # x
      <3>1. NotYet(x) /\ x # b
        BY <2>1, <2>2
      <3>2. CASE d # c
        BY <1>3, <3>1, <3>2 DEF FreshBlock
      <3>3. CASE d = c
        <4>1. i \in 1..n \/ i = n + 1
          BY <1>2, <1>4, <3>3
        <4> QED  BY <1>0, <1>4, <3>1, <3>3, <4>1 DEF FreshBlock, s, n
      <3> QED  BY <3>2, <3>3
    <2> QED  BY <2>1, <2>2 DEF FreshBlock
  <1>13. Owing'
    <2> SUFFICES ASSUME NEW u \in Threads, pc'[u] = "assign"
                 PROVE  Covers(layers'[home[imp'[u]]], imp'[u], found'[u])
      BY DEF Owing
    <2>1. CASE u = t
      <3>1. imp'[u] = b /\ found'[u] = s[n] /\ home[b] = c /\ n > 0
        BY <1>0, <1>5, <1>6, <2>1
      <3>2. Covers(Append(s, b), b, s[n])
        BY <1>0, <1>2, <3>1, CoversOnTop DEF n
      <3> QED  BY <1>3, <3>1, <3>2
    <2>2. CASE u # t
      <3>1. pc[u] = "assign" /\ imp'[u] = imp[u] /\ found'[u] = found[u]
        BY <1>5, <2>2
      <3>2. home[imp[u]] \in Classes /\ Covers(layers[home[imp[u]]], imp[u], found[u])
        BY <3>1 DEF OwnBlock, Installing, Owing
      <3>3. CASE home[imp[u]] # c
        BY <1>3, <3>1, <3>2, <3>3
      <3>4. CASE home[imp[u]] = c
        <4>1. Covers(Append(s, b), imp[u], found[u])
          BY <1>0, <1>2, <3>2, <3>4, CoversOnTop DEF s
        <4>2. layers'[home[imp'[u]]] = Append(s, b)
          BY <1>3, <3>1, <3>4
        <4> QED  BY <3>1, <4>1, <4>2
      <3> QED  BY <3>3, <3>4
    <2> QED  BY <2>1, <2>2
  <1>14. RunsLayer'
    <2> SUFFICES ASSUME NEW u \in Threads, pc'[u] = "send"
                 PROVE  \E d \in Classes : \E i \in 1..Len(layers'[d]) : layers'[d][i] = imp'[u]
      BY DEF RunsLayer
    <2>1. pc[u] = "send" /\ imp'[u] = imp[u]
      BY <1>5
    <2>a. PICK d \in Classes : \E i \in 1..Len(layers[d]) : layers[d][i] = imp[u]
      BY <2>1 DEF RunsLayer
    <2>2. PICK i \in 1..Len(layers[d]) : layers[d][i] = imp[u]
      BY <2>a
    <2>3. i \in 1..Len(layers'[d]) /\ layers'[d][i] = layers[d][i]
      BY <1>2, <1>3, <1>4, <2>2 DEF s, n
    <2> QED  BY <2>1, <2>2, <2>3
  <1>15. HasSuper'
    BY <1>8, SuperStays
  <1>16. Chained'
    <2>1. \A x, i : Leaving(pc, imp, found, x, i) => Leaving(pc', imp', found', x, i)
      BY <1>5 DEF Leaving
    <2>2. ASSUME NEW l, NEW m, ChainAt(l, m, next, pc, imp, found)
          PROVE  ChainAt(l, m, next, pc', imp', found')
      BY <2>1, <2>2 DEF ChainAt
    <2>3. \A d \in Classes \ {c} : ChainAt(layers'[d], methods'[d], next, pc', imp', found')
      BY <1>3, <2>2 DEF Chained
    <2>4. ASSUME NEW i \in 2..(n + 1)
          PROVE  \/ next[layers'[c][i]] = layers'[c][i - 1]
                 \/ /\ next[layers'[c][i]] = Nil
                    /\ Leaving(pc', imp', found', layers'[c][i], layers'[c][i - 1])
      <3>0. i \in 2..n \/ i = n + 1
        BY <1>2
      <3>1. CASE i \in 2..n
        <4>1. i \in 1..n /\ i - 1 \in 1..n
          BY <1>2, <3>1
        <4>2. ChainAt(s, methods[c], next, pc', imp', found')
          BY <1>0, <2>2 DEF Chained, s
        <4> QED  BY <1>4, <3>1, <4>1, <4>2 DEF ChainAt, n
      <3>2. CASE i = n + 1
        <4>1. n \in 1..n /\ i - 1 = n /\ pc[t] = "replace" /\ s[n] = methods[c]
          BY <1>2, <1>6, <2>4, <3>2
        <4>2. pc'[t] = "assign" /\ imp'[t] = b /\ found'[t] = s[n]
          BY <1>5, <4>1
        <4>3. Leaving(pc', imp', found', b, s[n])
          BY <4>2 DEF Leaving
        <4>4. layers'[c][i] = b /\ layers'[c][i - 1] = s[n]
          BY <1>4, <3>2, <4>1
        <4> QED  BY <1>0, <4>3, <4>4
      <3> QED  BY <3>0, <3>1, <3>2
    <2>5. ChainAt(layers'[c], methods'[c], next, pc', imp', found')
      BY <1>0, <1>3, <1>4, <2>4 DEF ChainAt
    <2> QED  BY <2>3, <2>5 DEF Chained
  <1>17. CrashNeedsWindow'
    BY DEF CrashNeedsWindow
  <1> QED  BY <1>7, <1>9, <1>10, <1>11, <1>12, <1>13, <1>14, <1>15, <1>16, <1>17

\* A thread ends its macro, or a send of it starts, goes on or returns: the thread then
\* is idle or runs a layer.
LEMMA QuietStep ==
  ASSUME RuntimeInv, crashed = Nil, NEW t \in Threads, pc[t] \in {"idle", "add", "send"},
         NEW i, NEW label \in {"idle", "send"},
         pc' = [pc EXCEPT ![t] = label], imp' = [imp EXCEPT ![t] = i],
         IF label = "idle" THEN i = Nil ELSE i \in Imps,
         label = "send" => \E c \in Classes : \E j \in 1..Len(layers[c]) : layers[c][j] = i,
         UNCHANGED <<methods, kind, home, next, seen, found, crashed, layers>>
  PROVE  RuntimeInv'
  <1> USE DEF RuntimeInv
  <1>1. /\ \A u \in Threads \ {t} : pc'[u] = pc[u] /\ imp'[u] = imp[u]
        /\ pc'[t] = label /\ imp'[t] = i
    BY DEF TypeOK
  <1>2. TypeOK'
    BY NilIsNoImp DEF TypeOK
  <1>3. OwnBlock' /\ OneInstaller' /\ Owing'
    BY <1>1 DEF OwnBlock, OneInstaller, Owing, Installing
  <1>4. Layered'
    BY DEF Layered
  <1>5. FreshBlock'
    BY <1>1 DEF FreshBlock, NotYet
  <1>6. RunsLayer'
    BY <1>1 DEF RunsLayer
  <1>7. HasSuper'
    BY SuperStays
  <1>8. Chained'
    <2>1. \A x, j : Leaving(pc, imp, found, x, j) => Leaving(pc', imp', found', x, j)
      BY <1>1 DEF Leaving
    <2> QED  BY <2>1 DEF Chained, ChainAt
  <1>9. CrashNeedsWindow'
    BY DEF CrashNeedsWindow
  <1> QED  BY <1>2, <1>3, <1>4, <1>5, <1>6, <1>7, <1>8, <1>9

\* The assignment of _np_next_imp pays what the new layer was owed.
LEMMA AssignStep ==
  ASSUME RuntimeInv, crashed = Nil, NEW t \in Threads, Assign(t)
  PROVE  RuntimeInv'
  <1> USE DEF RuntimeInv
  <1> DEFINE b == imp[t]
             c == home[b]
  <1>0. /\ pc[t] = "assign" /\ b \in Blocks /\ c \in Classes /\ kind[b] = "replace"
        /\ UNCHANGED <<methods, layers, kind, home, crashed>>
    BY DEF Assign, OwnBlock, Installing, tables, blockVars
  <1>1. /\ \A u \in Threads \ {t} : pc'[u] = pc[u] /\ imp'[u] = imp[u] /\ found'[u] = found[u]
        /\ pc'[t] = "idle" /\ imp'[t] = Nil /\ found'[t] = Nil
        /\ next'[b] = found[t] /\ \A x \in Blocks \ {b} : next'[x] = next[x]
    BY <1>0 DEF TypeOK, Assign
  <1>2. PICK n \in 2..Len(layers[c]) : layers[c][n] = b /\ layers[c][n - 1] = found[t]
    BY <1>0 DEF Owing, Covers
  <1>a. \A u \in Threads \ {t} : pc[u] \in Installing => imp[u] # b
    BY <1>0 DEF OneInstaller, Installing
  <1>3. TypeOK'
    <2>1. next' \in [Blocks -> Imps \cup {Nil}] /\ seen' \in [Blocks -> SUBSET Threads]
      BY <1>0 DEF TypeOK, Assign
    <2>2. /\ pc' \in [Threads -> {"idle", "add", "replace", "assign", "send"}]
          /\ imp' \in [Threads -> Imps \cup {Nil}] /\ found' \in [Threads -> Imps \cup {Nil}]
      BY DEF TypeOK, Assign
    <2>3. \A u \in Threads : pc'[u] # "idle" => imp'[u] # Nil
      BY <1>1 DEF TypeOK
    <2> QED  BY <1>0, <2>1, <2>2, <2>3 DEF TypeOK
  <1> HIDE DEF b, c
  <1>4. OwnBlock' /\ OneInstaller' /\ Owing'
    BY <1>0, <1>1, <1>a, SMTT(60) DEF OwnBlock, OneInstaller, Owing, Installing
  <1>5. Layered'
    BY <1>0 DEF Layered
  <1>6. FreshBlock'
    <2>1. ~NotYet(b)
      BY <1>0, <1>2 DEF FreshBlock
    <2>2. \A x \in Blocks : NotYet(x)' => NotYet(x)
      BY <1>0, <1>1 DEF NotYet
    <2>3. \A x \in Blocks : NotYet(x)' => x # b
      BY <2>1, <2>2
    <2> QED  BY <1>0, <1>1, <2>2, <2>3 DEF FreshBlock
  <1>7. RunsLayer'
    BY <1>0, <1>1 DEF RunsLayer
  <1>8. HasSuper'
    BY <1>0, SuperStays
  <1>9. Chained'
    <2> SUFFICES ASSUME NEW d \in Classes
                 PROVE  ChainAt(layers[d], methods[d], next', pc', imp', found')
      BY <1>0 DEF Chained
    <2>0. /\ ChainAt(layers[d], methods[d], next, pc, imp, found)
          /\ LayeredAt(d, layers[d], kind, home) /\ Len(layers[d]) \in Nat
      BY DEF Chained, Layered, TypeOK
    <2>1. ASSUME NEW i \in 2..Len(layers[d])
          PROVE  \/ next'[layers[d][i]] = layers[d][i - 1]
                 \/ /\ next'[layers[d][i]] = Nil
                    /\ Leaving(pc', imp', found', layers[d][i], layers[d][i - 1])
      <3>0. i \in 1..Len(layers[d]) /\ i # 1
        BY <2>0
      <3>1. CASE layers[d][i] = b
        <4>1. d = c
          BY <1>0, <2>0, <3>0, <3>1 DEF LayeredAt, c
        <4>2. n \in 1..Len(layers[d])
          BY <1>2, <2>0, <4>1
        <4>3. i = n
          BY <1>2, <2>0, <3>0, <3>1, <4>1, <4>2 DEF LayeredAt
        <4> QED  BY <1>1, <1>2, <3>1, <4>1, <4>3
      <3>2. CASE layers[d][i] # b
        <4>1. layers[d][i] \in Blocks
          BY <2>0, <3>0 DEF LayeredAt
        <4>2. next'[layers[d][i]] = next[layers[d][i]]
          BY <1>1, <3>2, <4>1
        <4>3. \A y : Leaving(pc, imp, found, layers[d][i], y)
                        => Leaving(pc', imp', found', layers[d][i], y)
          BY <1>1, <3>2 DEF Leaving, b
        <4> QED  BY <2>0, <4>2, <4>3 DEF ChainAt
      <3> QED  BY <3>1, <3>2
    <2> QED  BY <2>0, <2>1 DEF ChainAt
  <1>10. CrashNeedsWindow'
    BY <1>0 DEF CrashNeedsWindow
  <1> QED  BY <1>3, <1>4, <1>5, <1>6, <1>7, <1>8, <1>9, <1>10

-----------------------------------------------------------------------------
\* What a line of classes offers is an implementation, and a layer of one of them.
LEMMA FoundIsLayer ==
  ASSUME TypeOK, Chained, NEW line \in Seq(Classes), Nearest(line) # Nil
  PROVE  /\ Nearest(line) \in Imps
         /\ \E c \in Classes : \E j \in 1..Len(layers[c]) : layers[c][j] = Nearest(line)
  <1>1. Nearest(line) = NearestIn(methods, line)
    BY DEF Nearest, NearestIn
  <1>2. PICK c \in Classes : Nearest(line) = methods[c]
    BY <1>1, NearestFinds
  <1>3. methods[c] \in Imps
    BY <1>2 DEF TypeOK
  <1> QED  BY <1>2, <1>3, MethodIsLayer

\* A send, at every layer it comes to, preserves the invariant.
LEMMA SendStep ==
  ASSUME RuntimeInv, crashed = Nil, NEW t \in Threads,
         Running(t) \/ \E c \in Classes : Send(t, c)
  PROVE  RuntimeInv'
  <1> USE DEF RuntimeInv
  <1>0. pc \in [Threads -> {"idle", "add", "replace", "assign", "send"}]
    BY DEF TypeOK
  <1>1. ASSUME NEW c \in Classes, Send(t, c) PROVE RuntimeInv'
    <2>1. Lineage[c] \in Seq(Classes) /\ class_getInstanceMethod(c) = Nearest(Lineage[c])
      BY Above DEF class_getInstanceMethod
    <2>2. /\ pc[t] = "idle" /\ Nearest(Lineage[c]) # Nil
          /\ pc' = [pc EXCEPT ![t] = "send"] /\ imp' = [imp EXCEPT ![t] = Nearest(Lineage[c])]
          /\ UNCHANGED <<methods, kind, home, next, seen, found, crashed, layers>>
      BY <1>1, <2>1 DEF Send, tables, blockVars, nextVars
    <2>3. /\ Nearest(Lineage[c]) \in Imps
          /\ \E d \in Classes : \E j \in 1..Len(layers[d]) : layers[d][j] = Nearest(Lineage[c])
      BY <2>1, <2>2, FoundIsLayer
    <2> QED  BY <2>2, <2>3, QuietStep
  <1>2. CASE SendReturn(t)
    <2>1. /\ pc[t] = "send"
          /\ pc' = [pc EXCEPT ![t] = "idle"] /\ imp' = [imp EXCEPT ![t] = Nil]
          /\ UNCHANGED <<methods, kind, home, next, seen, found, crashed, layers>>
      BY <1>2 DEF SendReturn, tables, blockVars, nextVars
    <2> QED  BY <2>1, QuietStep
  <1>3. CASE NP_METHOD_OVERRIDE(t)
    <2>0. /\ pc[t] = "send" /\ imp[t] \in Blocks /\ kind[imp[t]] = "override"
          /\ imp' = [imp EXCEPT ![t] = SuperOf(imp[t])]
          /\ UNCHANGED <<methods, kind, home, next, seen, pc, found, crashed, layers>>
      BY <1>3 DEF NP_METHOD_OVERRIDE, KindOf, Continue, tables, blockVars, nextVars
    <2>1. home[imp[t]] \in Classes /\ NPClassGetSuperMethod(home[imp[t]]) # Nil
      BY <2>0 DEF HasSuper
    <2> DEFINE line == Tail(Lineage[home[imp[t]]])
    <2>2. line \in Seq(Classes) /\ SuperOf(imp[t]) = Nearest(line) /\ Nearest(line) # Nil
      BY <2>1, Above DEF SuperOf, NPClassGetSuperMethod
    <2> HIDE DEF line
    <2>3. /\ Nearest(line) \in Imps
          /\ \E d \in Classes : \E j \in 1..Len(layers[d]) : layers[d][j] = Nearest(line)
      BY <2>2, FoundIsLayer
    <2>4. pc' = [pc EXCEPT ![t] = "send"]
      BY <1>0, <2>0
    <2> QED  BY <2>0, <2>2, <2>3, <2>4, QuietStep
  <1>4. CASE NP_METHOD_OVERLOAD(t)
    <2>0. /\ pc[t] = "send" /\ imp[t] \in Blocks /\ kind[imp[t]] = "replace"
          /\ UNCHANGED <<methods, kind, home, next, seen, pc, found, layers>>
      BY <1>4 DEF NP_METHOD_OVERLOAD, KindOf, tables, blockVars, nextVars
    <2>1. PICK c \in Classes : \E i \in 1..Len(layers[c]) : layers[c][i] = imp[t]
      BY <2>0 DEF RunsLayer
    <2>2. PICK i \in 1..Len(layers[c]) : layers[c][i] = imp[t]
      BY <2>1
    <2>3. /\ ChainAt(layers[c], methods[c], next, pc, imp, found)
          /\ LayeredAt(c, layers[c], kind, home) /\ layers[c] \in Seq(Imps)
      BY DEF Chained, Layered, TypeOK
    <2>4. i # 1
      BY <2>0, <2>2, <2>3 DEF LayeredAt, KindIn
    <2>5. i \in 2..Len(layers[c]) /\ i - 1 \in 1..Len(layers[c])
      BY <2>2, <2>3, <2>4
    <2>6. layers[c][i - 1] \in Imps
      BY <2>3, <2>5
    <2>7. \/ next[imp[t]] = layers[c][i - 1]
          \/ next[imp[t]] = Nil /\ Leaving(pc, imp, found, imp[t], layers[c][i - 1])
      BY <2>2, <2>3, <2>5 DEF ChainAt
    <2>8. CASE NextImp(t, imp[t]) # Nil
      <3>1. NextImp(t, imp[t]) = layers[c][i - 1]
        BY <2>7, <2>8 DEF NextImp
      <3>2. imp' = [imp EXCEPT ![t] = layers[c][i - 1]] /\ UNCHANGED crashed
        BY <1>4, <2>8, <3>1 DEF NP_METHOD_OVERLOAD, Continue
      <3>3. pc' = [pc EXCEPT ![t] = "send"]
        BY <1>0, <2>0
      <3>4. \E d \in Classes : \E j \in 1..Len(layers[d]) : layers[d][j] = layers[c][i - 1]
        BY <2>5
      <3> QED  BY <2>0, <2>6, <3>2, <3>3, <3>4, QuietStep
    <2>9. CASE NextImp(t, imp[t]) = Nil
      <3>1. crashed' = t /\ UNCHANGED imp
        BY <1>4, <2>9 DEF NP_METHOD_OVERLOAD
      <3>2. InWindow(t, imp[t])
        <4>1. CASE next[imp[t]] = layers[c][i - 1]
          <5>1. next[imp[t]] # Nil
            BY <2>6, <4>1, NilIsNoImp
          <5> QED  BY <2>9, <5>1 DEF NextImp, InWindow
        <4>2. CASE Leaving(pc, imp, found, imp[t], layers[c][i - 1])
          BY <2>6, <4>2 DEF InWindow, Replacing, Leaving
        <4> QED  BY <2>7, <4>1, <4>2
      <3>3. CrashNeedsWindow'
        <4>1. InWindow(t, imp[t])'
          BY <2>0, <3>1, <3>2 DEF InWindow, Replacing
        <4> QED  BY <3>1, <4>1 DEF CrashNeedsWindow
      <3>4. TypeOK'
        BY <2>0, <3>1 DEF TypeOK
      <3>5. OwnBlock' /\ OneInstaller' /\ Owing' /\ RunsLayer'
        BY <2>0, <3>1 DEF OwnBlock, OneInstaller, Owing, RunsLayer
      <3>6. Layered' /\ FreshBlock' /\ Chained'
        BY <2>0, <3>1 DEF Layered, FreshBlock, NotYet, Chained
      <3>7. HasSuper'
        BY <2>0, SuperStays
      <3> QED  BY <3>3, <3>4, <3>5, <3>6, <3>7
    <2> QED  BY <2>8, <2>9
  <1> QED  BY <1>1, <1>2, <1>3, <1>4 DEF Running

\* That an assignment reaches one more thread disturbs nothing else.
LEMMA ReachStep ==
  ASSUME RuntimeInv, crashed = Nil, NEW t \in Threads, Reaches(t)
  PROVE  RuntimeInv'
  <1> USE DEF RuntimeInv
  <1>1. /\ UNCHANGED <<methods, layers, kind, home, next, pc, imp, found, crashed>>
        /\ seen' \in [Blocks -> SUBSET Threads]
    BY DEF Reaches, tables, blockVars, TypeOK
  <1>2. TypeOK' /\ OwnBlock' /\ OneInstaller' /\ Owing' /\ RunsLayer'
    BY <1>1 DEF TypeOK, OwnBlock, OneInstaller, Owing, RunsLayer
  <1>3. Layered' /\ FreshBlock' /\ Chained' /\ CrashNeedsWindow'
    BY <1>1 DEF Layered, FreshBlock, NotYet, Chained, CrashNeedsWindow
  <1>4. HasSuper'
    BY <1>1, SuperStays
  <1> QED  BY <1>2, <1>3, <1>4

\* RuntimeInv holds in every state: it is inductive as it stands.
THEOREM RuntimeInvariant == Spec => []RuntimeInv
  <1>1. Init => RuntimeInv
    <2> SUFFICES ASSUME Init PROVE RuntimeInv
      OBVIOUS
    <2>1. \A c \in Classes : Compiled[c] \in Imps \cup {Nil} /\ (Compiled[c] # Nil => Compiled[c] \in Imps)
      BY DEF Imps
    <2>2. \A c \in Classes :
             /\ layers[c] = (IF Compiled[c] = Nil THEN <<>> ELSE <<Compiled[c]>>)
             /\ methods[c] = Compiled[c]
      BY DEF Init
    <2>3. TypeOK
      <3>1. methods \in [Classes -> Imps \cup {Nil}]
        BY <2>1, ClassAssumption DEF Init
      <3>2. layers \in [Classes -> Seq(Imps)]
        <4>1. \A c \in Classes : (IF Compiled[c] = Nil THEN <<>> ELSE <<Compiled[c]>>) \in Seq(Imps)
          BY <2>1
        <4> QED  BY <4>1 DEF Init
      <3> QED  BY <3>1, <3>2 DEF Init, TypeOK
    <2>4. /\ \A t \in Threads : pc[t] = "idle"
          /\ \A b \in Blocks : kind[b] = "free" /\ next[b] = Nil
      BY DEF Init
    <2>5. OwnBlock /\ OneInstaller /\ Owing /\ RunsLayer /\ HasSuper
      BY <2>4 DEF OwnBlock, OneInstaller, Owing, RunsLayer, HasSuper, Installing
    <2>6. \A c \in Classes : \A i \in 1..Len(layers[c]) :
             i = 1 /\ layers[c][i] = Compiled[c] /\ Compiled[c] \notin Blocks
      <3> SUFFICES ASSUME NEW c \in Classes, NEW i \in 1..Len(layers[c])
                   PROVE  i = 1 /\ layers[c][i] = Compiled[c] /\ Compiled[c] \notin Blocks
        OBVIOUS
      <3>1. Len(<<>>) = 0 /\ Len(<<Compiled[c]>>) = 1 /\ <<Compiled[c]>>[1] = Compiled[c]
        OBVIOUS
      <3>2. layers[c] = <<Compiled[c]>>
        <4>1. CASE layers[c] = <<>>
          <5>1. Len(layers[c]) = 0
            BY <3>1, <4>1
          <5> QED  BY <5>1
        <4> QED  BY <2>2, <4>1
      <3>3. i = 1
        BY <3>1, <3>2
      <3> QED  BY <3>1, <3>2, <3>3, ClassAssumption
    <2>7. Layered /\ FreshBlock
      BY <2>4, <2>6 DEF Layered, LayeredAt, KindIn, FreshBlock
    <2>8. Chained
      <3> SUFFICES ASSUME NEW c \in Classes
                   PROVE  ChainAt(layers[c], Compiled[c], next, pc, imp, found)
        BY <2>2 DEF Chained
      <3>1. Len(<<>>) = 0 /\ Len(<<Compiled[c]>>) = 1 /\ <<Compiled[c]>>[1] = Compiled[c]
            /\ <<Compiled[c]>> # <<>>
        OBVIOUS
      <3>2. CASE layers[c] = <<>> /\ Compiled[c] = Nil
        BY <3>1, <3>2 DEF ChainAt
      <3>3. CASE layers[c] = <<Compiled[c]>> /\ Compiled[c] # Nil
        <4>1. Len(layers[c]) = 1 /\ layers[c] # <<>> /\ layers[c][1] = Compiled[c]
          BY <3>1, <3>3
        <4>2. \A i \in 2..Len(layers[c]) : FALSE
          BY <4>1
        <4> QED  BY <3>3, <4>1, <4>2 DEF ChainAt
      <3> QED  BY <2>2, <3>2, <3>3
    <2>9. CrashNeedsWindow
      BY DEF Init, CrashNeedsWindow
    <2> QED  BY <2>3, <2>5, <2>7, <2>8, <2>9 DEF RuntimeInv
  <1>2. RuntimeInv /\ [Next]_vars => RuntimeInv'
    <2> SUFFICES ASSUME RuntimeInv, [Next]_vars PROVE RuntimeInv'
      OBVIOUS
    <2>1. CASE UNCHANGED vars
      <3>1. TypeOK' /\ OwnBlock' /\ OneInstaller' /\ Owing' /\ RunsLayer'
        BY <2>1 DEF vars, RuntimeInv, TypeOK, OwnBlock, OneInstaller, Owing, RunsLayer
      <3>2. Layered' /\ FreshBlock' /\ Chained' /\ CrashNeedsWindow'
        BY <2>1 DEF vars, RuntimeInv, Layered, FreshBlock, NotYet, Chained, CrashNeedsWindow,
          InWindow, Replacing
      <3>3. HasSuper'
        BY <2>1, SuperStays DEF vars, RuntimeInv
      <3> QED  BY <3>1, <3>2, <3>3 DEF RuntimeInv
    <2>2. CASE Next
      <3>0. crashed = Nil
        BY <2>2 DEF Next
      <3>1. ASSUME NEW t \in Threads, Install(t) PROVE RuntimeInv'
        <4>1. pc[t] = "idle"
          BY <3>1 DEF Install
        <4>2. PICK c \in Classes, b \in {x \in Blocks : kind[x] = "free"} :
                 \/ NP_CLASS_ADDMETHOD_BEGIN(t, c, b)
                 \/ NP_CLASS_REPLACEMETHOD_BEGIN(t, c, b)
                 \/ NP_CLASS_OVERRIDEMETHOD_BEGIN(t, c, b)
          BY <3>1 DEF Install
        <4>3. CASE NP_CLASS_ADDMETHOD_BEGIN(t, c, b)
          <5>1. MakeImp(t, c, b, "add") /\ pc' = [pc EXCEPT ![t] = "add"]
                /\ UNCHANGED <<methods, layers, next, seen, found, crashed>>
            BY <4>3 DEF NP_CLASS_ADDMETHOD_BEGIN, tables, nextVars
          <5> QED  BY <3>0, <4>1, <5>1, BeginStep
        <4>4. CASE NP_CLASS_REPLACEMETHOD_BEGIN(t, c, b)
          <5>1. MakeImp(t, c, b, "replace") /\ pc' = [pc EXCEPT ![t] = "replace"]
                /\ UNCHANGED <<methods, layers, next, seen, found, crashed>> /\ methods[c] # Nil
            BY <4>4 DEF NP_CLASS_REPLACEMETHOD_BEGIN, tables, nextVars, NPClassGetOwnMethod
          <5> QED  BY <3>0, <4>1, <5>1, BeginStep
        <4>5. CASE NP_CLASS_OVERRIDEMETHOD_BEGIN(t, c, b)
          <5>1. MakeImp(t, c, b, "override") /\ pc' = [pc EXCEPT ![t] = "add"]
                /\ UNCHANGED <<methods, layers, next, seen, found, crashed>>
                /\ NPClassGetSuperMethod(c) # Nil
            BY <4>5 DEF NP_CLASS_OVERRIDEMETHOD_BEGIN, tables, nextVars
          <5> QED  BY <3>0, <4>1, <5>1, BeginStep
        <4> QED  BY <4>2, <4>3, <4>4, <4>5
      <3>2. ASSUME NEW t \in Threads, NP_CLASS_ADDMETHOD_PROCESS(t) PROVE RuntimeInv'
        <4>1. /\ pc[t] = "add" /\ pc' = [pc EXCEPT ![t] = "idle"]
              /\ imp' = [imp EXCEPT ![t] = Nil] /\ UNCHANGED <<kind, home, next, seen, found, crashed>>
          BY <3>2 DEF NP_CLASS_ADDMETHOD_PROCESS, blockVars, nextVars
        <4>2. CASE UNCHANGED tables
          BY <3>0, <4>1, <4>2, QuietStep DEF tables
        <4>3. CASE /\ methods[home[imp[t]]] = Nil
                   /\ methods' = [methods EXCEPT ![home[imp[t]]] = imp[t]]
                   /\ layers' = [layers EXCEPT ![home[imp[t]]] = Append(@, imp[t])]
          BY <3>0, <4>1, <4>3, PushStep
        <4> QED  BY <3>2, <4>2, <4>3 DEF NP_CLASS_ADDMETHOD_PROCESS, class_addMethod
      <3>3. ASSUME NEW t \in Threads, NP_CLASS_REPLACEMETHOD_PROCESS(t) PROVE RuntimeInv'
        BY <3>0, <3>3, PushStep DEF NP_CLASS_REPLACEMETHOD_PROCESS, blockVars, nextVars
      <3> QED  BY <2>2, <3>0, <3>1, <3>2, <3>3, AssignStep, SendStep, ReachStep DEF Next
    <2> QED  BY <2>1, <2>2
  <1> QED  BY <1>1, <1>2, PTL DEF Spec

\* Every variable keeps its type; in particular no send goes on to a method that is not
\* there, an override included (NSObjCRuntime.h:139-162).
THEOREM TypeCorrect == Spec => []TypeOK
  BY RuntimeInvariant, PTL DEF RuntimeInv

\* However many threads replace one method at the same time, every layer leads to the one
\* it replaced, or its thread is about to say so (NSObjCRuntime.h:106-119).
THEOREM LayersKept == Spec => []NoLayerLost
  <1>1. RuntimeInv => NoLayerLost
    BY DEF RuntimeInv, Chained, ChainAt, NoLayerLost, Leaving, Replacing
  <1> QED  BY <1>1, RuntimeInvariant, PTL

\* A thread calls NULL only before the assignment of _np_next_imp has reached it
\* (NSObjCRuntime.h:117).
THEOREM CrashOnlyInWindow == Spec => []CrashNeedsWindow
  BY RuntimeInvariant, PTL DEF RuntimeInv
=============================================================================
