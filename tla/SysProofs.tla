------------------------------ MODULE SysProofs ------------------------------
(***************************************************************************)
(* The file wrappers keep their descriptors and their word, for every set   *)
(* of threads, files and descriptors.                                       *)
(*                                                                          *)
(* Which function a thread may be in at a system call settles what it still *)
(* has to close.  An open number belongs to one thread as its fd or its     *)
(* rfd, so what other threads open and close under other numbers does not   *)
(* matter.  What a mapping function has seen of the file stays true until   *)
(* somebody else changes the files, and then disturbed says so.             *)
(***************************************************************************)
EXTENDS Sys, WellFoundedInduction, SequenceTheorems, TLAPS

\* A set of natural numbers that is not empty has a least element.
LEMMA LeastNumber ==
  ASSUME NEW S, S \subseteq Nat, S # {}
  PROVE  Min(S) \in S
  <1> DEFINE R == {p \in Nat \X Nat : p[1] < p[2]}
  <1>1. IsWellFoundedOn(R, Nat)
    <2>1. R \cap (Nat \X Nat) \subseteq OpToRel(<, Nat)
      BY DEF OpToRel
    <2> QED  BY <2>1, NatLessThanWellFounded, IsWellFoundedOnSubrelation
  <1>2. PICK x \in S : \A y \in S : ~(<<y, x>> \in R)
    <2> HIDE DEF R
    <2> QED  BY <1>1, WFMin
  <1>3. ASSUME NEW y \in S PROVE x =< y
    <2>1. x \in Nat /\ y \in Nat /\ <<y, x>> \notin R
      BY <1>2
    <2>2. y < x => <<y, x>> \in R
      BY <2>1
    <2> QED  BY <2>1, <2>2
  <1> QED  BY <1>2, <1>3 DEF Min

-----------------------------------------------------------------------------
(***************************************************************************)
(* The inductive invariant.                                                 *)
(***************************************************************************)
ReadOnly == {"mmapReadOnly", "withMmapReadOnly"}

\* The functions that make a system call.
Callers(label) ==
    CASE label = "idle" -> {None}
      [] label \in {"open", "close", "stat"} -> Mapping \cup {label}
      [] label \in {"fstatat", "truncate"} -> {label}
      [] label = "ftruncate" -> {"ftruncate", "mmapReadWrite"}
      [] label \in {"mmap", "done"} -> Mapping
      [] label \in {"ropen", "getpath", "rclose"} -> Mapping \cup {"cwd", "realpath"}
      [] label = "handler" -> {"withMmapReadOnly"}
      [] label = "munmap" -> {"withMmapReadOnly", "munmap"}

Routed == \A t \in Threads : call[t] \in Callers(pc[t])

\* Functions that have a descriptor open at a system call, and that have none.
\* The values are those of call, pc, fd and rfd of one thread.
HoldsAt(c, p, f, r) ==
    /\ \/ p \in {"close", "ftruncate", "mmap"}
       \/ c \in Mapping /\ p \in {"ropen", "getpath", "rclose"}
       \/ c = "mmapReadWrite" /\ p = "stat"
       => f # None
    /\ \/ p = "open"
       \/ c \in Mapping /\ p \in {"done", "handler", "munmap"}
       \/ c \in ReadOnly /\ p = "stat"
       => f = None
    /\ r # None <=> p \in {"getpath", "rclose"}

HasDescriptor == \A t \in Threads : HoldsAt(call[t], pc[t], fd[t], rfd[t])

\* The table and the threads agree on who has which descriptor.
Owned ==
    /\ \A n \in Descriptors : table[n] # None =>
         n \in {fd[table[n].owner], rfd[table[n].owner]}
    /\ \A t \in Threads : fd[t] # None => Holds(t, fd[t]) /\ table[fd[t]].file \in Files
    /\ \A t \in Threads : rfd[t] # None =>
         /\ Holds(t, rfd[t]) /\ rfd[t] # fd[t]
         /\ call[t] # "cwd" => table[rfd[t]].file \in Files

\* What a mapping function knows of its size, its mapping and the errors, by the
\* values of call, pc, buf, maps, realer and errors of its thread.
KnowsAt(c, p, b, m, r, e) ==
    /\ c \notin Mapping => r = "unset"
    /\ c \in Mapping =>
        /\ p \in {"open", "mmap"} /\ c \in ReadOnly => b \in Pages \ {0}
        /\ p = "mmap" => b \in Pages
        /\ p = "ftruncate" => b = 0
        /\ p \in {"stat", "open", "ftruncate", "mmap"} => m = None /\ r = "unset"
        /\ p \in {"ropen", "getpath", "rclose", "handler"} => m # None
        /\ \/ p \in {"ftruncate", "mmap"}
           \/ p = "open" /\ c \in ReadOnly
           \/ p \in {"ropen", "getpath", "rclose", "close"} /\ m # None
           => e = <<>>
        /\ p = "close" /\ m = None => e # <<>>

Progress == \A t \in Threads : KnowsAt(call[t], pc[t], buf[t], maps[t], realer[t], errors[t])

\* OutcomeAgrees, by the same values.
AgreesAt(c, p, b, m, e) ==
    c \in Mapping =>
        /\ p = "done" /\ m = None /\ c # "withMmapReadOnly" =>
             e # <<>> \/ (c = "mmapReadOnly" /\ b = 0)
        /\ m # None /\ p = (IF c = "withMmapReadOnly" THEN "handler" ELSE "done")
           => e \in {<<>>, <<"close">>}

Outcome == \A t \in Threads : AgreesAt(call[t], pc[t], buf[t], maps[t], errors[t])

\* What an undisturbed mapping function has seen is still so.  The values are those of
\* call, pc, buf, maps and realer of its thread, the files under its fd and its rfd,
\* the path and the size of its file.
SeenAt(c, p, b, m, r, f, g, here, pages) ==
    /\ p = "open" /\ c \in ReadOnly => here # None /\ b = pages
    /\ p \in {"ftruncate", "mmap"} \/ (p = "stat" /\ c = "mmapReadWrite")
       => here # None /\ f = here
    /\ p = "mmap" => pages = IF c \in ReadOnly \/ ~NeedsPage(b) THEN b ELSE Page
    /\ p = "ftruncate" => pages = 0
    /\ p = "getpath" => g = here
    /\ m # None => m.file = here /\ m.len <= pages /\ r \in {here, "empty", "unset"}

SeesNow(t) ==
    InMapping(t) /\ ~disturbed[t] =>
        SeenAt(call[t], pc[t], buf[t], maps[t], realer[t],
               table[fd[t]].file, table[rfd[t]].file, path, size[path])

Seen == \A t \in Threads : SeesNow(t)

SysInv == TypeOK /\ Routed /\ HasDescriptor /\ Owned /\ Progress /\ Outcome

-----------------------------------------------------------------------------
\* The number the kernel hands out was free.
LEMMA LowestFree ==
  ASSUME Free # {}
  PROVE  Min(Free) \in Descriptors /\ table[Min(Free)] = None
  <1>1. Free \subseteq Nat
    BY SysAssumption DEF Free
  <1> QED  BY <1>1, LeastNumber DEF Free

\* A wrapper that fails adds one message to the list.
LEMMA FailType ==
  ASSUME TypeOK, NEW t \in Threads, NEW what \in {"failed", "close"}, Fail(t, what)
  PROVE  /\ errors' \in [Threads -> Seq({"failed", "close"})]
         /\ errors'[t] = Append(errors[t], what) /\ errors'[t] # <<>>
         /\ \A u \in Threads \ {t} : errors'[u] = errors[u]
  <1>1. errors[t] \in Seq({"failed", "close"})
    BY DEF TypeOK
  <1>2. errors' = [errors EXCEPT ![t] = Append(errors[t], what)]
    BY DEF Fail, error, log, append, Blank
  <1>3. Append(errors[t], what) \in Seq({"failed", "close"}) /\ Append(errors[t], what) # <<>>
    BY <1>1, AppendProperties
  <1> QED  BY <1>2, <1>3 DEF TypeOK

\* Where a system call leaves its thread.
Landed(t, label) ==
    IF label = "done" /\ call[t] \notin Mapping
      THEN pc'[t] = "idle" /\ call'[t] = None
      ELSE pc'[t] = label /\ call'[t] = call[t]

\* Goto moves one thread, and to where it says.
LEMMA GotoLands ==
  ASSUME TypeOK, NEW t \in Threads, NEW label, Goto(t, label)
  PROVE  /\ \A u \in Threads \ {t} : pc'[u] = pc[u] /\ call'[u] = call[u]
         /\ Landed(t, label)
  BY DEF TypeOK, Goto, Landed, InMapping

\* A thread that goes on with a call of its function is routed.
LEMMA RoutedGoto ==
  ASSUME TypeOK, Routed, NEW t \in Threads, NEW label, Goto(t, label),
         label = "done" \/ call[t] \in Callers(label)
  PROVE  Routed'
  <1>1. \A u \in Threads \ {t} : call'[u] \in Callers(pc'[u])
    BY GotoLands DEF Routed
  <1>2. call'[t] \in Callers(pc'[t])
    <2>1. CASE label = "done"
      BY <2>1, GotoLands DEF Callers, Landed
    <2>2. CASE label # "done"
      BY <2>2, GotoLands DEF Landed
    <2> QED  BY <2>1, <2>2
  <1> QED  BY <1>1, <1>2 DEF Routed

\* A system call is followed by one that its function makes.
LEMMA RoutedStep ==
  ASSUME SysInv, NEW t \in Threads, SystemCall(t) \/ handler(t) \/ Return(t)
  PROVE  Routed'
  <1> USE DEF SysInv
  <1>0. TypeOK /\ Routed /\ call[t] \in Callers(pc[t])
    BY DEF Routed
  <1>1. CASE open(t)
    <2>1. pc[t] = "open" /\ (Goto(t, AfterOpen(call[t])) \/ Goto(t, "done"))
      BY <1>1 DEF open
    <2>2. \A label \in {AfterOpen(call[t]), "done"} : label = "done" \/ call[t] \in Callers(label)
      BY <1>0, <2>1 DEF Callers, Mapping, AfterOpen
    <2> QED  BY <1>0, <2>1, <2>2, RoutedGoto
  <1>2. CASE stat(t)
    <2>1. pc[t] = "stat" /\ Goto(t, AfterStat(call[t], errors'[t], buf'[t]))
      BY <1>2 DEF stat, StatPath
    <2> QED  BY <1>0, <2>1, RoutedGoto DEF Callers, Mapping, AfterStat, AfterStatReadOnly, AfterStatReadWrite
  <1>3. CASE fstatat(t)
    <2>1. pc[t] = "fstatat" /\ Goto(t, AfterStat(call[t], errors'[t], buf'[t]))
      BY <1>3 DEF fstatat, StatPath
    <2> QED  BY <1>0, <2>1, RoutedGoto DEF Callers, Mapping, AfterStat, AfterStatReadOnly, AfterStatReadWrite
  <1>4. CASE truncate(t)
    <2>1. pc[t] = "truncate" /\ Goto(t, "done")
      BY <1>4 DEF truncate
    <2> QED  BY <1>0, <2>1, RoutedGoto DEF Callers, Mapping
  <1>5. CASE ftruncate(t)
    <2>1. pc[t] = "ftruncate" /\ Goto(t, AfterFtruncate(call[t], errors'[t]))
      BY <1>5 DEF ftruncate
    <2> QED  BY <1>0, <2>1, RoutedGoto DEF Callers, Mapping, AfterFtruncate
  <1>6. CASE mapReadOnly(t)
    <2>1. pc[t] = "mmap" /\ (Goto(t, "ropen") \/ Goto(t, "close"))
      BY <1>6 DEF mapReadOnly, mmap
    <2>2. \A label \in {"ropen", "close"} : label = "done" \/ call[t] \in Callers(label)
      BY <1>0, <2>1 DEF Callers, Mapping
    <2> QED  BY <1>0, <2>1, <2>2, RoutedGoto
  <1>7. CASE mapReadWrite(t)
    <2>1. pc[t] = "mmap" /\ (Goto(t, "ropen") \/ Goto(t, "close"))
      BY <1>7 DEF mapReadWrite, mmap
    <2>2. \A label \in {"ropen", "close"} : label = "done" \/ call[t] \in Callers(label)
      BY <1>0, <2>1 DEF Callers, Mapping
    <2> QED  BY <1>0, <2>1, <2>2, RoutedGoto
  <1>8. CASE realpath(t)
    <2>1. pc[t] = "ropen" /\ (Goto(t, "getpath") \/ Goto(t, AfterRealpath(call[t])))
      BY <1>8 DEF realpath
    <2>2. \A label \in {"getpath", AfterRealpath(call[t])} : label = "done" \/ call[t] \in Callers(label)
      BY <1>0, <2>1 DEF Callers, Mapping, AfterRealpath
    <2> QED  BY <1>0, <2>1, <2>2, RoutedGoto
  <1>9. CASE getpath(t)
    <2>1. pc[t] = "getpath" /\ Goto(t, "rclose")
      BY <1>9 DEF getpath
    <2> QED  BY <1>0, <2>1, RoutedGoto DEF Callers, Mapping
  <1>10. CASE closeRealpath(t)
    <2>1. pc[t] = "rclose" /\ Goto(t, AfterRealpath(call[t]))
      BY <1>10 DEF closeRealpath
    <2> QED  BY <1>0, <2>1, RoutedGoto DEF Callers, Mapping, AfterRealpath
  <1>11. CASE close(t)
    <2>1. pc[t] = "close" /\ Goto(t, IF call[t] = "withMmapReadOnly" /\ maps[t] # None
                                       THEN "handler" ELSE "done")
      BY <1>11 DEF close
    <2> QED  BY <1>0, <2>1, RoutedGoto DEF Callers, Mapping
  <1>12. CASE munmap(t)
    <2>1. pc[t] = "munmap" /\ Goto(t, "done")
      BY <1>12 DEF munmap
    <2> QED  BY <1>0, <2>1, RoutedGoto DEF Callers, Mapping
  <1>13. CASE handler(t)
    <2>1. pc[t] = "handler" /\ Goto(t, "munmap")
      BY <1>13 DEF handler
    <2> QED  BY <1>0, <2>1, RoutedGoto DEF Callers, Mapping
  <1>14. CASE Return(t)
    BY <1>0, <1>14 DEF Return, TypeOK, Routed, Callers
  <1> QED  BY <1>1, <1>2, <1>3, <1>4, <1>5, <1>6, <1>7,
              <1>8, <1>9, <1>10, <1>11, <1>12, <1>13, <1>14 DEF SystemCall

\* An error list is left alone, or grows by the message of its own thread.
LEMMA ErrorsStep ==
  ASSUME TypeOK, NEW t \in Threads, NEW what \in {"failed", "close"},
         UNCHANGED errors \/ Fail(t, what) \/ FailUnlessQuiet(t, what)
  PROVE  /\ errors' \in [Threads -> Seq({"failed", "close"})]
         /\ \A u \in Threads \ {t} : errors'[u] = errors[u]
  BY FailType DEF TypeOK, FailUnlessQuiet

\* A system call of t changes nothing that belongs to another thread.
Stay(u) ==
    /\ pc'[u] = pc[u] /\ call'[u] = call[u] /\ fd'[u] = fd[u] /\ rfd'[u] = rfd[u]
    /\ buf'[u] = buf[u] /\ maps'[u] = maps[u] /\ realer'[u] = realer[u]
    /\ errors'[u] = errors[u]

\* The locals of other threads survive a system call.
LEMMA OthersStay ==
  ASSUME SysInv, NEW t \in Threads, SystemCall(t) \/ handler(t) \/ Return(t),
         NEW u \in Threads \ {t}
  PROVE  Stay(u)
  <1> USE DEF SysInv
  <1>1. errors'[u] = errors[u]
    <2>1. \/ UNCHANGED errors
          \/ Fail(t, "failed") \/ Fail(t, "close")
          \/ FailUnlessQuiet(t, "failed") \/ FailUnlessQuiet(t, "close")
      BY DEF SystemCall, open, stat, fstatat, StatPath, truncate, ftruncate, mapReadOnly,
        mapReadWrite, mmap, realpath, getpath, closeRealpath, close, munmap, handler, Return
    <2> QED  BY <2>1, ErrorsStep
  <1>2. pc'[u] = pc[u] /\ call'[u] = call[u]
    <2>1. CASE \E label : Goto(t, label)
      BY <2>1, GotoLands
    <2>2. CASE Return(t)
      BY <2>2 DEF Return, TypeOK
    <2>3. CASE SystemCall(t) \/ handler(t)
      BY <2>1, <2>3 DEF SystemCall, open, stat, fstatat, StatPath, truncate, ftruncate,
        mapReadOnly, mapReadWrite, mmap, realpath, getpath, closeRealpath, close, munmap, handler
    <2> QED  BY <2>2, <2>3
  <1>3. fd'[u] = fd[u] /\ rfd'[u] = rfd[u] /\ buf'[u] = buf[u]
    BY DEF TypeOK, SystemCall, open, stat, fstatat, StatPath, truncate, ftruncate, mapReadOnly,
      mapReadWrite, mmap, realpath, getpath, closeRealpath, close, munmap, handler, Return, locals
  <1>4. maps'[u] = maps[u] /\ realer'[u] = realer[u]
    BY DEF TypeOK, SystemCall, open, stat, fstatat, StatPath, truncate, ftruncate, mapReadOnly,
      mapReadWrite, mmap, realpath, getpath, closeRealpath, close, munmap, handler, Return, locals
  <1> QED  BY <1>1, <1>2, <1>3, <1>4 DEF Stay

\* The local state of t after its system call.
LocalOK(t) ==
    /\ HoldsAt(call[t], pc[t], fd[t], rfd[t])
    /\ KnowsAt(call[t], pc[t], buf[t], maps[t], realer[t], errors[t])
    /\ AgreesAt(call[t], pc[t], buf[t], maps[t], errors[t])

\* A thread that has made a system call holds, knows and reports what its function
\* should at the next one.
LEMMA LocalStep ==
  ASSUME SysInv, NEW t \in Threads, SystemCall(t) \/ handler(t) \/ Return(t)
  PROVE  LocalOK(t)'
  <1>0. TypeOK /\ call[t] \in Callers(pc[t]) /\ LocalOK(t)
    BY DEF SysInv, Routed, HasDescriptor, Progress, Outcome, LocalOK
  <1>a. None \notin Mapping /\ None \notin Descriptors /\ MaxPages \in Nat \ {0}
    BY SysAssumption DEF Calls
  <1> USE DEF LocalOK
  <1>1. CASE open(t)
    <2>1. /\ pc[t] = "open" /\ call[t] \in Mapping \cup {"open"} /\ fd[t] = None /\ rfd[t] = None
          /\ rfd'[t] = rfd[t] /\ buf'[t] = buf[t] /\ maps'[t] = maps[t] /\ realer'[t] = realer[t]
      BY <1>0, <1>1 DEF open, Callers, HoldsAt
    <2>2. CASE fd' = [fd EXCEPT ![t] = Min(Free)] /\ Free # {} /\ UNCHANGED errors
               /\ Goto(t, AfterOpen(call[t]))
      <3>1. fd'[t] # None /\ errors'[t] = errors[t] /\ Landed(t, AfterOpen(call[t]))
        BY <1>0, <1>a, <2>2, GotoLands, LowestFree DEF TypeOK
      <3> QED  BY <1>0, <1>a, <2>1, <3>1
                DEF HoldsAt, KnowsAt, AgreesAt, Landed, Mapping, ReadOnly, AfterOpen
    <2>3. CASE Fail(t, "failed") /\ Goto(t, "done") /\ UNCHANGED fd
      <3>1. fd'[t] = fd[t] /\ errors'[t] # <<>> /\ Landed(t, "done")
        BY <1>0, <2>3, GotoLands, FailType
      <3> QED  BY <1>0, <1>a, <2>1, <3>1
                DEF HoldsAt, KnowsAt, AgreesAt, Landed, Mapping, ReadOnly
    <2> QED  BY <1>1, <2>2, <2>3 DEF open, Opened
  <1>2. CASE stat(t) \/ fstatat(t)
    <2>1. /\ pc[t] \in {"stat", "fstatat"} /\ rfd[t] = None
          /\ fd'[t] = fd[t] /\ rfd'[t] = rfd[t] /\ maps'[t] = maps[t] /\ realer'[t] = realer[t]
      BY <1>0, <1>2 DEF stat, fstatat, StatPath, Callers, HoldsAt
    <2>2. Landed(t, AfterStat(call[t], errors'[t], buf'[t]))
      BY <1>0, <1>2, GotoLands DEF stat, fstatat, StatPath
    <2>3. \/ errors'[t] # <<>>
          \/ errors'[t] = errors[t] /\ (call[t] \in Mapping => buf'[t] \in Pages)
      BY <1>0, <1>2, FailType DEF stat, fstatat, StatPath, TypeOK, InMapping
    <2> QED  BY <1>0, <1>a, <2>1, <2>2, <2>3
              DEF HoldsAt, KnowsAt, AgreesAt, Landed, Mapping, ReadOnly, AfterStat, Callers,
                AfterStatReadOnly, AfterStatReadWrite, NeedsPage, hasError, Pages
  <1>3. CASE truncate(t)
    <2>1. /\ pc[t] = "truncate" /\ call[t] \notin Mapping /\ rfd'[t] = rfd[t] /\ rfd[t] = None
          /\ realer'[t] = realer[t]
      BY <1>0, <1>3 DEF truncate, locals, Callers, HoldsAt, Mapping
    <2>2. Landed(t, "done")
      BY <1>0, <1>3, GotoLands DEF truncate
    <2> QED  BY <1>0, <1>a, <2>1, <2>2 DEF HoldsAt, KnowsAt, AgreesAt, Landed, ReadOnly, Mapping
  <1>4. CASE ftruncate(t)
    <2>1. /\ pc[t] = "ftruncate" /\ call[t] \in {"ftruncate", "mmapReadWrite"}
          /\ fd'[t] = fd[t] /\ rfd'[t] = rfd[t] /\ rfd[t] = None /\ fd[t] # None
          /\ buf'[t] = buf[t] /\ maps'[t] = maps[t] /\ realer'[t] = realer[t]
      BY <1>0, <1>4 DEF ftruncate, locals, Callers, HoldsAt
    <2>2. Landed(t, AfterFtruncate(call[t], errors'[t]))
      BY <1>0, <1>4, GotoLands DEF ftruncate
    <2>3. errors'[t] # <<>> \/ errors'[t] = errors[t]
      BY <1>0, <1>4, FailType DEF ftruncate
    <2> QED  BY <1>0, <1>a, <2>1, <2>2, <2>3
              DEF HoldsAt, KnowsAt, AgreesAt, Landed, Mapping, ReadOnly, AfterFtruncate,
                hasError, Pages
  <1>5. CASE mapReadOnly(t) \/ mapReadWrite(t)
    <2>1. PICK pages \in {buf[t], MappedSize(t)} : mmap(t, pages)
      BY <1>5 DEF mapReadOnly, mapReadWrite
    <2>2. /\ pc[t] = "mmap" /\ call[t] \in Mapping /\ fd[t] # None /\ rfd[t] = None
          /\ fd'[t] = fd[t] /\ rfd'[t] = rfd[t] /\ buf'[t] = buf[t]
      BY <1>0, <2>1 DEF mmap, Callers, HoldsAt
    <2>3. CASE Fail(t, "failed") /\ Goto(t, "close") /\ UNCHANGED <<maps, realer>>
      <3>1. errors'[t] # <<>> /\ maps'[t] = maps[t] /\ Landed(t, "close")
        BY <1>0, <2>3, GotoLands, FailType
      <3> QED  BY <1>0, <1>a, <2>2, <3>1
                DEF HoldsAt, KnowsAt, AgreesAt, Landed, Mapping, ReadOnly
    <2>4. CASE /\ maps' = [maps EXCEPT ![t] = [file |-> table[fd[t]].file, len |-> pages]]
               /\ UNCHANGED errors /\ (Goto(t, "ropen") \/ Goto(t, "close"))
      <3>1. errors'[t] = errors[t] /\ (Landed(t, "ropen") \/ Landed(t, "close"))
        BY <1>0, <2>4, GotoLands
      <3>2. maps'[t] # None
        <4>1. maps'[t] = [file |-> table[fd[t]].file, len |-> pages]
          BY <1>0, <2>4 DEF TypeOK
        <4>2. table[fd[t]].file \in Files
          BY <2>2 DEF SysInv, Owned
        <4>3. pages \in Pages
          BY <1>0, <1>a, <2>1, <2>2 DEF KnowsAt, MappedSize, Page, Pages
        <4> QED  BY <4>1, <4>2, <4>3, SysAssumption
      <3> QED  BY <1>0, <1>a, <2>2, <3>1, <3>2
                DEF HoldsAt, KnowsAt, AgreesAt, Landed, Mapping, ReadOnly
    <2> QED  BY <2>1, <2>3, <2>4 DEF mmap
  <1>6. CASE realpath(t)
    <2>1. /\ pc[t] = "ropen" /\ call[t] \in Mapping \cup {"cwd", "realpath"} /\ rfd[t] = None
          /\ fd'[t] = fd[t] /\ buf'[t] = buf[t] /\ maps'[t] = maps[t] /\ realer'[t] = realer[t]
      BY <1>0, <1>6 DEF realpath, Callers, HoldsAt
    <2>2. call[t] \in Mapping => errors'[t] = errors[t]
      BY <1>6 DEF realpath, FailUnlessQuiet, IsQuiet, InMapping
    <2>3. CASE Free # {} /\ rfd' = [rfd EXCEPT ![t] = Min(Free)] /\ Goto(t, "getpath")
      <3>1. rfd'[t] # None /\ Landed(t, "getpath")
        BY <1>0, <1>a, <2>3, GotoLands, LowestFree DEF TypeOK
      <3> QED  BY <1>0, <1>a, <2>1, <2>2, <3>1
                DEF HoldsAt, KnowsAt, AgreesAt, Landed, Mapping, ReadOnly
    <2>4. CASE UNCHANGED rfd /\ Goto(t, AfterRealpath(call[t]))
      <3>1. rfd'[t] = rfd[t] /\ Landed(t, AfterRealpath(call[t]))
        BY <1>0, <2>4, GotoLands
      <3> QED  BY <1>0, <1>a, <2>1, <2>2, <3>1
                DEF HoldsAt, KnowsAt, AgreesAt, Landed, Mapping, ReadOnly, AfterRealpath
    <2> QED  BY <1>6, <2>3, <2>4 DEF realpath, Opened
  <1>7. CASE getpath(t)
    <2>1. /\ pc[t] = "getpath" /\ call[t] \in Mapping \cup {"cwd", "realpath"}
          /\ fd'[t] = fd[t] /\ rfd'[t] = rfd[t] /\ buf'[t] = buf[t] /\ maps'[t] = maps[t]
          /\ IF call[t] \in Mapping THEN errors'[t] = errors[t] ELSE realer'[t] = realer[t]
      BY <1>0, <1>7 DEF getpath, Callers, FailUnlessQuiet, IsQuiet, InMapping, TypeOK
    <2>2. Landed(t, "rclose")
      BY <1>0, <1>7, GotoLands DEF getpath
    <2> QED  BY <1>0, <1>a, <2>1, <2>2
              DEF HoldsAt, KnowsAt, AgreesAt, Landed, Mapping, ReadOnly
  <1>8. CASE closeRealpath(t)
    <2>1. /\ pc[t] = "rclose" /\ call[t] \in Mapping \cup {"cwd", "realpath"}
          /\ fd'[t] = fd[t] /\ rfd'[t] = None /\ buf'[t] = buf[t] /\ maps'[t] = maps[t]
          /\ realer'[t] = realer[t]
          /\ call[t] \in Mapping => errors'[t] = errors[t]
      BY <1>0, <1>8 DEF closeRealpath, Callers, FailUnlessQuiet, IsQuiet, InMapping, TypeOK
    <2>2. Landed(t, AfterRealpath(call[t]))
      BY <1>0, <1>8, GotoLands DEF closeRealpath
    <2> QED  BY <1>0, <1>a, <2>1, <2>2
              DEF HoldsAt, KnowsAt, AgreesAt, Landed, Mapping, ReadOnly, AfterRealpath
  <1>9. CASE close(t)
    <2>1. /\ pc[t] = "close" /\ call[t] \in Mapping \cup {"close"} /\ rfd[t] = None
          /\ fd'[t] = None /\ rfd'[t] = rfd[t] /\ buf'[t] = buf[t] /\ maps'[t] = maps[t]
          /\ realer'[t] = realer[t]
      BY <1>0, <1>9 DEF close, Callers, HoldsAt, TypeOK
    <2>2. Landed(t, IF call[t] = "withMmapReadOnly" /\ maps[t] # None THEN "handler" ELSE "done")
      BY <1>0, <1>9, GotoLands DEF close
    <2>3. \/ errors'[t] = errors[t]
          \/ errors'[t] = Append(errors[t], "close") /\ errors'[t] # <<>>
      BY <1>0, <1>9, FailType DEF close
    <2>4. errors[t] = <<>> => errors'[t] \in {<<>>, <<"close">>}
      <3>1. Append(<<>>, "close") = <<"close">>
        OBVIOUS
      <3> QED  BY <2>3, <3>1
    <2>5. errors[t] # <<>> => errors'[t] # <<>>
      BY <2>3
    <2> QED  BY <1>0, <1>a, <2>1, <2>2, <2>4, <2>5
              DEF HoldsAt, KnowsAt, AgreesAt, Landed, Mapping, ReadOnly
  <1>10. CASE munmap(t)
    <2>1. /\ pc[t] = "munmap" /\ call[t] \in {"withMmapReadOnly", "munmap"} /\ rfd[t] = None
          /\ fd'[t] = fd[t] /\ rfd'[t] = rfd[t] /\ realer'[t] = realer[t]
      BY <1>0, <1>10 DEF munmap, Callers, HoldsAt, locals
    <2>2. Landed(t, "done")
      BY <1>0, <1>10, GotoLands DEF munmap
    <2> QED  BY <1>0, <1>a, <2>1, <2>2
              DEF HoldsAt, KnowsAt, AgreesAt, Landed, Mapping, ReadOnly
  <1>11. CASE handler(t)
    <2>1. /\ pc[t] = "handler" /\ call[t] = "withMmapReadOnly" /\ rfd[t] = None
          /\ fd'[t] = fd[t] /\ rfd'[t] = rfd[t]
      BY <1>0, <1>11 DEF handler, Callers, HoldsAt, locals
    <2>2. Landed(t, "munmap")
      BY <1>0, <1>11, GotoLands DEF handler
    <2> QED  BY <1>0, <1>a, <2>1, <2>2
              DEF HoldsAt, KnowsAt, AgreesAt, Landed, Mapping, ReadOnly
  <1>12. CASE Return(t)
    <2>1. /\ pc'[t] = "idle" /\ call'[t] = None /\ pc[t] = "done"
          /\ fd'[t] = fd[t] /\ rfd'[t] = rfd[t] /\ rfd[t] = None /\ realer'[t] = "unset"
      BY <1>0, <1>12 DEF Return, HoldsAt, TypeOK
    <2> QED  BY <1>0, <1>a, <2>1 DEF HoldsAt, KnowsAt, AgreesAt, ReadOnly, Mapping
  <1> QED  BY <1>1, <1>2, <1>3, <1>4, <1>5, <1>6, <1>7, <1>8, <1>9, <1>10, <1>11, <1>12
            DEF SystemCall

-----------------------------------------------------------------------------
\* What a system call of t does to the descriptors.
Took(t, n, f) ==
    /\ n \in Descriptors /\ table[n] = None
    /\ table' = [table EXCEPT ![n] = [file |-> f, owner |-> t]]

Dropped(n) == n # None /\ table' = [table EXCEPT ![n] = None]

KeepsDescriptors(t) == UNCHANGED <<table, fd, rfd>> /\ (rfd[t] # None => call'[t] = call[t])

TakesDescriptor(t) ==
    /\ fd[t] = None /\ rfd[t] = None
    /\ \E n, f : f \in Files /\ Took(t, n, f) /\ fd' = [fd EXCEPT ![t] = n]
    /\ UNCHANGED rfd

TakesSecond(t) ==
    /\ rfd[t] = None /\ call'[t] = call[t]
    /\ \E n, f : /\ f \in Files \cup {Dir} /\ (call[t] # "cwd" => f \in Files)
                 /\ Took(t, n, f) /\ rfd' = [rfd EXCEPT ![t] = n]
    /\ UNCHANGED fd

DropsDescriptor(t) ==
    rfd[t] = None /\ Dropped(fd[t]) /\ fd' = [fd EXCEPT ![t] = None] /\ UNCHANGED rfd

DropsSecond(t) ==
    Dropped(rfd[t]) /\ rfd' = [rfd EXCEPT ![t] = None] /\ UNCHANGED fd

\* A system call takes a number that is free, closes one that its thread has, or
\* leaves the descriptors alone.
LEMMA TableStep ==
  ASSUME SysInv, NEW t \in Threads, SystemCall(t) \/ handler(t) \/ Return(t)
  PROVE  \/ KeepsDescriptors(t) \/ TakesDescriptor(t) \/ TakesSecond(t)
         \/ DropsDescriptor(t) \/ DropsSecond(t)
  <1>0. TypeOK /\ call[t] \in Callers(pc[t]) /\ HoldsAt(call[t], pc[t], fd[t], rfd[t])
    BY DEF SysInv, Routed, HasDescriptor
  <1>1. CASE open(t)
    <2>1. pc[t] = "open" /\ fd[t] = None /\ rfd[t] = None /\ UNCHANGED rfd
      BY <1>0, <1>1 DEF open, HoldsAt
    <2>2. CASE UNCHANGED <<table, fd>>
      BY <2>1, <2>2 DEF KeepsDescriptors
    <2>3. ASSUME NEW f \in Files, Opened(t, f), fd' = [fd EXCEPT ![t] = Min(Free)]
          PROVE  TakesDescriptor(t)
      BY <2>1, <2>3, LowestFree DEF TakesDescriptor, Took, Opened
    <2>4. path # None => path \in Files
      BY <1>0 DEF TypeOK
    <2> QED  BY <1>1, <2>2, <2>3, <2>4 DEF open
  <1>2. CASE realpath(t)
    <2>1. pc[t] = "ropen" /\ rfd[t] = None /\ UNCHANGED fd
      BY <1>0, <1>2 DEF realpath, HoldsAt
    <2>2. CASE UNCHANGED <<table, rfd>>
      BY <2>1, <2>2 DEF KeepsDescriptors
    <2>3. ASSUME NEW f \in Files \cup {Dir}, Opened(t, f), rfd' = [rfd EXCEPT ![t] = Min(Free)],
                 call[t] # "cwd" => f \in Files, Goto(t, "getpath")
          PROVE  TakesSecond(t)
      <3>1. call'[t] = call[t]
        BY <1>0, <2>3, GotoLands DEF Landed
      <3> QED  BY <2>1, <2>3, <3>1, LowestFree DEF TakesSecond, Took, Opened
    <2>4. path # None => path \in Files
      BY <1>0 DEF TypeOK
    <2> QED  BY <1>2, <2>2, <2>3, <2>4 DEF realpath
  <1>3. CASE close(t)
    BY <1>0, <1>3 DEF close, HoldsAt, DropsDescriptor, Dropped
  <1>4. CASE closeRealpath(t)
    BY <1>0, <1>4 DEF closeRealpath, HoldsAt, DropsSecond, Dropped
  <1>5. CASE getpath(t)
    <2>1. UNCHANGED <<table, fd, rfd>> /\ Goto(t, "rclose")
      BY <1>5 DEF getpath
    <2>2. call'[t] = call[t]
      BY <1>0, <2>1, GotoLands DEF Landed
    <2> QED  BY <2>1, <2>2 DEF KeepsDescriptors
  <1>6. CASE \/ stat(t) \/ fstatat(t) \/ truncate(t) \/ ftruncate(t) \/ mapReadOnly(t)
             \/ mapReadWrite(t) \/ munmap(t) \/ handler(t) \/ Return(t)
    <2>1. UNCHANGED <<table, fd, rfd>> /\ pc[t] \notin {"getpath", "rclose"}
      BY <1>6 DEF stat, fstatat, StatPath, truncate, ftruncate, mapReadOnly, mapReadWrite,
        mmap, munmap, handler, Return, locals
    <2> QED  BY <1>0, <2>1 DEF KeepsDescriptors, HoldsAt
  <1> QED  BY <1>1, <1>2, <1>3, <1>4, <1>5, <1>6 DEF SystemCall

\* The table and the threads agree after a system call, and have their types.
LEMMA OwnedStep ==
  ASSUME SysInv, NEW t \in Threads, SystemCall(t) \/ handler(t) \/ Return(t)
  PROVE  /\ Owned'
         /\ table' \in [Descriptors -> [file : Files \cup {Dir}, owner : Threads] \cup {None}]
         /\ fd' \in [Threads -> Descriptors \cup {None}]
         /\ rfd' \in [Threads -> Descriptors \cup {None}]
  <1>0. /\ table \in [Descriptors -> [file : Files \cup {Dir}, owner : Threads] \cup {None}]
        /\ fd \in [Threads -> Descriptors \cup {None}]
        /\ rfd \in [Threads -> Descriptors \cup {None}]
        /\ Owned
    BY DEF SysInv, TypeOK
  <1>a. /\ None \notin Descriptors
        /\ \A f \in Files \cup {Dir} : [file |-> f, owner |-> t] # None
    BY SysAssumption
  <1>b. \A u \in Threads \ {t} : call'[u] = call[u]
    BY OthersStay DEF Stay
  <1>1. CASE KeepsDescriptors(t)
    BY <1>0, <1>1, <1>b DEF KeepsDescriptors, Owned, Holds
  <1>2. CASE TakesDescriptor(t)
    <2>1. PICK n, f : f \in Files /\ Took(t, n, f) /\ fd' = [fd EXCEPT ![t] = n]
      BY <1>2 DEF TakesDescriptor
    <2>2. n \in Descriptors /\ table[n] = None /\ table'[n] = [file |-> f, owner |-> t]
      BY <1>0, <2>1 DEF Took
    <2>3. \A m \in Descriptors \ {n} : table'[m] = table[m]
      BY <1>0, <2>1 DEF Took
    <2>4. fd'[t] = n /\ (\A u \in Threads \ {t} : fd'[u] = fd[u]) /\ rfd' = rfd
      BY <1>0, <1>2, <2>1 DEF TakesDescriptor
    <2>5. \A u \in Threads : fd[u] # n /\ rfd[u] # n
      BY <1>0, <1>a, <2>2 DEF Owned, Holds
    <2>6. fd[t] = None /\ rfd[t] = None
      BY <1>2 DEF TakesDescriptor
    <2>7. /\ table' \in [Descriptors -> [file : Files \cup {Dir}, owner : Threads] \cup {None}]
          /\ fd' \in [Threads -> Descriptors \cup {None}]
          /\ rfd' \in [Threads -> Descriptors \cup {None}]
      BY <1>0, <2>1, <2>2, <2>4 DEF Took
    <2>8. \A m \in Descriptors : table'[m] # None =>
             m \in {fd'[table'[m].owner], rfd'[table'[m].owner]}
      BY <1>0, <1>a, <2>1, <2>2, <2>3, <2>4, <2>6 DEF Owned
    <2>9. \A u \in Threads : fd'[u] # None =>
             table'[fd'[u]] # None /\ table'[fd'[u]].owner = u /\ table'[fd'[u]].file \in Files
      BY <1>0, <1>a, <2>1, <2>2, <2>3, <2>4, <2>5 DEF Owned, Holds
    <2>10. \A u \in Threads : rfd'[u] # None =>
             /\ table'[rfd'[u]] # None /\ table'[rfd'[u]].owner = u /\ rfd'[u] # fd'[u]
             /\ call'[u] # "cwd" => table'[rfd'[u]].file \in Files
      BY <1>0, <1>a, <1>b, <2>2, <2>3, <2>4, <2>5, <2>6 DEF Owned, Holds
    <2> QED  BY <2>7, <2>8, <2>9, <2>10 DEF Owned, Holds
  <1>3. CASE TakesSecond(t)
    <2>1. PICK n, f : /\ f \in Files \cup {Dir} /\ (call[t] # "cwd" => f \in Files)
                      /\ Took(t, n, f) /\ rfd' = [rfd EXCEPT ![t] = n]
      BY <1>3 DEF TakesSecond
    <2>2. n \in Descriptors /\ table[n] = None /\ table'[n] = [file |-> f, owner |-> t]
      BY <1>0, <2>1 DEF Took
    <2>3. \A m \in Descriptors \ {n} : table'[m] = table[m]
      BY <1>0, <2>1 DEF Took
    <2>4. rfd'[t] = n /\ (\A u \in Threads \ {t} : rfd'[u] = rfd[u]) /\ fd' = fd
      BY <1>0, <1>3, <2>1 DEF TakesSecond
    <2>5. \A u \in Threads : fd[u] # n /\ rfd[u] # n
      BY <1>0, <1>a, <2>2 DEF Owned, Holds
    <2>6. rfd[t] = None /\ call'[t] = call[t]
      BY <1>3 DEF TakesSecond
    <2>7. /\ table' \in [Descriptors -> [file : Files \cup {Dir}, owner : Threads] \cup {None}]
          /\ fd' \in [Threads -> Descriptors \cup {None}]
          /\ rfd' \in [Threads -> Descriptors \cup {None}]
      BY <1>0, <2>1, <2>2, <2>4 DEF Took
    <2>8. \A m \in Descriptors : table'[m] # None =>
             m \in {fd'[table'[m].owner], rfd'[table'[m].owner]}
      BY <1>0, <1>a, <2>1, <2>2, <2>3, <2>4, <2>6 DEF Owned
    <2>9. \A u \in Threads : fd'[u] # None =>
             table'[fd'[u]] # None /\ table'[fd'[u]].owner = u /\ table'[fd'[u]].file \in Files
      BY <1>0, <1>a, <2>2, <2>3, <2>4, <2>5 DEF Owned, Holds
    <2>10. \A u \in Threads : rfd'[u] # None =>
             /\ table'[rfd'[u]] # None /\ table'[rfd'[u]].owner = u /\ rfd'[u] # fd'[u]
             /\ call'[u] # "cwd" => table'[rfd'[u]].file \in Files
      BY <1>0, <1>a, <1>b, <2>1, <2>2, <2>3, <2>4, <2>5, <2>6 DEF Owned, Holds
    <2> QED  BY <2>7, <2>8, <2>9, <2>10 DEF Owned, Holds
  <1>4. CASE DropsDescriptor(t)
    <2>1. /\ fd[t] # None /\ rfd[t] = None /\ fd'[t] = None /\ rfd' = rfd
          /\ \A u \in Threads \ {t} : fd'[u] = fd[u]
          /\ fd[t] \in Descriptors /\ table'[fd[t]] = None
          /\ \A m \in Descriptors \ {fd[t]} : table'[m] = table[m]
      BY <1>0, <1>4 DEF DropsDescriptor, Dropped
    <2>2. \A u \in Threads \ {t} : fd[u] # fd[t] /\ rfd[u] # fd[t]
      BY <1>0, <1>a, <2>1 DEF Owned, Holds
    <2>3. /\ table' \in [Descriptors -> [file : Files \cup {Dir}, owner : Threads] \cup {None}]
          /\ fd' \in [Threads -> Descriptors \cup {None}]
          /\ rfd' \in [Threads -> Descriptors \cup {None}]
      BY <1>0, <1>4 DEF DropsDescriptor, Dropped
    <2> QED  BY <1>0, <1>a, <1>b, <2>1, <2>2, <2>3 DEF Owned, Holds
  <1>5. CASE DropsSecond(t)
    <2>1. /\ rfd[t] # None /\ rfd'[t] = None /\ fd' = fd
          /\ \A u \in Threads \ {t} : rfd'[u] = rfd[u]
          /\ rfd[t] \in Descriptors /\ table'[rfd[t]] = None
          /\ \A m \in Descriptors \ {rfd[t]} : table'[m] = table[m]
      BY <1>0, <1>5 DEF DropsSecond, Dropped
    <2>2. /\ \A u \in Threads : fd[u] # rfd[t]
          /\ \A u \in Threads \ {t} : rfd[u] # rfd[t]
      BY <1>0, <1>a, <2>1 DEF Owned, Holds
    <2>3. /\ table' \in [Descriptors -> [file : Files \cup {Dir}, owner : Threads] \cup {None}]
          /\ fd' \in [Threads -> Descriptors \cup {None}]
          /\ rfd' \in [Threads -> Descriptors \cup {None}]
      BY <1>0, <1>5 DEF DropsSecond, Dropped
    <2> QED  BY <1>0, <1>a, <1>b, <2>1, <2>2, <2>3 DEF Owned, Holds
  <1> QED  BY <1>1, <1>2, <1>3, <1>4, <1>5, TableStep

-----------------------------------------------------------------------------
\* The files and what the threads know of them have their types after a system call.
FilesType ==
    /\ path \in Files \cup {None}
    /\ size \in [Files -> Pages]
    /\ disturbed \in [Threads -> BOOLEAN]
    /\ aborted \in BOOLEAN /\ changes \in 0..MaxChanges

LEMMA FilesStep ==
  ASSUME SysInv, NEW t \in Threads, SystemCall(t) \/ handler(t) \/ Return(t)
  PROVE  FilesType'
  <1>0. TypeOK /\ FilesType /\ call[t] \in Callers(pc[t]) /\ HoldsAt(call[t], pc[t], fd[t], rfd[t])
    BY DEF SysInv, Routed, HasDescriptor, TypeOK, FilesType
  <1>a. 0 \in Pages /\ Page \in Pages
    BY SysAssumption DEF Pages, Page
  <1>b. UNCHANGED <<aborted, changes>>
    BY DEF SystemCall, open, stat, fstatat, StatPath, truncate, ftruncate, mapReadOnly,
      mapReadWrite, mmap, realpath, getpath, closeRealpath, close, munmap, handler, Return, outside
  <1>c. ASSUME NEW others, Disturb(others)
        PROVE  disturbed' \in [Threads -> BOOLEAN]
    BY <1>0, <1>c DEF Disturb, FilesType
  <1>1. CASE open(t)
    <2>1. CASE UNCHANGED <<files, disturbed>>
      BY <1>0, <1>b, <2>1 DEF FilesType, files
    <2>2. CASE /\ \E f \in Files : path' = f /\ size' = [size EXCEPT ![f] = 0]
               /\ Disturb(Threads \ {t})
      BY <1>0, <1>a, <1>b, <1>c, <2>2 DEF FilesType
    <2> QED  BY <1>1, <2>1, <2>2 DEF open
  <1>2. CASE truncate(t) \/ ftruncate(t)
    <2>1. CASE UNCHANGED <<path, size, disturbed>>
      BY <1>0, <1>b, <2>1 DEF FilesType
    <2>2. ASSUME NEW f, NEW n \in Pages, SetSize(t, f, n), UNCHANGED path
          PROVE  FilesType'
      BY <1>0, <1>b, <1>c, <2>2 DEF FilesType, SetSize
    <2>3. UNCHANGED path
      BY <1>2 DEF truncate, ftruncate
    <2> QED  BY <1>2, <1>a, <2>1, <2>2, <2>3 DEF truncate, ftruncate
  <1>3. CASE Return(t)
    BY <1>0, <1>3 DEF Return, FilesType, files, outside
  <1>4. CASE \/ stat(t) \/ fstatat(t) \/ mapReadOnly(t) \/ mapReadWrite(t) \/ realpath(t)
             \/ getpath(t) \/ closeRealpath(t) \/ close(t) \/ munmap(t) \/ handler(t)
    <2>1. UNCHANGED <<path, size, disturbed>>
      BY <1>4 DEF stat, fstatat, StatPath, mapReadOnly, mapReadWrite, mmap, realpath, getpath,
        closeRealpath, close, munmap, handler, files
    <2> QED  BY <1>0, <1>b, <2>1 DEF FilesType
  <1> QED  BY <1>1, <1>2, <1>3, <1>4 DEF SystemCall

LocalsType ==
    /\ maps \in [Threads -> [file : Files, len : Pages \ {0}] \cup {None}]
    /\ buf \in [Threads -> Pages \cup {None}]
    /\ realer \in [Threads -> Files \cup {"empty", "unset"}]

LEMMA LocalsStep ==
  ASSUME SysInv, NEW t \in Threads, SystemCall(t) \/ handler(t) \/ Return(t)
  PROVE  LocalsType'
  <1>0. TypeOK /\ LocalsType /\ call[t] \in Callers(pc[t]) /\ LocalOK(t) /\ Owned
    BY DEF SysInv, Routed, HasDescriptor, Progress, Outcome, LocalOK, TypeOK, LocalsType
  <1>1. CASE stat(t) \/ fstatat(t)
    <2>1. CASE UNCHANGED buf
      BY <1>0, <1>1, <2>1 DEF stat, fstatat, StatPath, LocalsType
    <2>2. CASE path # None /\ buf' = [buf EXCEPT ![t] = IF InMapping(t) THEN size[path] ELSE @]
      <3>1. size[path] \in Pages /\ buf[t] \in Pages \cup {None}
        BY <1>0, <2>2 DEF TypeOK
      <3>2. UNCHANGED <<maps, realer>>
        BY <1>1 DEF stat, fstatat, StatPath
      <3> QED  BY <1>0, <2>2, <3>1, <3>2 DEF LocalsType
    <2> QED  BY <1>1, <2>1, <2>2 DEF stat, fstatat, StatPath
  <1>2. CASE mapReadOnly(t) \/ mapReadWrite(t)
    <2>1. PICK pages \in {buf[t], MappedSize(t)} :
             mmap(t, pages) /\ (call[t] = "mmapReadWrite" => pages = MappedSize(t))
      BY <1>2 DEF mapReadOnly, mapReadWrite
    <2>2. call[t] \in Mapping /\ fd[t] # None /\ UNCHANGED buf /\ pc[t] = "mmap"
      BY <1>0, <2>1 DEF mmap, Callers, HoldsAt, LocalOK
    <2>3. table[fd[t]].file \in Files
      BY <1>0, <2>2 DEF Owned
    <2>4. pages \in Pages \ {0}
      <3>1. buf[t] \in Pages /\ (call[t] \in ReadOnly => buf[t] # 0) /\ MaxPages \in Nat \ {0}
        BY <1>0, <2>2, SysAssumption DEF LocalOK, KnowsAt
      <3> QED  BY <2>1, <2>2, <3>1 DEF MappedSize, NeedsPage, Page, Pages, Mapping, ReadOnly
    <2>5. maps' \in [Threads -> [file : Files, len : Pages \ {0}] \cup {None}]
      BY <1>0, <2>1, <2>3, <2>4 DEF mmap, LocalsType
    <2>6. realer' \in [Threads -> Files \cup {"empty", "unset"}]
      BY <1>0, <2>1 DEF mmap, LocalsType
    <2> QED  BY <1>0, <2>2, <2>5, <2>6 DEF LocalsType
  <1>3. CASE getpath(t)
    <2>1. pc[t] = "getpath" /\ UNCHANGED <<maps, buf>>
      BY <1>3 DEF getpath
    <2>2. InMapping(t) => table[rfd[t]].file \in Files
      BY <1>0, <2>1 DEF LocalOK, HoldsAt, Owned, InMapping, Mapping
    <2>3. realer' \in [Threads -> Files \cup {"empty", "unset"}]
      <3>1. CASE UNCHANGED realer
        BY <1>0, <3>1 DEF LocalsType
      <3>2. CASE realer' = [realer EXCEPT ![t] = IF InMapping(t) THEN table[rfd[t]].file ELSE @]
        BY <1>0, <2>2, <3>2 DEF LocalsType
      <3> QED  BY <1>3, <3>1, <3>2 DEF getpath
    <2> QED  BY <1>0, <2>1, <2>3 DEF LocalsType
  <1>4. CASE munmap(t)
    BY <1>0, <1>4 DEF munmap, LocalsType, locals
  <1>5. CASE Return(t)
    BY <1>0, <1>5 DEF Return, LocalsType
  <1>6. CASE \/ open(t) \/ truncate(t) \/ ftruncate(t) \/ realpath(t)
             \/ closeRealpath(t) \/ close(t) \/ handler(t)
    <2>1. UNCHANGED <<maps, buf, realer>>
      BY <1>6 DEF open, truncate, ftruncate, realpath, closeRealpath, close, handler, locals
    <2> QED  BY <1>0, <2>1 DEF LocalsType
  <1> QED  BY <1>1, <1>2, <1>3, <1>4, <1>5, <1>6 DEF SystemCall

\* A system call leaves its thread at a label, in a function or in none.
LEMMA ControlStep ==
  ASSUME SysInv, NEW t \in Threads, SystemCall(t) \/ handler(t) \/ Return(t)
  PROVE  pc' \in [Threads -> Labels] /\ call' \in [Threads -> Calls \cup {None}]
  <1>0. pc \in [Threads -> Labels] /\ call \in [Threads -> Calls \cup {None}]
    BY DEF SysInv, TypeOK
  <1>1. ASSUME NEW label \in Labels, Goto(t, label)
        PROVE  pc' \in [Threads -> Labels] /\ call' \in [Threads -> Calls \cup {None}]
    <2>1. "idle" \in Labels /\ call[t] \in Calls \cup {None}
      BY <1>0 DEF Labels
    <2> QED  BY <1>0, <1>1, <2>1 DEF Goto
  <1>2. \A f, errs, pages : /\ AfterOpen(f) \in Labels /\ AfterStat(f, errs, pages) \in Labels
                            /\ AfterFtruncate(f, errs) \in Labels /\ AfterRealpath(f) \in Labels
    BY DEF AfterOpen, AfterStat, AfterStatReadOnly, AfterStatReadWrite, AfterFtruncate,
      AfterRealpath, Labels
  <1>3. {"done", "close", "ropen", "getpath", "rclose", "handler", "munmap"} \subseteq Labels
    BY DEF Labels
  <1>4. CASE Return(t)
    BY <1>0, <1>4 DEF Return, Labels
  <1>5. CASE SystemCall(t) \/ handler(t)
    <2>1. \E label \in Labels : Goto(t, label)
      BY <1>2, <1>3, <1>5 DEF SystemCall, open, stat, fstatat, StatPath, truncate, ftruncate,
        mapReadOnly, mapReadWrite, mmap, realpath, getpath, closeRealpath, close, munmap, handler
    <2> QED  BY <1>1, <2>1
  <1> QED  BY <1>4, <1>5

\* A system call preserves the invariant.
LEMMA CallStep ==
  ASSUME SysInv, NEW t \in Threads, SystemCall(t) \/ handler(t) \/ Return(t)
  PROVE  SysInv'
  <1>1. TypeOK'
    <2>1. \/ UNCHANGED errors
          \/ Fail(t, "failed") \/ Fail(t, "close")
          \/ FailUnlessQuiet(t, "failed") \/ FailUnlessQuiet(t, "close")
      BY DEF SystemCall, open, stat, fstatat, StatPath, truncate, ftruncate, mapReadOnly,
        mapReadWrite, mmap, realpath, getpath, closeRealpath, close, munmap, handler, Return
    <2>2. errors' \in [Threads -> Seq({"failed", "close"})]
      BY <2>1, ErrorsStep DEF SysInv
    <2> QED  BY <2>2, ControlStep, LocalsStep, FilesStep, OwnedStep
              DEF TypeOK, LocalsType, FilesType
  <1>2. \A u \in Threads : LocalOK(u) /\ (u # t => Stay(u))
    BY OthersStay DEF SysInv, HasDescriptor, Progress, Outcome, LocalOK
  <1>3. \A u \in Threads : LocalOK(u)'
    BY <1>2, LocalStep DEF LocalOK, Stay
  <1> QED  BY <1>1, <1>3, RoutedStep, OwnedStep
            DEF SysInv, HasDescriptor, Progress, Outcome, LocalOK

-----------------------------------------------------------------------------
\* What the clients and other processes do preserves the invariant.
LEMMA BeginStep ==
  ASSUME SysInv, NEW t \in Threads, NEW f \in Calls, Call(t, f)
  PROVE  SysInv'
  <1>0. TypeOK /\ call[t] \in Callers(pc[t]) /\ LocalOK(t) /\ pc[t] = "idle" /\ rfd[t] = None
    BY DEF SysInv, Routed, HasDescriptor, Progress, Outcome, LocalOK, Call, HoldsAt
  <1>1. /\ pc' = [pc EXCEPT ![t] = First(f)] /\ call' = [call EXCEPT ![t] = f]
        /\ UNCHANGED <<path, size, table, maps, fd, rfd, buf, realer, errors, aborted,
                       changes, disturbed>>
    BY DEF Call, files, locals, outside
  <1>2. First(f) \in Labels /\ f \in Callers(First(f))
    BY DEF First, Calls, Mapping, Labels, Callers
  <1>3. pc'[t] = First(f) /\ call'[t] = f /\ \A u \in Threads \ {t} : Stay(u)
    BY <1>0, <1>1 DEF TypeOK, Stay
  <1>4. TypeOK'
    BY <1>0, <1>1, <1>2 DEF TypeOK
  <1>5. Routed'
    BY <1>2, <1>3 DEF SysInv, Routed, Stay
  <1>6. Owned'
    BY <1>0, <1>1, <1>3 DEF SysInv, Owned, Holds, Stay
  <1>7. realer[t] = "unset" /\ (f \in Mapping => fd[t] = None /\ maps[t] = None)
    <2>1. call[t] \notin Mapping
      BY <1>0, SysAssumption DEF Callers, Calls
    <2> QED  BY <1>0, <2>1 DEF Call, LocalOK, KnowsAt
  <1>8. LocalOK(t)'
    <2>1. /\ f = "open" => fd[t] = None
          /\ f \in {"close", "ftruncate"} => fd[t] # None
      BY DEF Call
    <2>2. /\ fd'[t] = fd[t] /\ rfd'[t] = rfd[t] /\ buf'[t] = buf[t] /\ maps'[t] = maps[t]
          /\ realer'[t] = realer[t] /\ errors'[t] = errors[t]
      BY <1>1
    <2> QED  BY <1>0, <1>3, <1>7, <2>1, <2>2
              DEF LocalOK, HoldsAt, KnowsAt, AgreesAt, First, Calls, Mapping, ReadOnly
  <1>9. \A u \in Threads : LocalOK(u)'
    BY <1>3, <1>8 DEF SysInv, HasDescriptor, Progress, Outcome, LocalOK, Stay
  <1> QED  BY <1>4, <1>5, <1>6, <1>9 DEF SysInv, HasDescriptor, Progress, Outcome, LocalOK

LEMMA MessageStep ==
  ASSUME SysInv, NEW t \in Threads,
         ClearError(t) \/ \E b \in Behavior, text \in {Blank, "failed"} : Log(t, b, text)
  PROVE  SysInv'
  <1>0. TypeOK /\ LocalOK(t) /\ call[t] \in Callers(pc[t]) /\ pc[t] = "idle"
    BY DEF SysInv, Routed, HasDescriptor, Progress, Outcome, LocalOK, ClearError, Log
  <1>1. UNCHANGED <<path, size, table, maps, pc, call, fd, rfd, buf, realer, aborted,
                    changes, disturbed>>
    BY DEF ClearError, Log, files, locals, outside
  <1>2. PICK list \in Seq({"failed", "close"}) : errors' = [errors EXCEPT ![t] = list]
    <2>1. CASE ClearError(t)
      <3>1. <<>> \in Seq({"failed", "close"})
        OBVIOUS
      <3> QED  BY <2>1, <3>1 DEF ClearError, clearError
    <2>2. CASE \E b \in Behavior, text \in {Blank, "failed"} : Log(t, b, text)
      <3>1. PICK b \in Behavior, text \in {Blank, "failed"} :
               errors' = [errors EXCEPT ![t] = log(errors[t], b, text)]
        BY <2>2 DEF Log
      <3>2. errors[t] \in Seq({"failed", "close"})
        BY <1>0 DEF TypeOK
      <3>3. Append(errors[t], "failed") \in Seq({"failed", "close"})
        BY <3>2, AppendProperties
      <3>4. log(errors[t], b, text) \in Seq({"failed", "close"})
        BY <3>2, <3>3 DEF log, append
      <3> QED  BY <3>1, <3>4
    <2> QED  BY <2>1, <2>2
  <1>3. TypeOK'
    BY <1>0, <1>1, <1>2 DEF TypeOK
  <1>4. \A u \in Threads \ {t} : errors'[u] = errors[u]
    BY <1>0, <1>2 DEF TypeOK
  <1>5. call[t] \notin Mapping
    BY <1>0, SysAssumption DEF Callers, Calls
  <1>6. Progress' /\ Outcome'
    BY <1>1, <1>4, <1>5 DEF SysInv, Progress, Outcome, KnowsAt, AgreesAt
  <1> QED  BY <1>1, <1>3, <1>6 DEF SysInv, Routed, HasDescriptor, Owned, Holds

LEMMA ElsewhereStep ==
  ASSUME SysInv,
         \/ \E t \in Threads : AssertNoError(t)
         \/ \E f \in Files : Replace(f) \/ \E n \in Pages : Resize(f, n)
         \/ Unlink
  PROVE  SysInv'
  <1>0. TypeOK
    BY DEF SysInv
  <1>1. UNCHANGED <<table, maps, pc, call, fd, rfd, buf, realer, errors>>
    BY DEF AssertNoError, Replace, Resize, Unlink, Elsewhere, locals, outside
  <1>2. CASE \E t \in Threads : AssertNoError(t)
    <2>1. aborted' = TRUE /\ UNCHANGED <<path, size, changes, disturbed>>
      BY <1>2 DEF AssertNoError, files
    <2> QED  BY <1>0, <1>1, <2>1
              DEF SysInv, TypeOK, Routed, HasDescriptor, Owned, Progress, Outcome, Holds
  <1>3. CASE Elsewhere
    <2>1. /\ changes' \in 0..MaxChanges /\ aborted' \in BOOLEAN
          /\ disturbed' \in [Threads -> BOOLEAN]
      BY <1>0, <1>3, SysAssumption DEF Elsewhere, TypeOK, Disturb
    <2>2. path' \in Files \cup {None} /\ size' \in [Files -> Pages]
      <3>1. CASE \E f \in Files : Replace(f)
        BY <1>0, <3>1 DEF TypeOK, Replace
      <3>2. CASE \E f \in Files : \E n \in Pages : Resize(f, n)
        BY <1>0, <3>2 DEF TypeOK, Resize
      <3>3. CASE Unlink
        BY <1>0, <3>3 DEF TypeOK, Unlink
      <3>4. CASE \E t \in Threads : AssertNoError(t)
        BY <1>0, <3>4 DEF TypeOK, AssertNoError, files
      <3> QED  BY <3>1, <3>2, <3>3, <3>4
    <2> QED  BY <1>0, <1>1, <2>1, <2>2
              DEF SysInv, TypeOK, Routed, HasDescriptor, Owned, Progress, Outcome, Holds
  <1> QED  BY <1>2, <1>3 DEF Replace, Resize, Unlink

\* SysInv holds in every state: it is inductive as it stands.
THEOREM SysInvariant == Spec => []SysInv
  <1>1. Init => SysInv
    <2> SUFFICES ASSUME Init PROVE SysInv
      OBVIOUS
    <2>1. TypeOK
      <3>1. 0 \in 0..MaxChanges /\ <<>> \in Seq({"failed", "close"}) /\ "idle" \in Labels
        BY SysAssumption DEF Labels
      <3>2. errors \in [Threads -> Seq({"failed", "close"})]
        BY <3>1 DEF Init
      <3> QED  BY <3>1, <3>2 DEF Init, TypeOK
    <2>2. \A t \in Threads : /\ pc[t] = "idle" /\ call[t] = None /\ fd[t] = None
                             /\ rfd[t] = None /\ realer[t] = "unset"
      BY DEF Init
    <2>3. None \notin Mapping
      BY SysAssumption DEF Calls
    <2>4. Routed /\ HasDescriptor
      BY <2>2, <2>3 DEF Routed, HasDescriptor, Callers, HoldsAt, ReadOnly, Mapping
    <2>5. Owned
      BY <2>2 DEF Init, Owned
    <2> QED  BY <2>1, <2>2, <2>3, <2>4, <2>5 DEF SysInv, Progress, Outcome, KnowsAt, AgreesAt
  <1>2. SysInv /\ [Next]_vars => SysInv'
    <2> SUFFICES ASSUME SysInv, [Next]_vars PROVE SysInv'
      OBVIOUS
    <2>1. CASE UNCHANGED vars
      BY <2>1 DEF vars, files, locals, outside, SysInv, TypeOK, Routed, HasDescriptor, Owned,
        Progress, Outcome, Holds
    <2>2. CASE Next
      BY <2>2, BeginStep, CallStep, MessageStep, ElsewhereStep DEF Next
    <2> QED  BY <2>1, <2>2
  <1> QED  BY <1>1, <1>2, PTL DEF Spec

\* Every variable of the wrappers keeps its type: no call reads a descriptor that is
\* not there, and no mapping is empty.
THEOREM TypeCorrect == Spec => []TypeOK
  BY SysInvariant, PTL DEF SysInv

\* No failure on any path through open, realpath or the mapping functions loses a
\* descriptor (sys.cpp).
THEOREM NoLeak == Spec => []NoDescriptorLeak
  <1>1. SysInv => NoDescriptorLeak
    BY DEF SysInv, Owned, HasDescriptor, HoldsAt, NoDescriptorLeak, Free
  <1> QED  BY <1>1, SysInvariant, PTL

\* A thread closes, resizes and maps the descriptor that it opened, and never one that
\* another thread was given under the same number.
THEOREM OwnDescriptors == Spec => []ClosesItsOwn
  <1>1. SysInv => ClosesItsOwn
    BY DEF SysInv, Owned, HasDescriptor, HoldsAt, ClosesItsOwn
  <1> QED  BY <1>1, SysInvariant, PTL

\* A mapping function returns a mapping or an error, never both and never neither, but
\* for the message of close and for the empty file that is not mapped.
THEOREM OutcomeCorrect == Spec => []OutcomeAgrees
  <1>1. SysInv => OutcomeAgrees
    BY DEF SysInv, Outcome, AgreesAt, OutcomeAgrees, hasError
  <1> QED  BY <1>1, SysInvariant, PTL

-----------------------------------------------------------------------------
(***************************************************************************)
(* What an undisturbed mapping function has seen.                           *)
(***************************************************************************)
\* A system call of t that changes the files disturbs the other threads.
LEMMA DisturbsOthers ==
  ASSUME SysInv, NEW t \in Threads, SystemCall(t) \/ handler(t) \/ Return(t),
         NEW u \in Threads \ {t}
  PROVE  \/ UNCHANGED <<path, size>> /\ disturbed'[u] = disturbed[u]
         \/ InMapping(u) => disturbed'[u]
  <1>0. TypeOK
    BY DEF SysInv
  <1>1. ASSUME Disturb(Threads \ {t}) PROVE InMapping(u) => disturbed'[u]
    BY <1>1 DEF Disturb
  <1>2. CASE Return(t)
    BY <1>0, <1>2 DEF Return, files, TypeOK
  <1>3. CASE SystemCall(t) \/ handler(t)
    <2>1. UNCHANGED <<path, size, disturbed>> \/ Disturb(Threads \ {t})
      BY <1>3 DEF SystemCall, open, stat, fstatat, StatPath, truncate, ftruncate, mapReadOnly,
        mapReadWrite, mmap, realpath, getpath, closeRealpath, close, munmap, handler, files, SetSize
    <2> QED  BY <1>1, <2>1
  <1> QED  BY <1>2, <1>3

\* A system call of t leaves the descriptors of the other threads alone.
LEMMA OthersKeep ==
  ASSUME SysInv, NEW t \in Threads, SystemCall(t) \/ handler(t) \/ Return(t),
         NEW u \in Threads \ {t}
  PROVE  /\ fd[u] # None => table'[fd[u]] = table[fd[u]]
         /\ rfd[u] # None => table'[rfd[u]] = table[rfd[u]]
  <1>0. TypeOK /\ Owned
    BY DEF SysInv
  <1>1. ASSUME NEW n, NEW f, Took(t, n, f)
        PROVE  \A m \in Descriptors : table[m] # None => table'[m] = table[m]
    BY <1>0, <1>1 DEF Took, TypeOK
  <1>2. ASSUME NEW n, Dropped(n)
        PROVE  \A m \in Descriptors : m # n => table'[m] = table[m]
    BY <1>0, <1>2 DEF Dropped, TypeOK
  <1>3. /\ fd[u] # None => fd[u] \in Descriptors /\ table[fd[u]] # None
        /\ rfd[u] # None => rfd[u] \in Descriptors /\ table[rfd[u]] # None
    BY <1>0 DEF Owned, Holds, TypeOK
  <1>4. ASSUME NEW n \in {fd[t], rfd[t]}, n # None
        PROVE  n # fd[u] /\ n # rfd[u]
    BY <1>0, <1>4 DEF Owned, Holds
  <1>5. CASE KeepsDescriptors(t)
    BY <1>5 DEF KeepsDescriptors
  <1>6. CASE TakesDescriptor(t) \/ TakesSecond(t)
    BY <1>1, <1>3, <1>6 DEF TakesDescriptor, TakesSecond
  <1>7. CASE DropsDescriptor(t) \/ DropsSecond(t)
    <2>1. PICK n \in {fd[t], rfd[t]} : Dropped(n) /\ n # None
      BY <1>7 DEF DropsDescriptor, DropsSecond, Dropped
    <2> QED  BY <1>2, <1>3, <1>4, <2>1
  <1> QED  BY <1>5, <1>6, <1>7, TableStep

\* What another thread has seen stays true, or the system call of t disturbs it.
LEMMA OthersSee ==
  ASSUME SysInv, NEW t \in Threads, SystemCall(t) \/ handler(t) \/ Return(t),
         NEW u \in Threads \ {t}, SeesNow(u)
  PROVE  SeesNow(u)'
  <1>1. Stay(u)
    BY OthersStay
  <1>2. CASE InMapping(u) => disturbed'[u]
    BY <1>1, <1>2 DEF SeesNow, InMapping, Stay
  <1>3. CASE UNCHANGED <<path, size>> /\ disturbed'[u] = disturbed[u]
    <2>1. call[u] \in Callers(pc[u]) /\ HoldsAt(call[u], pc[u], fd[u], rfd[u])
      BY DEF SysInv, Routed, HasDescriptor
    <2>2. /\ fd[u] # None => table'[fd[u]] = table[fd[u]]
          /\ rfd[u] # None => table'[rfd[u]] = table[rfd[u]]
      BY OthersKeep
    <2>3. size'[path'] = size[path]
      BY <1>3
    <2> SUFFICES ASSUME InMapping(u), ~disturbed[u]
                 PROVE  SeesNow(u)'
      BY <1>1, <1>3 DEF SeesNow, InMapping, Stay
    <2>4. SeenAt(call[u], pc[u], buf[u], maps[u], realer[u],
                 table[fd[u]].file, table[rfd[u]].file, path, size[path])
      BY DEF SeesNow
    <2>5. SeenAt(call[u], pc[u], buf[u], maps[u], realer[u],
                 table'[fd[u]].file, table'[rfd[u]].file, path, size[path])
      BY <2>1, <2>2, <2>4 DEF SeenAt, HoldsAt, InMapping
    <2> QED  BY <1>1, <1>3, <2>3, <2>5 DEF SeesNow, Stay
  <1> QED  BY <1>2, <1>3, DisturbsOthers

\* What the thread of a system call has seen is true after it, unless it was disturbed.
LEMMA SelfSees ==
  ASSUME SysInv, NEW t \in Threads, SystemCall(t) \/ handler(t) \/ Return(t), SeesNow(t)
  PROVE  SeesNow(t)'
  <1>0. TypeOK /\ call[t] \in Callers(pc[t]) /\ LocalOK(t) /\ Owned
    BY DEF SysInv, Routed, HasDescriptor, Progress, Outcome, LocalOK
  <1>a. /\ None \notin Mapping /\ None \notin Descriptors /\ None \notin Files
        /\ MaxPages \in Nat \ {0}
    BY SysAssumption DEF Calls
  <1>b. path # None => path \in Files /\ size[path] \in Pages
    BY <1>0 DEF TypeOK
  <1>c. call'[t] = call[t] \/ call'[t] = None
    <2>1. CASE Return(t)
      BY <1>0, <2>1 DEF Return, TypeOK
    <2>2. ASSUME NEW label, Goto(t, label) PROVE call'[t] \in {call[t], None}
      BY <1>0, <2>2, GotoLands DEF Landed
    <2>3. CASE SystemCall(t) \/ handler(t)
      BY <2>2, <2>3 DEF SystemCall, open, stat, fstatat, StatPath, truncate, ftruncate,
        mapReadOnly, mapReadWrite, mmap, realpath, getpath, closeRealpath, close, munmap, handler
    <2> QED  BY <2>1, <2>3
  <1>d. CASE Return(t)
    BY <1>0, <1>a, <1>d DEF Return, SeesNow, InMapping, TypeOK
  <1>e. ~Return(t) => disturbed'[t] = disturbed[t]
    <2>1. ASSUME Disturb(Threads \ {t}) PROVE disturbed'[t] = disturbed[t]
      BY <1>0, <2>1 DEF Disturb, TypeOK
    <2> QED  BY <2>1 DEF SystemCall, open, stat, fstatat, StatPath, truncate, ftruncate,
      mapReadOnly, mapReadWrite, mmap, realpath, getpath, closeRealpath, close, munmap,
      handler, SetSize
  <1> SUFFICES ASSUME SystemCall(t) \/ handler(t), ~Return(t), call[t] \in Mapping,
                      call'[t] = call[t], ~disturbed[t],
                      SeenAt(call[t], pc[t], buf[t], maps[t], realer[t],
                             table[fd[t]].file, table[rfd[t]].file, path, size[path])
               PROVE  SeenAt(call[t], pc'[t], buf'[t], maps'[t], realer'[t],
                             table'[fd'[t]].file, table'[rfd'[t]].file, path', size'[path'])
    BY <1>a, <1>c, <1>d, <1>e DEF SeesNow, InMapping
  <1>f. \A label : Landed(t, label) => pc'[t] = label
    BY DEF Landed
  <1>1. CASE open(t)
    <2>1. /\ pc[t] = "open" /\ maps'[t] = maps[t] /\ maps[t] = None
          /\ buf'[t] = buf[t] /\ call[t] # "open"
      BY <1>0, <1>1 DEF open, LocalOK, KnowsAt, Mapping
    <2>2. CASE Goto(t, "done")
      <3>1. pc'[t] = "done"
        BY <1>0, <1>f, <2>2, GotoLands
      <3> QED  BY <2>1, <3>1 DEF SeenAt
    <2>3. ASSUME Free # {}, NEW f \in Files, path' = f,
                 table' = [table EXCEPT ![Min(Free)] = [file |-> f, owner |-> t]],
                 fd' = [fd EXCEPT ![t] = Min(Free)], Goto(t, AfterOpen(call[t])),
                 call[t] \in ReadOnly => size'[path'] = size[path]
          PROVE  SeenAt(call[t], pc'[t], buf'[t], maps'[t], realer'[t],
                        table'[fd'[t]].file, table'[rfd'[t]].file, path', size'[path'])
      <3>1. table'[fd'[t]].file = f /\ path' # None
        BY <1>0, <1>a, <2>3, LowestFree DEF TypeOK
      <3>2. pc'[t] = AfterOpen(call[t])
        BY <1>0, <1>f, <2>3, GotoLands
      <3>3. pc'[t] = IF call[t] \in ReadOnly THEN "mmap" ELSE "stat"
        BY <3>2 DEF AfterOpen, Mapping, ReadOnly
      <3> QED  BY <2>1, <2>3, <3>1, <3>3 DEF SeenAt, Mapping, ReadOnly
    <2>4. CASE /\ path # None /\ Opened(t, path) /\ fd' = [fd EXCEPT ![t] = Min(Free)]
               /\ Goto(t, AfterOpen(call[t])) /\ UNCHANGED files
      BY <1>b, <2>3, <2>4 DEF Opened, files
    <2>5. CASE /\ MayCreate(call[t]) /\ (\E f \in Files : Opened(t, f) /\ path' = f)
               /\ fd' = [fd EXCEPT ![t] = Min(Free)] /\ Goto(t, AfterOpen(call[t]))
      BY <2>3, <2>5 DEF Opened, MayCreate, ReadOnly
    <2> QED  BY <1>1, <2>2, <2>4, <2>5 DEF open
  <1>2. CASE stat(t) \/ fstatat(t)
    <2>1. /\ pc[t] = "stat" /\ maps'[t] = maps[t] /\ maps[t] = None
          /\ UNCHANGED <<table, fd, path, size>>
      BY <1>0, <1>2 DEF stat, fstatat, StatPath, LocalOK, KnowsAt, Callers, Mapping, files
    <2>2. pc'[t] = AfterStat(call[t], errors'[t], buf'[t])
      BY <1>0, <1>2, <1>f, GotoLands DEF stat, fstatat, StatPath
    <2>3. errors'[t] # <<>> \/ (path # None /\ buf'[t] = size[path])
      BY <1>0, <1>2, FailType DEF stat, fstatat, StatPath, TypeOK, InMapping
    <2> QED  BY <1>a, <1>b, <2>1, <2>2, <2>3
              DEF SeenAt, Mapping, ReadOnly, AfterStat, AfterStatReadOnly, AfterStatReadWrite,
                NeedsPage, hasError, Pages
  <1>3. CASE truncate(t)
    BY <1>0, <1>3 DEF truncate, Callers, Mapping
  <1>4. CASE ftruncate(t)
    <2>1. /\ pc[t] = "ftruncate" /\ call[t] = "mmapReadWrite" /\ maps'[t] = maps[t]
          /\ maps[t] = None /\ buf[t] = 0 /\ UNCHANGED <<table, fd, buf, path>>
      BY <1>0, <1>4 DEF ftruncate, LocalOK, KnowsAt, Callers, Mapping, locals
    <2>2. pc'[t] = AfterFtruncate(call[t], errors'[t])
      BY <1>0, <1>4, <1>f, GotoLands DEF ftruncate
    <2>3. path # None /\ table[fd[t]].file = path
      BY <2>1 DEF SeenAt
    <2>4. errors'[t] # <<>> \/ size'[path] = Page
      <3>1. CASE Fail(t, "failed")
        BY <1>0, <3>1, FailType
      <3>2. CASE SetSize(t, path, Page)
        BY <1>0, <1>b, <2>3, <3>2 DEF SetSize, TypeOK
      <3> QED  BY <1>4, <2>1, <2>3, <3>1, <3>2 DEF ftruncate
    <2> QED  BY <2>1, <2>2, <2>3, <2>4
              DEF SeenAt, AfterFtruncate, hasError, NeedsPage, Page, ReadOnly
  <1>5. CASE mapReadOnly(t) \/ mapReadWrite(t)
    <2>1. PICK pages : /\ mmap(t, pages)
                       /\ pages = IF call[t] \in ReadOnly THEN buf[t] ELSE MappedSize(t)
      BY <1>5 DEF mapReadOnly, mapReadWrite, Mapping, ReadOnly
    <2>2. /\ pc[t] = "mmap" /\ UNCHANGED <<table, fd, path, size>> /\ buf[t] \in Pages
          /\ maps[t] = None /\ realer[t] = "unset"
      BY <1>0, <2>1 DEF mmap, LocalOK, KnowsAt, files
    <2>3. path # None /\ table[fd[t]].file = path /\ pages = size[path]
      BY <2>1, <2>2 DEF SeenAt, MappedSize
    <2>4. pc'[t] \in {"ropen", "close"}
      BY <1>0, <1>f, <2>1, GotoLands DEF mmap
    <2>5. \/ maps'[t] = None
          \/ maps'[t].file = path /\ maps'[t].len = size[path] /\ realer'[t] \in {"empty", "unset"}
      BY <1>0, <2>1, <2>2, <2>3 DEF mmap, TypeOK
    <2>6. size[path] <= size[path]
      BY <1>a, <1>b, <2>3 DEF Pages
    <2> QED  BY <2>2, <2>4, <2>5, <2>6 DEF SeenAt
  <1>6. CASE realpath(t)
    <2>1. /\ pc[t] = "ropen" /\ call[t] # "cwd" /\ UNCHANGED <<path, size>>
          /\ maps'[t] = maps[t] /\ realer'[t] = realer[t]
      BY <1>0, <1>6 DEF realpath, files, Mapping
    <2>2. pc'[t] = "close" \/ (pc'[t] = "getpath" /\ table'[rfd'[t]].file = path)
      <3>1. CASE Goto(t, "getpath") /\ Opened(t, path) /\ rfd' = [rfd EXCEPT ![t] = Min(Free)]
        <4>1. pc'[t] = "getpath"
          BY <1>0, <1>f, <3>1, GotoLands
        <4>2. table'[rfd'[t]].file = path
          BY <1>0, <3>1, LowestFree DEF TypeOK, Opened
        <4> QED  BY <4>1, <4>2
      <3>2. CASE Goto(t, AfterRealpath(call[t]))
        BY <1>0, <1>f, <3>2, GotoLands DEF AfterRealpath
      <3> QED  BY <1>6, <2>1, <3>1, <3>2 DEF realpath
    <2> QED  BY <2>1, <2>2 DEF SeenAt
  <1>7. CASE getpath(t)
    <2>1. /\ pc[t] = "getpath" /\ UNCHANGED <<path, size>> /\ maps'[t] = maps[t]
          /\ realer'[t] \in {realer[t], table[rfd[t]].file}
      BY <1>0, <1>7 DEF getpath, files, TypeOK
    <2>2. pc'[t] = "rclose"
      BY <1>0, <1>7, <1>f, GotoLands DEF getpath
    <2> QED  BY <2>1, <2>2 DEF SeenAt
  <1>8. CASE closeRealpath(t) \/ close(t) \/ munmap(t) \/ handler(t)
    <2>1. /\ UNCHANGED <<path, size>> /\ maps'[t] \in {maps[t], None} /\ realer'[t] = realer[t]
      BY <1>0, <1>8 DEF closeRealpath, close, munmap, handler, files, locals, TypeOK
    <2>2. pc'[t] \in {"close", "handler", "done", "munmap"}
      BY <1>0, <1>8, <1>f, GotoLands DEF closeRealpath, close, munmap, handler, AfterRealpath
    <2> QED  BY <2>1, <2>2 DEF SeenAt
  <1> QED  BY <1>1, <1>2, <1>3, <1>4, <1>5, <1>6, <1>7, <1>8 DEF SystemCall

\* What the undisturbed threads have seen is true in every state.
THEOREM SeenInvariant == Spec => []Seen
  <1>1. Init => Seen
    <2>1. None \notin Mapping
      BY SysAssumption DEF Calls
    <2> QED  BY <2>1 DEF Init, Seen, SeesNow, InMapping
  <1>2. SysInv /\ Seen /\ [Next]_vars => Seen'
    <2> SUFFICES ASSUME SysInv, Seen, [Next]_vars, NEW u \in Threads PROVE SeesNow(u)'
      BY DEF Seen
    <2>0. SeesNow(u)
      BY DEF Seen
    <2>1. CASE UNCHANGED <<path, size, table, maps, pc, call, fd, rfd, buf, realer, disturbed>>
      BY <2>0, <2>1 DEF SeesNow, InMapping
    <2>2. ASSUME NEW t \in Threads, SystemCall(t) \/ handler(t) \/ Return(t) PROVE SeesNow(u)'
      BY <2>0, <2>2, OthersSee, SelfSees
    <2>3. ASSUME NEW t \in Threads, NEW f \in Calls, Call(t, f) PROVE SeesNow(u)'
      <3>1. /\ UNCHANGED <<path, size, table, maps, fd, rfd, buf, realer, disturbed>>
            /\ pc' = [pc EXCEPT ![t] = First(f)] /\ call' = [call EXCEPT ![t] = f]
            /\ f \in Mapping => maps[t] = None
        BY <2>3 DEF Call, files, locals
      <3>2. CASE u # t
        <4>1. pc'[u] = pc[u] /\ call'[u] = call[u]
          BY <3>1, <3>2 DEF SysInv, TypeOK
        <4> QED  BY <2>0, <3>1, <4>1 DEF SeesNow, InMapping
      <3>3. CASE u = t
        <4>1. pc'[t] = First(f) /\ call'[t] = f
          BY <3>1 DEF SysInv, TypeOK
        <4> QED  BY <3>1, <3>3, <4>1 DEF SeesNow, SeenAt, InMapping, First, Mapping, ReadOnly
      <3> QED  BY <3>2, <3>3
    <2>4. ASSUME Elsewhere PROVE SeesNow(u)'
      BY <2>4 DEF Elsewhere, Disturb, SeesNow, InMapping
    <2>5. ASSUME NEW t \in Threads, ClearError(t) \/ AssertNoError(t)
                 \/ \E b \in Behavior, text \in {Blank, "failed"} : Log(t, b, text)
          PROVE  SeesNow(u)'
      BY <2>1, <2>5 DEF ClearError, AssertNoError, Log, files, locals
    <2>6. CASE UNCHANGED vars
      BY <2>1, <2>6 DEF vars, files, locals
    <2> QED  BY <2>2, <2>3, <2>4, <2>5, <2>6 DEF Next, Replace, Resize, Unlink
  <1> QED  BY <1>1, <1>2, SysInvariant, PTL DEF Spec

\* Unless somebody else changed the files during the call, a mapping that is returned
\* lies within the file of the path, and the realer path names that file.
THEOREM MappingCorrect == Spec => []MappingMatches
  <1>1. Seen => MappingMatches
    BY DEF Seen, SeesNow, SeenAt, InMapping, MappingMatches
  <1> QED  BY <1>1, SeenInvariant, PTL

\* The ftruncate of mmapReadWrite never shortens a file, unless somebody else changed
\* the files since its stat.
THEOREM NeverShrinks == Spec => ShrinksOnlyIfDisturbed
  <1>1. SysInv /\ Seen /\ [Next]_vars =>
          [\A t \in Threads :
             pc[t] = "ftruncate" /\ pc'[t] # pc[t] /\ call[t] = "mmapReadWrite" /\ ~disturbed[t]
             => \A f \in Files : size'[f] >= size[f]]_vars
    <2> SUFFICES ASSUME SysInv, Seen, Next, NEW t \in Threads, NEW f \in Files,
                        pc[t] = "ftruncate", pc'[t] # pc[t], call[t] = "mmapReadWrite",
                        ~disturbed[t]
                 PROVE  size'[f] >= size[f]
      OBVIOUS
    <2>0. TypeOK /\ size[f] \in Pages /\ size[f] >= size[f]
      BY SysAssumption DEF SysInv, TypeOK, Pages
    <2>1. path # None /\ table[fd[t]].file = path /\ size[path] = 0 /\ path \in Files
      BY <2>0 DEF Seen, SeesNow, SeenAt, InMapping, Mapping, TypeOK
    <2>2. CASE UNCHANGED size
      BY <2>0, <2>2
    <2>3. CASE ftruncate(t)
      <3>1. CASE SetSize(t, path, Page)
        BY <2>0, <2>1, <3>1 DEF SetSize, TypeOK, Page
      <3> QED  BY <2>1, <2>2, <2>3, <3>1 DEF ftruncate
    <2>4. ftruncate(t)
      <3>1. ASSUME NEW u \in Threads, SystemCall(u) \/ handler(u) \/ Return(u) PROVE ftruncate(t)
        <4>1. u = t
          BY <3>1, OthersStay DEF Stay
        <4> QED  BY <3>1, <4>1 DEF SystemCall, open, stat, fstatat, StatPath, truncate,
          mapReadOnly, mapReadWrite, mmap, realpath, getpath, closeRealpath, close, munmap,
          handler, Return
      <3>2. ASSUME NEW u \in Threads, NEW g, Call(u, g) PROVE FALSE
        BY <2>0, <3>2 DEF Call, TypeOK
      <3> QED  BY <3>1, <3>2 DEF Next, ClearError, AssertNoError, Log, Replace, Resize, Unlink,
        Elsewhere
    <2> QED  BY <2>3, <2>4
  <1> QED  BY <1>1, SysInvariant, SeenInvariant, PTL DEF Spec, ShrinksOnlyIfDisturbed
=============================================================================
