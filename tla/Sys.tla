--------------------------------- MODULE Sys ---------------------------------
(***************************************************************************)
(* The file wrappers of sys.cpp, called by the threads of a process on one  *)
(* path, while other processes resize, replace and unlink the file.         *)
(*                                                                          *)
(* A system call is a step, so pc[t] names the one that thread t makes      *)
(* next, and the After operators, one per system call, are the control of   *)
(* the functions that make several: what they do next depends on the        *)
(* function, on the diagnostics and on what the call returned.  An attempt  *)
(* that is retried (EAGAIN, EINTR) changes nothing: it is a stuttering      *)
(* step.  Any system call may fail.                                         *)
(*                                                                          *)
(* Sizes count pages, and descriptors are numbers, which the kernel hands   *)
(* out again, lowest first.  A caller's diagnostics belongs to one thread.  *)
(***************************************************************************)
EXTENDS Integers, FiniteSetsExt, Diagnostics

CONSTANTS
    Threads,
    Files,        \* regular files
    Dir,          \* the working directory
    Descriptors,  \* numbers the descriptor table has room for
    MaxPages,     \* bound on the size of a file
    MaxChanges,   \* bound on what other processes do
    Uses,         \* per thread, the functions its client calls
    MaxErrors,    \* a client clears diagnostics with more errors than that
    None

VARIABLES
    path,       \* the file the path leads to
    size,       \* per file, its pages
    table,      \* per descriptor, the open file and the thread that opened it
    maps,       \* per thread, the mapping it has
    pc,         \* per thread, its next system call
    call,       \* per thread, the function it is in
    fd,         \* per thread, its descriptor, or the one its client keeps
    rfd,        \* per thread, the descriptor of realpath
    buf,        \* per thread, st_size of its statbuf in a mapping function
    realer,     \* per thread, the file that the realerPath of one names
    errors,     \* per thread, the errors of its diagnostics
    aborted,    \* assertNoError ended the process
    changes,    \* what other processes have done so far
    disturbed   \* history: per thread, someone else changed the files since
                \* its call began

files    == <<path, size>>
locals   == <<fd, rfd, buf, realer>>
outside  == <<aborted, changes>>
vars     == <<files, table, maps, pc, call, locals, errors, outside, disturbed>>

Pages    == 0..MaxPages
Page     == 1                \* 1024 * 4 bytes
Mapping  == {"mmapReadOnly", "withMmapReadOnly", "mmapReadWrite"}
Calls    == Mapping \cup {"open", "close", "stat", "fstatat", "truncate",
                          "ftruncate", "cwd", "realpath", "munmap"}
Labels   == {"idle", "open", "close", "stat", "fstatat", "truncate", "ftruncate",
             "mmap", "ropen", "getpath", "rclose", "handler", "munmap", "done"}

ASSUME SysAssumption ==
    /\ None \notin Files \cup Descriptors \cup Threads
    /\ None \notin Calls
    /\ None \notin [file : Files \cup {Dir}, owner : Threads]
    /\ None \notin [file : Files, len : Pages]
    /\ Dir \notin Files \cup {None}
    /\ Descriptors \subseteq Nat
    /\ MaxPages \in Nat \ {0}
    /\ MaxChanges \in Nat /\ MaxErrors \in Nat

TypeOK ==
    /\ path \in Files \cup {None}
    /\ size \in [Files -> Pages]
    /\ table \in [Descriptors -> [file : Files \cup {Dir}, owner : Threads] \cup {None}]
    /\ maps \in [Threads -> [file : Files, len : Pages \ {0}] \cup {None}]
    /\ pc \in [Threads -> Labels]
    /\ call \in [Threads -> Calls \cup {None}]
    /\ fd \in [Threads -> Descriptors \cup {None}]
    /\ rfd \in [Threads -> Descriptors \cup {None}]
    /\ buf \in [Threads -> Pages \cup {None}]
    /\ realer \in [Threads -> Files \cup {"empty", "unset"}]
    /\ errors \in [Threads -> Seq({"failed", "close"})]
    /\ aborted \in BOOLEAN
    /\ changes \in 0..MaxChanges
    /\ disturbed \in [Threads -> BOOLEAN]

InMapping(t) == call[t] \in Mapping

\* Someone other than t changes the files that t is working with.
Disturb(others) == disturbed' = [t \in Threads |-> disturbed[t] \/ (t \in others /\ InMapping(t))]

Free == {n \in Descriptors : table[n] = None}

\* A file without a name, a descriptor and a mapping: the next one to be made.
Unused(f) ==
    /\ f # path
    /\ \A n \in Descriptors \ Free : table[n].file # f
    /\ \A t \in Threads : maps[t] # None => maps[t].file # f

-----------------------------------------------------------------------------
Init ==
    /\ path \in Files \cup {None}
    /\ size \in [Files -> Pages]
    /\ table = [n \in Descriptors |-> None]
    /\ maps = [t \in Threads |-> None]
    /\ pc = [t \in Threads |-> "idle"]
    /\ call = [t \in Threads |-> None]
    /\ fd = [t \in Threads |-> None]
    /\ rfd = [t \in Threads |-> None]
    /\ buf = [t \in Threads |-> None]
    /\ realer = [t \in Threads |-> "unset"]
    /\ errors = [t \in Threads |-> <<>>]
    /\ disturbed = [t \in Threads |-> FALSE]
    /\ aborted = FALSE
    /\ changes = 0

\* The next label of t; a function that makes one system call returns with it.
Goto(t, label) ==
    LET returns == label = "done" /\ ~InMapping(t)
    IN  /\ pc' = [pc EXCEPT ![t] = IF returns THEN "idle" ELSE label]
        /\ call' = [call EXCEPT ![t] = IF returns THEN None ELSE @]

\* A system call fails, and the wrapper says so.  Only the message of close is
\* told apart from the others.
Fail(t, what) == errors' = [errors EXCEPT ![t] = error(@, what)]

FaultyIsQuiet(t) == FALSE            \* the caller's diagnostics is used

\* resolveRealerPath runs realpath with a diagnostics of its own.
IsQuiet(t) == InMapping(t)

FailUnlessQuiet(t, what) == IF IsQuiet(t) THEN UNCHANGED errors ELSE Fail(t, what)

\* The kernel opens file f for t, under the lowest number that is free.
Opened(t, f) == Free # {} /\ table' = [table EXCEPT ![Min(Free)] = [file |-> f, owner |-> t]]

AfterOpen(f) ==
    CASE f \in {"mmapReadOnly", "withMmapReadOnly"} -> "mmap"
      [] f = "mmapReadWrite" -> "stat"
      [] OTHER -> "done"

\* O_CREAT is part of the flags of mmapReadWrite, and may be of a client's.
MayCreate(f) == f \in {"open", "mmapReadWrite"}

open(t) ==
    /\ pc[t] = "open"
    /\ \/ /\ path # None /\ Opened(t, path)
          /\ fd' = [fd EXCEPT ![t] = Min(Free)]
          /\ Goto(t, AfterOpen(call[t]))
          /\ UNCHANGED <<files, errors, disturbed>>
       \/ /\ path = None /\ MayCreate(call[t])
          /\ \E f \in Files :
               /\ Unused(f) /\ Opened(t, f)
               /\ path' = f
               /\ size' = [size EXCEPT ![f] = 0]
          /\ Disturb(Threads \ {t})
          /\ fd' = [fd EXCEPT ![t] = Min(Free)]
          /\ Goto(t, AfterOpen(call[t]))
          /\ UNCHANGED errors
       \/ Fail(t, "failed") /\ Goto(t, "done") /\ UNCHANGED <<files, table, fd, disturbed>>
    /\ UNCHANGED <<maps, rfd, buf, realer, outside>>

FaultyNeedsPage(pages) == TRUE       \* the test on the size is missing

\* Whether a file is as good as new, and gets a page to live in.
NeedsPage(pages) == pages <= 0

FaultyAfterStat(errs, pages) ==      \* the descriptor is left open on an error
    IF hasError(errs) THEN "done" ELSE IF NeedsPage(pages) THEN "ftruncate" ELSE "mmap"

FaultyExtend(errs, pages) ==         \* an empty file is mapped as it is
    IF hasError(errs) THEN "close" ELSE "mmap"

AfterStatReadWrite(errs, pages) ==
    IF hasError(errs) THEN "close" ELSE IF NeedsPage(pages) THEN "ftruncate" ELSE "mmap"

AfterStatReadOnly(errs, pages) == IF hasError(errs) \/ pages <= 0 THEN "done" ELSE "open"

AfterStat(f, errs, pages) ==
    CASE f \in {"mmapReadOnly", "withMmapReadOnly"} -> AfterStatReadOnly(errs, pages)
      [] f = "mmapReadWrite" -> AfterStatReadWrite(errs, pages)
      [] OTHER -> "done"

StatPath(t, what) ==
    /\ pc[t] = what
    /\ \/ /\ path # None
          /\ buf' = [buf EXCEPT ![t] = IF InMapping(t) THEN size[path] ELSE @]
          /\ UNCHANGED errors
       \/ Fail(t, "failed") /\ UNCHANGED buf
    /\ Goto(t, AfterStat(call[t], errors'[t], buf'[t]))
    /\ UNCHANGED <<files, table, maps, fd, rfd, realer, outside, disturbed>>

stat(t)    == StatPath(t, "stat")
fstatat(t) == StatPath(t, "fstatat")

SetSize(t, f, pages) ==
    /\ size' = [size EXCEPT ![f] = pages]
    /\ Disturb(Threads \ {t})

truncate(t) ==
    /\ pc[t] = "truncate"
    /\ \/ path # None /\ (\E n \in Pages : SetSize(t, path, n)) /\ UNCHANGED errors
       \/ Fail(t, "failed") /\ UNCHANGED <<size, disturbed>>
    /\ Goto(t, "done")
    /\ UNCHANGED <<path, table, maps, locals, outside>>

AfterFtruncate(f, errs) ==
    IF f = "ftruncate" THEN "done" ELSE IF hasError(errs) THEN "close" ELSE "mmap"

ftruncate(t) ==
    /\ pc[t] = "ftruncate"
    /\ \/ /\ \E n \in IF call[t] = "mmapReadWrite" THEN {Page} ELSE Pages :
               SetSize(t, table[fd[t]].file, n)
          /\ UNCHANGED errors
       \/ Fail(t, "failed") /\ UNCHANGED <<size, disturbed>>
    /\ Goto(t, AfterFtruncate(call[t], errors'[t]))
    /\ UNCHANGED <<path, table, maps, locals, outside>>

FaultyMappedSize(t) == buf[t]        \* an empty file keeps its size of zero

MappedSize(t) == IF NeedsPage(buf[t]) THEN Page ELSE buf[t]

\* A mapping may be longer than its file.  realerPath is null or a buffer,
\* which resolveRealerPath empties before it resolves the path.
mmap(t, pages) ==
    /\ pc[t] = "mmap"
    /\ \/ /\ maps' = [maps EXCEPT ![t] = [file |-> table[fd[t]].file, len |-> pages]]
          /\ UNCHANGED errors
          /\ \/ Goto(t, "ropen") /\ realer' = [realer EXCEPT ![t] = "empty"]
             \/ call[t] # "withMmapReadOnly" /\ Goto(t, "close") /\ UNCHANGED realer
       \/ Fail(t, "failed") /\ Goto(t, "close") /\ UNCHANGED <<maps, realer>>
    /\ UNCHANGED <<files, table, fd, rfd, buf, outside, disturbed>>

mapReadOnly(t)  == call[t] # "mmapReadWrite" /\ mmap(t, buf[t])
mapReadWrite(t) == call[t] = "mmapReadWrite" /\ mmap(t, MappedSize(t))

(***************************************************************************)
(* realpath, and cwd, which does the same with the working directory.       *)
(***************************************************************************)
AfterRealpath(f) == IF f \in Mapping THEN "close" ELSE "done"

realpath(t) ==
    /\ pc[t] = "ropen"
    /\ \/ /\ \/ call[t] = "cwd" /\ Opened(t, Dir)
             \/ call[t] # "cwd" /\ path # None /\ Opened(t, path)
          /\ rfd' = [rfd EXCEPT ![t] = Min(Free)]
          /\ Goto(t, "getpath")
          /\ UNCHANGED errors
       \/ /\ FailUnlessQuiet(t, "failed")
          /\ Goto(t, AfterRealpath(call[t]))
          /\ UNCHANGED <<table, rfd>>
    /\ UNCHANGED <<files, maps, fd, buf, realer, outside, disturbed>>

getpath(t) ==
    /\ pc[t] = "getpath"
    /\ \/ /\ realer' = [realer EXCEPT ![t] = IF InMapping(t) THEN table[rfd[t]].file ELSE @]
          /\ UNCHANGED errors
       \/ FailUnlessQuiet(t, "failed") /\ UNCHANGED realer
    /\ Goto(t, "rclose")
    /\ UNCHANGED <<files, table, maps, fd, rfd, buf, outside, disturbed>>

FaultyClose(t) ==                    \* close is tried again after EINTR
    /\ pc[t] = "close"
    /\ table' = [table EXCEPT ![fd[t]] = None]
    /\ \/ UNCHANGED <<pc, call, fd, errors>>
       \/ /\ Goto(t, "done")
          /\ fd' = [fd EXCEPT ![t] = None]
          /\ UNCHANGED errors \/ Fail(t, "close")
    /\ UNCHANGED <<files, maps, rfd, buf, realer, outside, disturbed>>

\* The number is free whatever ::close returns; EINTR is not worth an error.
close(t) ==
    /\ pc[t] = "close"
    /\ table' = [table EXCEPT ![fd[t]] = None]
    /\ UNCHANGED errors \/ Fail(t, "close")
    /\ fd' = [fd EXCEPT ![t] = None]
    /\ Goto(t, IF call[t] = "withMmapReadOnly" /\ maps[t] # None THEN "handler" ELSE "done")
    /\ UNCHANGED <<files, maps, rfd, buf, realer, outside, disturbed>>

closeRealpath(t) ==
    /\ pc[t] = "rclose"
    /\ table' = [table EXCEPT ![rfd[t]] = None]
    /\ UNCHANGED errors \/ FailUnlessQuiet(t, "close")
    /\ rfd' = [rfd EXCEPT ![t] = None]
    /\ Goto(t, AfterRealpath(call[t]))
    /\ UNCHANGED <<files, maps, fd, buf, realer, outside, disturbed>>

\* The client's block reads the mapping.
handler(t) ==
    /\ pc[t] = "handler"
    /\ Goto(t, "munmap")
    /\ UNCHANGED <<files, table, maps, locals, errors, outside, disturbed>>

munmap(t) ==
    /\ pc[t] = "munmap"
    /\ \/ maps' = [maps EXCEPT ![t] = None] /\ UNCHANGED errors
       \/ Fail(t, "failed") /\ UNCHANGED maps
    /\ Goto(t, "done")
    /\ UNCHANGED <<files, table, locals, outside, disturbed>>

-----------------------------------------------------------------------------
(***************************************************************************)
(* The clients.  A thread keeps at most one descriptor and one mapping.     *)
(***************************************************************************)
First(f) ==
    CASE f \in {"mmapReadOnly", "withMmapReadOnly"} -> "stat"
      [] f = "mmapReadWrite" -> "open"
      [] f \in {"cwd", "realpath"} -> "ropen"
      [] OTHER -> f

Call(t, f) ==
    /\ pc[t] = "idle"
    /\ Len(errors[t]) <= MaxErrors
    /\ f \in Uses[t]
    /\ f \in Mapping => fd[t] = None /\ maps[t] = None
    /\ f = "open" => fd[t] = None
    /\ f \in {"close", "ftruncate"} => fd[t] # None
    /\ f = "munmap" => maps[t] # None
    /\ pc' = [pc EXCEPT ![t] = First(f)]
    /\ call' = [call EXCEPT ![t] = f]
    /\ UNCHANGED <<files, table, maps, locals, errors, outside, disturbed>>

\* A mapping function returns.  What withMmapReadOnly could not unmap is lost to its client.
Return(t) ==
    /\ pc[t] = "done"
    /\ pc' = [pc EXCEPT ![t] = "idle"]
    /\ call' = [call EXCEPT ![t] = None]
    /\ maps' = [maps EXCEPT ![t] = IF call[t] = "withMmapReadOnly" THEN None ELSE @]
    /\ buf' = [buf EXCEPT ![t] = None]
    /\ realer' = [realer EXCEPT ![t] = "unset"]
    /\ disturbed' = [disturbed EXCEPT ![t] = FALSE]
    /\ UNCHANGED <<files, table, fd, rfd, errors, outside>>

\* Messages of the client's own, before it makes a call with the diagnostics.
Log(t, behavior, text) ==
    /\ pc[t] = "idle" /\ Len(errors[t]) < MaxErrors
    /\ errors' = [errors EXCEPT ![t] = log(@, behavior, text)]
    /\ UNCHANGED <<files, table, maps, pc, call, locals, outside, disturbed>>

ClearError(t) ==
    /\ pc[t] = "idle"
    /\ errors' = [errors EXCEPT ![t] = clearError]
    /\ UNCHANGED <<files, table, maps, pc, call, locals, outside, disturbed>>

\* abort ends the process.
AssertNoError(t) ==
    /\ pc[t] = "idle" /\ ~assertNoError(errors[t])
    /\ aborted' = TRUE
    /\ UNCHANGED <<files, table, maps, pc, call, locals, errors, changes, disturbed>>

(***************************************************************************)
(* Other processes.                                                         *)
(***************************************************************************)
Elsewhere ==
    /\ changes < MaxChanges
    /\ changes' = changes + 1
    /\ Disturb(Threads)
    /\ UNCHANGED <<table, maps, pc, call, locals, errors, aborted>>

Resize(f, n) == Elsewhere /\ size' = [size EXCEPT ![f] = n] /\ UNCHANGED path

Replace(f) == Elsewhere /\ Unused(f) /\ path' = f /\ UNCHANGED size

Unlink == Elsewhere /\ path # None /\ path' = None /\ UNCHANGED size

SystemCall(t) ==
    \/ open(t) \/ stat(t) \/ fstatat(t) \/ truncate(t) \/ ftruncate(t)
    \/ mapReadOnly(t) \/ mapReadWrite(t)
    \/ realpath(t) \/ getpath(t) \/ closeRealpath(t) \/ close(t) \/ munmap(t)

Next ==
    /\ ~aborted
    /\ \/ \E t \in Threads :
            \/ \E f \in Calls : Call(t, f)
            \/ SystemCall(t) \/ handler(t) \/ Return(t)
            \/ \E b \in Behavior, text \in {Blank, "failed"} : Log(t, b, text)
            \/ ClearError(t) \/ AssertNoError(t)
       \/ \E f \in Files : Replace(f) \/ \E n \in Pages : Resize(f, n)
       \/ Unlink

Spec == Init /\ [][Next]_vars

-----------------------------------------------------------------------------
(***************************************************************************)
(* No path through a function, whatever fails in it, loses a descriptor:    *)
(* one that is open is the one its thread is using or its client keeps, and *)
(* no function returns with a descriptor of its own.                        *)
(***************************************************************************)
NoDescriptorLeak ==
    /\ \A n \in Descriptors \ Free : n \in {fd[table[n].owner], rfd[table[n].owner]}
    /\ \A t \in Threads :
         pc[t] = "done" => rfd[t] = None /\ (call[t] \in Mapping => fd[t] = None)

(***************************************************************************)
(* A thread closes and uses only what it opened itself, and never the       *)
(* descriptor that another thread has since been given under the same       *)
(* number (the comment of close, sys.cpp:50).                               *)
(***************************************************************************)
Holds(t, n) == table[n] # None /\ table[n].owner = t

ClosesItsOwn ==
    \A t \in Threads :
        /\ pc[t] \in {"close", "ftruncate", "mmap"} => Holds(t, fd[t])
        /\ pc[t] \in {"getpath", "rclose"} => Holds(t, rfd[t])

(***************************************************************************)
(* What a mapping function returns agrees with the diagnostics it leaves:   *)
(* no mapping comes with an error (a stale one counts) or, read-only, from  *)
(* an empty file; and a mapping is never reported with another error than   *)
(* that of close, the quiet realpath included.                              *)
(***************************************************************************)
OutcomeAgrees ==
    \A t \in Threads : call[t] \in Mapping =>
        /\ pc[t] = "done" /\ maps[t] = None /\ call[t] # "withMmapReadOnly" =>
             \/ hasError(errors[t])
             \/ call[t] = "mmapReadOnly" /\ buf[t] = 0
        /\ maps[t] # None /\ pc[t] = (IF call[t] = "withMmapReadOnly" THEN "handler" ELSE "done")
           => errors[t] \in {<<>>, <<"close">>}

(***************************************************************************)
(* When nobody else touched the files during the call, a mapping lies       *)
(* within the file that the path leads to, and the realer path is that of   *)
(* the same file, or empty.  stat, open and realpath look the path up one   *)
(* by one, so this is the most that can be promised.                        *)
(***************************************************************************)
MappingMatches ==
    \A t \in Threads :
        /\ pc[t] \in {"done", "handler"} /\ call[t] \in Mapping
        /\ maps[t] # None /\ ~disturbed[t]
        => /\ maps[t].file = path
           /\ maps[t].len <= size[path]
           /\ realer[t] \in {path, "empty", "unset"}

(***************************************************************************)
(* mmapReadWrite cuts no file short, unless another thread or process gave  *)
(* the file its contents after stat had seen it empty.                      *)
(***************************************************************************)
ShrinksOnlyIfDisturbed ==
    [][\A t \in Threads :
         pc[t] = "ftruncate" /\ pc'[t] # pc[t] /\ call[t] = "mmapReadWrite" /\ ~disturbed[t]
         => \A f \in Files : size'[f] >= size[f]]_vars
=============================================================================
