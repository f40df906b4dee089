# Verification of NPFoundation

TLA+ models of NPFoundation, a small C, C++ and Objective-C library over
libdispatch, the Objective-C runtime and POSIX. TLC checks the models on small
instances; TLAPS proves their safety properties, and the refinement of the byte
buffer, for every value of their constants. File names below are relative to
`Sources/NPFoundation/`.

## The system

| Component | State | Operations | What is hard | What makes it correct |
|---|---|---|---|---|
| Timer, `dispatch/timer.m` | two flags under a lock, associated with a dispatch source | create, bind to an object, resume, suspend, cancel | every call decides under the lock and calls libdispatch after it | suspends and resumes balance; a cancelled timer is reclaimed; libdispatch never traps |
| Throttle, `dispatch/schedule.m` | `hasFired`, `previous` | create, signal, free | a private queue, a clock and the client's queue run on their own | at most one dispatch per window; no signal dropped without reason |
| Debounce, `dispatch/schedule.m` | `generation`, `canceled`, one timer source per signal | create, signal, cancel, free | signal and cancel blocks and timer handlers share a queue with stale timers | only after a quiet period, never after a timely cancel; the last signal is not lost |
| CopyOnWriteBacked, `CopyOnWriteBacked.h` | counted blocks | construct, copy, move, assign, destroy, read, unique | atomics with weak order, shared by threads | exact counts, one deletion, exclusive and ordered writes, isolated values |
| ByteBuffer, `ByteBuffer.cpp` | cursors, shared storage | allocate, copy, write, read, skip, discard, clear, mutate | sharing, growth, exhaustion, sizes near the maximum | cursors in the block; copies are independent byte queues; a write is whole or not at all |
| Deallocation observing, `objc/NSValueObserving.m` | an associated list of handlers | attach, dealloc | several threads attach the first handler | each handler runs once, at the death of the object |
| Heap, `DataStructures/Heap.h` | a vector | build, push, pop, top | index arithmetic, ties, the last element | a priority queue: nothing lost, pop and top return an extreme |
| Sys, `sys.cpp` | descriptors, mappings | open, close, stat, truncate, realpath, map, unmap | several system calls per function: the file changes between two of them, any of them fails, errors are left over in the diagnostics | no descriptor lost or closed twice; result and diagnostics agree; a mapping lies in its file |
| Diagnostics, `Diagnostics.cpp` | an error list | log, query, clear, assert | what Sys does depends on it | only errors are kept, and each of them |
| Objective-C runtime macros, `objc/NSObjCRuntime.*` | method tables, the captured next implementation | add, replace, override, call on | calls and other replacements while a method is replaced | the next implementation is the replaced one; no layer is lost or run twice |
| Machine context, `machine/MachineContext.c` | the context a caller passes | get, four accessors | the target runs between two kernel calls | nothing older than the call, registers of one moment |
| Definitions, Mixable | none | | macros and marker types | not modelled: nothing happens at run time |

Interactions: a timer bound to an object is cancelled by a deallocation handler
(`TimerObserving` composes the two); a ByteBuffer shares its storage through
CopyOnWriteBacked; throttle and debounce share the handle of `schedule.m`; Sys
reports to Diagnostics.

## Modules

| Module | Models | Checked by | Proofs |
|---|---|---|---|
| `NPTimer` | `timer.m`, with libdispatch's source as an external part | `MCTimerObserving`, `MCNPTimer` | `TimerProofs` |
| `ValueObserving` | `NPAttachDeallocationHandler` | `MCTimerObserving` | `TimerProofs` |
| `TimerObserving` | a timer and the object it is bound to; extends `NPTimer`, instantiates `ValueObserving` | `MCTimerObserving` | `TimerProofs` |
| `Throttle` | `NPDispatchScheduleThrottle` and its handle | `MCThrottle` | `ThrottleProofs` |
| `Debounce` | `NPDispatchScheduleDebounce` and its handle | `MCDebounce` | `DebounceProofs` |
| `CopyOnWrite` | `CopyOnWriteBacked<T>` | `MCCopyOnWrite` | `CopyOnWriteProofs` |
| `NextPowerOf2` | `nextPowerOf2ClampedToMax` | through `Rounding` and `ByteBuffer` | `ByteBufferProofs` |
| `Rounding` | requests for every capacity; extends `NextPowerOf2` | `MCStandalone` | `ByteBufferProofs` |
| `Heap` | `Heap<T>` | `MCStandalone` | `StandaloneProofs` |
| `ByteBuffer` | buffers, storages, allocators; extends `NextPowerOf2` | `MCByteBuffer` | `ByteBufferProofs` |
| `ByteQueue` | the abstract specification `ByteBuffer` implements | through `ByteBuffer` | `ByteBufferProofs` |
| `Diagnostics` | the error list of `Diagnostics`, as operators | through `Sys` | |
| `Sys` | `sys.cpp` and the files under it; extends `Diagnostics` | `MCSys` | `SysProofs` |
| `ObjCRuntime` | the macros of `NSObjCRuntime.h` and sends through what they install | `MCObjCRuntime` | `ObjCRuntimeProofs` |
| `MachineContext` | `MachineContext.c` | `MCStandalone` | `StandaloneProofs` |

Every module has an action per operation. Each also holds a few `Faulty...`
definitions: variants of one definition with a plausible slip, which show that the
properties can fail. Nothing uses them in the specifications. `PROJECT.json` maps
every definition to the lines it stands for.

### NPTimer

The flags are touched only under the lock, so a critical section is one step
(`ResumeDecision`, `SuspendDecision`, `CancelDecision`). The libdispatch call that
follows is another one: `pc[t]` names the call thread `t` has decided on. The
source is a suspend count and a state; over-resuming it, and releasing it
suspended, set `trap`, which ends the behaviour as it ends the process.
`overlapped` records that a call took effect during another one. `DropHandle`
states what the client owes: it does not drop a timer that it left suspended
unless an observable keeps it.

### Throttle and Debounce

A throttle's signal block takes two steps, the clock reading and the decision,
because time passes in between. A debounce block is one step: only blocks of the
serial queue touch its state. The queue of `Debounce` is explicit, because the
order of signal, cancel and timer blocks in it is what matters. Leeway and
lateness are the time an expired timer waits until `TimerFires`. A source fires once,
because its interval is `DISPATCH_TIME_FOREVER`: that is a property of libdispatch,
and part of the model. Callbacks start
on the client's queue at any later time. Using a freed handle is excluded by the
header, and calls on a NULL handle have no effect.

### CopyOnWrite

An instance has one owner at a time, as the header demands. Each atomic
operation is a step; so are reading, copying and writing an element, and deleting
a block. `know` and `pub` keep the happens-before order of accesses to elements:
a release with acquire and release order learns what earlier releases of the
same block published about its element. A relaxed operation learns nothing. What a
release says about other blocks is left out, which only makes threads know less:
`DeletionOrdered` is checked without it, and the counterexample of
`CopyOnWrite_race` has no second block. `Handoff` is a client's
own synchronization, which orders everything its giver knows.

### ByteBuffer, ByteQueue, NextPowerOf2 and Rounding

A block is a sequence of bytes, its capacity the length; the empty sequence is a
block without memory. `allocate` and `reallocate` fail nondeterministically.
Sizes have `Width` bits and the sums of an index and a size wrap (`ForwardBy`), so
that the check before the sum in `setBytes` has something to do. The copy of
shared storage is one step, since a buffer is not used by two threads and
`CopyOnWrite` treats the threads that share a block. `aborted` is a failed assert
or the use of a null pointer. The moves of the cursors are private in C++ and so
they are not actions. `Part` is what `readableBytesView` and the copies out of a block
see, nothing for a block without memory. The addresses of blocks suffice for one
block per buffer (`StoragesAssumption`), so that running out of memory is the
failure of `allocate` and never a missing address. A moved-from buffer is not modelled: the code has no
guard for it, and it may only be assigned or destroyed.

`ByteQueue` has no storage: each buffer is a log and a position. `ByteBuffer`
implements it with `log[x]` as the bytes below the writer cursor and `pos[x]` as
the reader cursor. A queue does not record what a write was asked to write, so its
`Write` appends any bytes; that a write appends the bytes it was given, all of them
or none, is the action property `WritesAllOrNothing`.

Two switches add behaviours whose consequences are findings: `SplitMayFail`
(allocation fails in a copy-on-write split) and `ReallocMoves` (a write of a
buffer's own bytes finds its source moved away). The passing run has both off.

The rounding works on the set of bits of a number: a shift lowers the positions, an
`or` is a union. `Rounding` asks for every capacity in turn.

### Heap

The vector is a sequence, the loops of `heapify`, `siftUp` and `build` are
recursive functions of what a loop works on, the vector and an index
(`LoopStates`). A history variable counts what was put in and not popped.
`MCStandalone` checks the heap, the rounding and the machine context in one run,
in separate behaviours: they share nothing.

### ValueObserving and TimerObserving

The get-or-create inside `@synchronized` takes several steps so that the lock has
something to do: without it a second observer replaces the first, whose handlers
then run early. A thread in a call keeps the object alive.

`TimerObserving` puts the two modules together. A step is one of `NPTimer`, one of
`ValueObserving`, or one of both: `NPDispatchTimerObservable` starts the attaching
call with the handler `CancelTimer`, and running that handler is `NPTimer`'s
`ObservableDealloc`, on the thread that released the object, which runs the next
handler only when the cancellation has returned. Clients get the handle when the
creating call returns. Every step is a step of `NPTimer` or leaves its variables
alone, so the theorems about `NPTimer` hold here too (`TimerImplemented`).

### Sys and Diagnostics

A system call is a step and `pc[t]` names the next one; the `After...` operators are
the control of the functions that make several. A retried call (`EAGAIN`, `EINTR`)
changes nothing and is a stuttering step. Every call may fail. There is one path;
it leads to a file, or to none, and other processes may resize the file, rename
another one over the path or unlink it. Sizes count pages: what matters is empty,
one page and more. Descriptors are numbers, handed out lowest first and used again.
Message texts are reduced to whether it was `close` that failed.
`disturbed` records that someone else changed the files during a mapping call.

Two uses of Sys are left to the clients' care, and the model keeps to them: an
instance of `Diagnostics` is used by one thread, and a client closes and unmaps only
what it got. `dirExists` and `fileExists` change nothing.

### ObjCRuntime

One selector. `Lineage` gives each class with its superclasses, nearest first: the
hierarchy is a forest by construction, as it is in the runtime, and a lookup
takes the nearest class that has a method. A method table entry is a compiled method or a block installed by a
macro; a block that replaces goes on to `_np_next_imp`, one that overrides to the
superclass of the class it was installed in. The calls of the runtime are atomic,
as its lock makes them. `NP_CLASS_REPLACEMETHOD_PROCESS` is two steps,
`class_replaceMethod` and the assignment of its result, and a send may come in
between. The assignment is a plain store, which nothing orders before another
thread's read: `seen` has, for each block, the threads it has reached, at first the
installing one. It reaches others (`Reaches`) at any time or never, until when they
read NULL. `crashed` is the thread that called NULL. Blocks call on exactly once; blocks that do
not are those of `NP_CLASS_ADDMETHOD`.

### MachineContext

`NPMachineContextGet` takes three steps: the tests, and a kernel call for each part
of the context. The target's progress is a number of moments, a register its name
and a moment. The four architectures are four initial states.

## Runs

| Run | Shows | Bounds |
|---|---|---|
| `TimerObserving` | `SuspendLedger`, `ReleaseNeverTraps`, `OverResumeNeedsOverlap`, `SuspendedNeverFires`, `CancelReclaims`, `OnceAndNotEarly`, `AllRunAtDeath`, `DeathReclaims` | 3 threads: one to suspend, one to resume, one to cancel or to release the observable; 3 handlers, one of them the timer's, and 3 observers, so that three threads race to attach the first |
| `NPTimer_overresume` | finding: `NoOverResume` fails | 2 threads |
| `Throttle` | `RateBound`, `DropJustified`, `SignalRunsCallback` | delay 2, 6 ticks, 4 signals: three windows |
| `Debounce` | `CancelCallsOff`, `QuietPeriod`, `LastSignalRuns`, `SourcesReclaimed` | delay 2, 3 signals, 2 cancels: one signal superseded, one cancelled, one fired |
| `CopyOnWrite` | `RefcountExact`, `NoDangling`, `ExclusiveWrite`, `ValueIsolation`, `DeletionOrdered` | 2 threads, 3 instances, 3 blocks, 2 values, all interchangeable: both threads can split or release one block at once |
| `CopyOnWrite_race` | finding: `MutationOrdered` fails | 2 threads, 2 instances |
| `Standalone` | `SameContents`, `PopsExtreme`; `LeastPowerOrMax`; `SnapshotWithinCall` | heaps of up to 7 elements of 3 values (three full levels, with ties); all 65536 sizes of 16 bits; 4 moments, 4 architectures |
| `ByteBuffer` | `CursorsInBlock`, `RefinesByteQueue`, `WritesAllOrNothing` | 2 buffers, 2 byte values, 2-bit sizes: capacities 0 to 3, so every overflow is in reach; buffers and bytes interchangeable |
| `ByteBuffer_splitfail` | finding: `WriteKeepsContents` fails | the same, one byte value |
| `ByteBuffer_overlap` | finding: `OverlapIsCopied` fails | the same, one byte value |
| `Sys` | `NoDescriptorLeak`, `ClosesItsOwn`, `OutcomeAgrees`, `MappingMatches`, `ShrinksOnlyIfDisturbed` | 2 threads, one that maps and one that makes the other calls; 2 files of up to 2 pages; 2 descriptors, so that a mapping function finds the table full when it resolves the realer path or another thread has one open; 1 change from outside, on top of what the other thread does; 1 error left over |
| `ObjCRuntime` | `NoLayerLost`, `CrashNeedsWindow`, `SendReturns` | 3 threads (two installers and a sender), 3 classes in a line, the middle one with a method, 2 blocks: chains of three layers, and two installers of one method at once |

The passing runs also check the type invariants, except those of `Throttle`,
`Debounce` and `ByteBuffer`, which are proved. Deadlock is not checked:
every one of these components rests when its client stops, and the bounds on
signals stop it too.

### Findings

- `NPTimer_overresume`: thread A has decided to suspend and holds no lock any
  more; thread B resumes or cancels and reaches `dispatch_resume` first. The
  source is not suspended, and libdispatch traps. The comment in `cancel:` speaks
  of balancing the suspend.
- `CopyOnWrite_race`: `unique()` reads the count with relaxed order. If it sees 1
  because another thread's instance has just been released, the reads made
  through that instance are not ordered before the mutation in place.
- `ByteBuffer_splitfail`: the copy of a shared block that cannot be allocated is
  an empty block, and the buffer takes it: its contents are lost, where the
  README promises that the storage stays intact.
- `ByteBuffer_overlap`: `setBytes` grows the block before it reads a source that
  may lie inside it.

The header of the throttle speaks of a delay between two executions. What the
code spaces is the dispatches (`RateBound`): a callback that waits on its queue may
start right before the next one. In the same way, a cancel of a debounce
calls off the signals whose block is still queued, or whose timer is armed, when it is
called (`CancelCallsOff`). A timer handler that is queued by then may be called off or
may run before the cancel block, and a callback that was dispatched is not called off.

Some properties say under which condition the code keeps a promise, because it does
not do so always, and a client should know the condition:

- `CrashNeedsWindow`: replacing a method while other threads send it can call NULL,
  from `class_replaceMethod` until the assignment of its result
  (`NSObjCRuntime.h:117`) has reached the sending thread, and at no other time.
- `MappingMatches` and `ShrinksOnlyIfDisturbed`: `stat`, `open` and `realpath` look
  the path up one by one. If the file is replaced, truncated or extended during the
  call, a mapping may exceed its file, the realer path may be another file's, and
  `mmapReadWrite` may cut a file that has just been written to a page.
- `OutcomeAgrees`: a mapping function gives up on an error that was in the
  diagnostics before, and may return a mapping along with an error of `close`.
- `OverlapFailsOnlyByGrowth`: a buffer that appends its own bytes appends the right
  ones if they fit into its block, or if the block is shared.

Such a property delimits a hazard; it does not catch it. In `PROJECT.json` the hazards
for which that is all, or which the models leave out, have a note and no property.

### Fairness

Fairness is assumed of machines, never of clients. A thread inside a timer call
takes its next step; libdispatch runs queued blocks, fires expired timers within
some finite leeway, lets handlers return and processes cancellations that are
ready; the clock of a debounce advances; a dealloc that has started runs on; a thread in
the middle of a send goes on. No client has to signal, cancel, free, install or
release anything. Weak fairness suffices everywhere: these steps stay
enabled until they are taken.

## Proofs

| Theorem | States | Argument |
|---|---|---|
| `TimerProofs!TypeCorrect` | `TypeOK` | inductive, except that the count must not fall below 0: `dispatch_resume` only decrements a positive count |
| `TimerProofs!LedgerHolds` | `SuspendLedger` | inductive with `TypeOK`. `CountStep` says how the number of threads at a call changes when one `pc` does; decisions move a thread and the flag together, libdispatch calls move a thread and the count |
| `TimerProofs!ReleaseSafe` | `ReleaseNeverTraps` | needs `CancelledIsResumed` and `DroppedIsResumed`: with no call under way the ledger makes the count what the flag says, and the flag is clear when the last reference goes |
| `TimerProofs!SerialNeverOverResumes` | `OverResumeNeedsOverlap` | needs `OneCall` as long as nothing has overlapped: a lone resume is the only call in the ledger, so the count it meets is at least 1 |
| `ThrottleProofs!ThrottleTypeCorrect` | `TypeOK` | part of `ThrottleInv` |
| `ThrottleProofs!ThrottleRate` | `RateBound` | the bound is not inductive on `now`: `Spaced` states it up to the last firing, `ClockOrder` that the clock reading of a block is not before it |
| `ThrottleProofs!ThrottleDrops` | `DropJustified` | `ClockOrder`: `previous` is a firing, and not later than the reading |
| `DebounceProofs!DebounceTypeCorrect` | `TypeOK` | part of `DebounceInv` |
| `DebounceProofs!DebounceQuietPeriod` | `QuietPeriod` | `CurrentIsQuiet`: what is left of the current timer and the quiet time add up to the delay, so a fired current timer means quiet |
| `DebounceProofs!DebounceCancelCallsOff` | `CancelCallsOff` | `CancelInv`, below |
| `TimerProofs!SuspendedSafe` | `SuspendedNeverFires` | with all threads idle the ledger makes the count of a suspended timer 1, and a handler starts only at 0 |
| `TimerProofs!TimerImplemented`, `!ObservingImplemented` | the composition implements `NPTimer`, and `ValueObserving` | step by step: each joint step is one step of either or leaves it alone |
| `TimerProofs!CompositionTypeCorrect`, `!HandlersRunOnce` | `TTypeOK`, `OnceAndNotEarly` | `ObservingInv`, below, and the two refinements |
| `TimerProofs!ComposedLedger`, `!ComposedReleaseSafe`, `!ComposedSerialSafe`, `!ComposedSuspendedSafe` | the four properties of `NPTimer`, with a real observable | from the theorems above through `TimerImplemented`; these are the statements the run `TimerObserving` checks |
| `CopyOnWriteProofs!TypeCorrect`, `!CountIsExact`, `!NeverDangles`, `!WritesAlone` | `TypeOK`, `RefcountExact`, `NoDangling`, `ExclusiveWrite` | `MemoryInv`, below |
| `CopyOnWriteProofs!Isolated` | `ValueIsolation` | `ValueInv`: `ValueIsolation`, and a reference in flight stands for the value its instance is about to have; a write changes a block with one reference (`Solo`) |
| `CopyOnWriteProofs!DeletesInOrder` | `DeletionOrdered` | `OrderInv`, below |
| `SysProofs!TypeCorrect`, `!NoLeak`, `!OwnDescriptors`, `!OutcomeCorrect` | `TypeOK`, `NoDescriptorLeak`, `ClosesItsOwn`, `OutcomeAgrees` | `SysInv`, below |
| `SysProofs!MappingCorrect`, `!NeverShrinks` | `MappingMatches`, `ShrinksOnlyIfDisturbed` | `Seen`, below |
| `ObjCRuntimeProofs!TypeCorrect`, `!LayersKept`, `!CrashOnlyInWindow` | `TypeOK`, `NoLayerLost`, `CrashNeedsWindow` | `RuntimeInv`, below |
| `ByteBufferProofs!RoundingCorrect` | `LeastPowerOrMax`, if `Width <= 64` | the smeared bits, below |
| `ByteBufferProofs!TypeCorrect` | `TypeOK`, with every failure switched on or off | `BufferInv`, below |
| `ByteBufferProofs!CursorsCorrect` | `CursorsInBlock`, if `~SplitMayFail` | `BufferInv`, below |
| `ByteBufferProofs!QueueImplemented` | `RefinesByteQueue`, if `~SplitMayFail` and `~ReallocMoves` | `QueueInv`, below; action by action |
| `ByteBufferProofs!ContentsKept` | `WriteKeepsContents`, if `~SplitMayFail` | what a write leaves below the writer cursor (`WriteLog`) |
| `ByteBufferProofs!AllOrNothingWritten` | `WritesAllOrNothing`, if `~SplitMayFail` | `WriteLog` again: what is appended is the source or nothing |
| `ByteBufferProofs!OverlapNeedsGrowth` | `OverlapFailsOnlyByGrowth`, with every failure and move switched on or off | `OwnSource`: a split goes to an address that nobody refers to, and a block with room is not reallocated, so the source is read where it was; then `SetBytesKeeps` |
| `StandaloneProofs!ContentsCorrect`, `!PopCorrect` | `SameContents`, `PopsExtreme` | `HeapInv`, below |
| `StandaloneProofs!SnapshotCorrect` | `SnapshotWithinCall` | `MachineInv`, below |

The inductive invariants, and why the properties alone are not enough:

- `CancelInv` of the debounce. That `dispatched[g]` is still 0 says nothing about
  what comes. `Numbering` says which queued signal block will get which generation:
  the signals in the queue have the numbers after the current generation, in order.
  `CalledOff` says of a signal cancelled in time that its handler has run, or that
  the generation has moved on, or that `canceled` is set in its generation, or that
  a cancel block is in the queue, behind the signal and ahead of the handler of its
  timer. Each block moves a signal from the last case to one of the others.
- `ObservingInv` of the observing. A handler is in one place: the argument of one
  call, the list of the one associated observer, the list the dealloc works off, or
  the calls made (`OneUse`, `Kept`, `RanOnce`). `Locked` carries the get-or-create:
  inside `@synchronized` the association is what the thread has seen.
- `MemoryInv` of copy-on-write. `Control` says what each step of an operation finds
  in its instance and in the thread's hand, `Exact` that a count is the number of
  instances and references in flight to a block, `Solo` that a block about to be deleted
  has no reference, and one that a thread writes, or has just made, only that thread's. Counting rests on `TallyStep`: one change of
  a function changes its tally in one place.
- `OrderInv` of copy-on-write. `Carried` says that each access to a block is
  published with it, or known to a thread that still has a reference to publish it
  with; so the last release learns of them all. `Attributed` says that nobody knows of
  an access before its own thread does, `Forgotten` that a block that is used again
  starts without accesses.
- `SysInv`. `Routed` says which functions may be at which system call; from it
  follows what the thread has open (`HasDescriptor`). `Owned` ties the descriptor
  table to the threads in both directions, so a number that is used again belongs to one
  of them. `Progress` and `Outcome` say what a mapping function knows of its size,
  its mapping and the errors at each call.
- `Seen` adds, of threads that nobody disturbed, that what `stat`, `open` and
  `mmap` returned still describes the file.
- `RuntimeInv`. A block belongs to one installing thread until it is a layer
  (`OwnBlock`, `OneInstaller`, `FreshBlock`), and then is a layer once (`Layered`).
  The first layer is compiled or added, the others have replaced one (`Owing`,
  `Chained`), so a replacing block always has something to lead to. `RunsLayer` says that
  sends run layers only and `HasSuper` that what an override goes on to does not
  disappear.
- `BufferInv` of the buffer. `Inside` says where the cursors are, also after a failed
  split has left them beyond the block, and `AbortNeedsSplit` that only such a
  split leads to an abort. Every operation has the same kind of effect: one buffer
  gets a block and cursors that fit it, and the others see no change (`Effect`,
  `Placed`); one lemma says so of each operation, and one that `Effect` preserves
  the invariant. That a new block has an address is a count: some buffer does not
  refer to a block of its own (`StoragesAssumption`).
- `QueueInv` adds `Written`: below the writer cursor there are bytes a client wrote,
  never fresh memory. With it `Effect` becomes the change of one log and one
  position, which is the step of `ByteQueue`.
- `HeapInv`: the vector is in heap order and holds what was put in. Inside the loops
  the order has a gap: `Ordered(v, lo, size, x)` leaves out the children of `x`,
  `OrderedBut` the parent of `x`, and `Bridged` says that the parent of `x` tops the
  children of `x`, so that a swap moves the gap and opens no second one. A swap keeps
  the counts because it is a bijection of the positions (`SwapCounts`).
- `MachineInv` orders the moments: the beginning of the call, the reading of the
  registers and that of the exception state, and says that a result is true only
  after both.

What a loop computes for every input is an induction over data, for which the library's
theorems cannot be used. It is done by hand, with sets instead of predicates:
`LeastIndex` gives the least element of a set of numbers, such as the
counterexamples, and `MeasureInduction` follows. `LoopEnds` shows that a loop
whose rounds lower a bounded measure ends, so that its recursive function exists
and satisfies its equation; `heapify`, `siftUp` and `build` are such loops, and
what they return follows by `MeasureInduction`. The rounding is an induction over bit positions: the value of a
set of bits is the sum of its powers, and after the shifts by 1, 2, 4, 8, 16 and
half the width every bit below the highest one is set. The first five reach over 32
positions and the last doubles that for a width of 64, which is where
`Width <= 64` comes from: for a wider `Size` the code would lack a shift.

The hypotheses `~SplitMayFail` and `~ReallocMoves` name the causes of the two findings
about `ByteBuffer`. Without failing splits the promise that `ByteBuffer_splitfail` sees
broken is a theorem (`ContentsKept`). A moving `reallocate` is what the promise of
overlap is about, so the theorem about it does not assume it away:
`OverlapNeedsGrowth` allows every move and every failure, and leaves only a block that
the buffer has for itself and that has to grow.

TLC has checked each of these invariants under the bounds of its component's run.

The assumptions are the named `ASSUME`s of the modules: finite sets of threads (and,
where references are counted, of instances), natural numbers for delays and
bounds, values that stand for "nothing" distinct from the others, integers as the elements
of a heap, for the runtime that the superclass of a class has its own lineage,
for the buffer an address per buffer, and the doubling law of powers of two up to
`Width` (`PowerAssumption`): the provers know no exponentiation. No bound is used in an
argument, so the theorems hold for any of them.

Only model-checked: liveness, since fairness and `ENABLED` are beyond the prover. These are
`CancelReclaims`, `AllRunAtDeath`, `DeathReclaims`, `SignalRunsCallback`,
`LastSignalRuns`, `SourcesReclaimed` and `SendReturns`. Every other property of a
passing run is a theorem. `OverlapFailsOnlyByGrowth` is only proved: the passing run has
both switches off. Of the two findings about threads, `NoOverResume`
and `MutationOrdered`, the first is delimited by a theorem (`OverResumeNeedsOverlap`);
the second comes from the memory order of one load, which the model has as the
code has it.

## Plan

Done: all modules, in the order timer, schedules, copy-on-write, buffer, observing,
heap, Sys with Diagnostics, runtime macros, the composition of timer and
observer, machine context; and the proofs, in the same order but for the heap, the
buffer and the machine context, which came last. Nothing of the plan is left. What
could follow: handlers that attach to the dying object, and moved-from buffers,
should the code give them a meaning.

## Not modelled

Definitions and Mixable (nothing at run time), the overflow of the 32-bit count
and of the 64-bit generation, and instances of `CopyOnWriteBacked` inside the elements
of others, for which the order of retain and release in an assignment matters.
