----------------------------- MODULE ObjCRuntime -----------------------------
(***************************************************************************)
(* The macros of objc/NSObjCRuntime.h that add, replace and override the    *)
(* methods of a class, for one selector, while other threads send it.       *)
(*                                                                          *)
(* A method table entry holds an implementation: one that was compiled into *)
(* the class, or a block that a macro installed.  A block that replaced a   *)
(* method goes on to _np_next_imp, one that overrides an inherited method   *)
(* to the superclass of the class it was installed in.  The runtime's own   *)
(* calls are atomic: the runtime locks.  The macros lock nothing, and the   *)
(* store to _np_next_imp is a plain one: it reaches other threads at any    *)
(* later time, or not at all.                                               *)
(***************************************************************************)
EXTENDS Integers, Sequences, FiniteSetsExt

CONSTANTS
    Threads,
    Classes,
    Lineage,    \* each class, its superclass, and so on to a root class
    Compiled,   \* the implementation compiled into each class
    Blocks,     \* blocks that the macros install, each once
    Nil

Imps == Blocks \cup ({Compiled[c] : c \in Classes} \ {Nil})

ASSUME ClassAssumption ==
    /\ Lineage \in [Classes -> Seq(Classes)]
    /\ \A c \in Classes : LET line == Lineage[c] IN
         /\ line # <<>> /\ Head(line) = c
         /\ Tail(line) # <<>> => Tail(line) = Lineage[Head(Tail(line))]
    /\ Nil \notin Classes \cup Blocks \cup Threads
    /\ Compiled = [c \in Classes |-> Compiled[c]]
    /\ \A c \in Classes : Compiled[c] \notin Blocks
    /\ \A c, d \in Classes : Compiled[c] = Compiled[d] => c = d \/ Compiled[c] = Nil

VARIABLES
    methods,  \* per class, its own method
    kind,     \* per block, the macro that made it
    home,     \* per block, _np_cls
    next,     \* per block, _np_next_imp
    seen,     \* per block, the threads that its assignment has reached
    pc,       \* per thread, what it is doing
    imp,      \* per thread, _np_imp of the macro, or the one that it runs
    found,    \* per thread, what class_replaceMethod returned
    crashed,  \* the thread that called NULL and ended the process
    layers    \* history: per class, the methods it has had, in order

vars == <<methods, kind, home, next, seen, pc, imp, found, crashed, layers>>
tables == <<methods, layers>>
blockVars == <<kind, home>>
nextVars == <<next, seen>>

TypeOK ==
    /\ methods \in [Classes -> Imps \cup {Nil}]
    /\ kind \in [Blocks -> {"free", "add", "replace", "override"}]
    /\ home \in [Blocks -> Classes \cup {Nil}]
    /\ next \in [Blocks -> Imps \cup {Nil}]
    /\ seen \in [Blocks -> SUBSET Threads]
    /\ pc \in [Threads -> {"idle", "add", "replace", "assign", "send"}]
    /\ imp \in [Threads -> Imps \cup {Nil}]
    /\ \A t \in Threads : pc[t] # "idle" => imp[t] # Nil
    /\ found \in [Threads -> Imps \cup {Nil}]
    /\ crashed \in Threads \cup {Nil}
    /\ layers \in [Classes -> Seq(Imps)]

\* The nearest of some classes that has the method.
Nearest(line) ==
    LET having == {i \in 1..Len(line) : methods[line[i]] # Nil}
    IN  IF having = {} THEN Nil ELSE methods[line[Min(having)]]

class_getInstanceMethod(c) == Nearest(Lineage[c])

-----------------------------------------------------------------------------
(***************************************************************************)
(* Faulty variants, each a slip one could make in the macros.               *)
(***************************************************************************)
FaultyGetOwnMethod(c) == class_getInstanceMethod(c)      \* inherited methods count as own

FaultySuperOf(b) ==                     \* the block looks for itself
    class_getInstanceMethod(home[b])

FaultyAddMethod(c, b) ==                \* the method of a class is overwritten
    /\ methods' = [methods EXCEPT ![c] = b]
    /\ layers' = [layers EXCEPT ![c] = Append(@, b)]

-----------------------------------------------------------------------------
Init ==
    /\ methods = Compiled
    /\ kind = [b \in Blocks |-> "free"]
    /\ home = [b \in Blocks |-> Nil]
    /\ next = [b \in Blocks |-> Nil]
    /\ seen = [b \in Blocks |-> {}]
    /\ pc = [t \in Threads |-> "idle"]
    /\ imp = [t \in Threads |-> Nil]
    /\ found = [t \in Threads |-> Nil]
    /\ crashed = Nil
    /\ layers = [c \in Classes |-> IF Compiled[c] = Nil THEN <<>> ELSE <<Compiled[c]>>]

NPClassGetOwnMethod(c) == methods[c]

NPClassGetSuperMethod(c) == Nearest(Tail(Lineage[c]))

\* class_addMethod adds, and never overwrites.
class_addMethod(c, b) ==
    \/ /\ methods[c] = Nil
       /\ methods' = [methods EXCEPT ![c] = b]
       /\ layers' = [layers EXCEPT ![c] = Append(@, b)]
    \/ methods[c] # Nil /\ UNCHANGED tables

\* imp_implementationWithBlock, for the macro k on class c.
MakeImp(t, c, b, k) ==
    /\ kind' = [kind EXCEPT ![b] = k]
    /\ home' = [home EXCEPT ![b] = c]
    /\ imp' = [imp EXCEPT ![t] = b]

NP_CLASS_ADDMETHOD_BEGIN(t, c, b) ==
    /\ MakeImp(t, c, b, "add")
    /\ pc' = [pc EXCEPT ![t] = "add"]
    /\ UNCHANGED <<tables, nextVars, found, crashed>>

FaultyOverride(t, c, b) ==              \* nobody asks for the inherited method
    /\ MakeImp(t, c, b, "override")
    /\ pc' = [pc EXCEPT ![t] = "add"]
    /\ UNCHANGED <<tables, nextVars, found, crashed>>

NP_CLASS_OVERRIDEMETHOD_BEGIN(t, c, b) ==
    /\ NPClassGetSuperMethod(c) # Nil
    /\ MakeImp(t, c, b, "override")
    /\ pc' = [pc EXCEPT ![t] = "add"]
    /\ UNCHANGED <<tables, nextVars, found, crashed>>

\* Both end in class_addMethod.  If it fails the block is not used, and it is
\* not given back either.
NP_CLASS_ADDMETHOD_PROCESS(t) ==
    /\ pc[t] = "add"
    /\ class_addMethod(home[imp[t]], imp[t])
    /\ pc' = [pc EXCEPT ![t] = "idle"]
    /\ imp' = [imp EXCEPT ![t] = Nil]
    /\ UNCHANGED <<blockVars, nextVars, found, crashed>>

\* _np_next_imp is NULL.
NP_CLASS_REPLACEMETHOD_BEGIN(t, c, b) ==
    /\ NPClassGetOwnMethod(c) # Nil
    /\ MakeImp(t, c, b, "replace")
    /\ pc' = [pc EXCEPT ![t] = "replace"]
    /\ UNCHANGED <<tables, nextVars, found, crashed>>

\* class_replaceMethod returns what it replaces ...
NP_CLASS_REPLACEMETHOD_PROCESS(t) ==
    /\ pc[t] = "replace"
    /\ LET c == home[imp[t]] IN
         /\ methods' = [methods EXCEPT ![c] = imp[t]]
         /\ found' = [found EXCEPT ![t] = methods[c]]
         /\ layers' = [layers EXCEPT ![c] = Append(@, imp[t])]
    /\ pc' = [pc EXCEPT ![t] = "assign"]
    /\ UNCHANGED <<blockVars, nextVars, imp, crashed>>

\* ... which is then stored where the new method, already in use, looks for it.
\* The store is not synchronized: only its own thread is sure to see it.
Assign(t) ==
    /\ pc[t] = "assign"
    /\ next' = [next EXCEPT ![imp[t]] = found[t]]
    /\ seen' = [seen EXCEPT ![imp[t]] = {t}]
    /\ pc' = [pc EXCEPT ![t] = "idle"]
    /\ imp' = [imp EXCEPT ![t] = Nil]
    /\ found' = [found EXCEPT ![t] = Nil]
    /\ UNCHANGED <<tables, blockVars, crashed>>

Install(t) ==
    /\ pc[t] = "idle"
    /\ \E c \in Classes, b \in {x \in Blocks : kind[x] = "free"} :
         \/ NP_CLASS_ADDMETHOD_BEGIN(t, c, b)
         \/ NP_CLASS_REPLACEMETHOD_BEGIN(t, c, b)
         \/ NP_CLASS_OVERRIDEMETHOD_BEGIN(t, c, b)

(***************************************************************************)
(* Message sends, to a receiver that has the method.                        *)
(***************************************************************************)
Send(t, c) ==
    /\ pc[t] = "idle" /\ class_getInstanceMethod(c) # Nil
    /\ imp' = [imp EXCEPT ![t] = class_getInstanceMethod(c)]
    /\ pc' = [pc EXCEPT ![t] = "send"]
    /\ UNCHANGED <<tables, blockVars, nextVars, found, crashed>>

KindOf(i) == IF i \in Blocks THEN kind[i] ELSE "add"

\* The current implementation hands over to i.
Continue(t, i) == imp' = [imp EXCEPT ![t] = i]

\* The assignment has reached t when it looks: the hardware, or a client that
\* synchronizes t with the installing thread, has seen to it.
Reaches(t) ==
    /\ pc[t] = "send" /\ imp[t] \in Blocks
    /\ next[imp[t]] # Nil /\ t \notin seen[imp[t]]
    /\ seen' = [seen EXCEPT ![imp[t]] = @ \cup {t}]
    /\ UNCHANGED <<tables, blockVars, next, pc, imp, found, crashed>>

\* What t reads in _np_next_imp of block b.
NextImp(t, b) == IF t \in seen[b] THEN next[b] ELSE Nil

\* The body calls the method it replaced.
NP_METHOD_OVERLOAD(t) ==
    /\ pc[t] = "send" /\ KindOf(imp[t]) = "replace"
    /\ \/ NextImp(t, imp[t]) # Nil /\ Continue(t, NextImp(t, imp[t])) /\ UNCHANGED crashed
       \/ NextImp(t, imp[t]) = Nil /\ crashed' = t /\ UNCHANGED imp
    /\ UNCHANGED <<tables, blockVars, nextVars, pc, found>>

\* objc_msgSendSuper2 starts at the superclass of current_class, which
\* NP_MAKE_OBJC_SUPER sets to the class the block was installed in.
SuperOf(b) == NPClassGetSuperMethod(home[b])

NP_METHOD_OVERRIDE(t) ==
    /\ pc[t] = "send" /\ KindOf(imp[t]) = "override"
    /\ Continue(t, SuperOf(imp[t]))
    /\ UNCHANGED <<tables, blockVars, nextVars, pc, found, crashed>>

\* The last method of the chain returns, and with it the others.
SendReturn(t) ==
    /\ pc[t] = "send" /\ KindOf(imp[t]) = "add"
    /\ pc' = [pc EXCEPT ![t] = "idle"]
    /\ imp' = [imp EXCEPT ![t] = Nil]
    /\ UNCHANGED <<tables, blockVars, nextVars, found, crashed>>

Running(t) == NP_METHOD_OVERLOAD(t) \/ NP_METHOD_OVERRIDE(t) \/ SendReturn(t)

Next ==
    /\ crashed = Nil
    /\ \E t \in Threads :
         \/ Install(t) \/ NP_CLASS_ADDMETHOD_PROCESS(t)
         \/ NP_CLASS_REPLACEMETHOD_PROCESS(t) \/ Assign(t)
         \/ \E c \in Classes : Send(t, c)
         \/ Reaches(t) \/ Running(t)

Spec == Init /\ [][Next]_vars

\* A thread in the middle of a send goes on.
FairSpec == Spec /\ \A t \in Threads : WF_vars(crashed = Nil /\ Running(t))

-----------------------------------------------------------------------------
(***************************************************************************)
(* Properties                                                               *)
(***************************************************************************)
\* b has replaced i, and its thread has not come to say so.
Replacing(b, i) == \E t \in Threads : pc[t] = "assign" /\ imp[t] = b /\ found[t] = i

\* However many threads replace the same method at the same time, no layer is
\* lost: a class is at the last method it was given, and every method that
\* replaced another one leads to it, or is about to (NSObjCRuntime.h:106-119).
NoLayerLost ==
    \A c \in Classes : LET s == layers[c] IN
        /\ s = <<>> <=> methods[c] = Nil
        /\ s # <<>> => methods[c] = s[Len(s)]
        /\ \A i \in 2..Len(s) :
             next[s[i]] = s[i - 1] \/ (next[s[i]] = Nil /\ Replacing(s[i], s[i - 1]))

\* The next implementation of b is not where t looks for it: the installing
\* thread has not stored it yet, or the store has not reached t.
InWindow(t, b) ==
    \/ \E i \in Imps : Replacing(b, i)
    \/ next[b] # Nil /\ t \notin seen[b]

\* A thread calls NULL only in the window of the method it runs: from
\* class_replaceMethod until the assignment of its result, made by another
\* thread, reaches it.  A client that replaces methods before it starts the
\* threads that send them never sees it (NSObjCRuntime.h:117).
CrashNeedsWindow == crashed # Nil => InWindow(crashed, imp[crashed])

\* A send returns, through all layers, unless it crashes: a block never finds
\* itself again through _np_next_imp or super, whatever is installed during the
\* send (NSObjCRuntime.h:124, 158-162).
SendReturns ==
    \A t \in Threads : (pc[t] = "send") ~> (pc[t] = "idle" \/ crashed # Nil)
=============================================================================
