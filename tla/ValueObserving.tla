--------------------------- MODULE ValueObserving ---------------------------
(***************************************************************************)
(* NPAttachDeallocationHandler of objc/NSValueObserving.m: threads attach   *)
(* handlers to an object; the handlers are kept by an observer object that  *)
(* is associated with it, is created by the first thread, and runs them     *)
(* when the object's death releases it.                                     *)
(*                                                                          *)
(* The get-or-create under @synchronized takes several steps, so that the   *)
(* lock is what makes it one.  A thread in a call keeps the object alive.   *)
(* Associated objects and ARC are external: replacing or dropping the       *)
(* association releases the observer, whose dealloc runs its handlers.      *)
(***************************************************************************)
EXTENDS Integers, Sequences, FiniteSets

CONSTANTS
    Threads,
    Handlers,   \* handler blocks, each attached at most once
    Observers,  \* addresses of NPNSValueObserving objects
    None        \* none of these

VARIABLES
    alive,     \* the observable lives
    assoc,     \* the observer associated with it
    lock,      \* the thread inside @synchronized
    pc,        \* where a thread is in NPAttachDeallocationHandler
    local,     \* its local variable `observing`
    arg,       \* its argument `handler`
    handlers,  \* per observer, _handlers
    made,      \* observers that were created
    dying,     \* handlers that the dealloc in progress still has to run
    called,    \* history: handlers that ran, in order
    attached,  \* history: handlers whose attaching call has returned
    onNil      \* history: handlers that were attached to nil

vars == <<alive, assoc, lock, pc, local, arg, handlers, made, dying, called,
          attached, onNil>>
history == <<attached, onNil>>

TypeOK ==
    /\ alive \in BOOLEAN
    /\ assoc \in Observers \cup {None}
    /\ lock \in Threads \cup {None}
    /\ pc \in [Threads -> {"idle", "enter", "get", "create", "add"}]
    /\ local \in [Threads -> Observers \cup {None}]
    /\ arg \in [Threads -> Handlers \cup {None}]
    /\ handlers \in [Observers -> Seq(Handlers)]
    /\ made \subseteq Observers
    /\ dying \in Seq(Handlers)
    /\ called \in Seq(Handlers)
    /\ attached \subseteq Handlers
    /\ onNil \subseteq Handlers

Fresh(h) == /\ h \notin attached \cup onNil
            /\ \A t \in Threads : arg[t] # h

Calls(h) == Cardinality({i \in 1..Len(called) : called[i] = h})

-----------------------------------------------------------------------------
(***************************************************************************)
(* Faulty variants, each a slip one could make in NSValueObserving.m.       *)
(***************************************************************************)
FaultyLock(t) == lock' = t                 \* no @synchronized

FaultyDealloc ==                           \* the handlers are dropped, not run
    /\ alive /\ \A t \in Threads : pc[t] = "idle"
    /\ alive' = FALSE
    /\ assoc' = None
    /\ UNCHANGED <<lock, pc, local, arg, handlers, made, dying, called, history>>

-----------------------------------------------------------------------------
Init ==
    /\ alive = TRUE /\ assoc = None /\ lock = None
    /\ pc = [t \in Threads |-> "idle"]
    /\ local = [t \in Threads |-> None]
    /\ arg = [t \in Threads |-> None]
    /\ handlers = [o \in Observers |-> <<>>]
    /\ made = {} /\ dying = <<>> /\ called = <<>>
    /\ attached = {} /\ onNil = {}

\* A nil observable: the handler runs at once.
AttachToNil(t, h) ==
    /\ pc[t] = "idle" /\ Fresh(h)
    /\ called' = Append(called, h)
    /\ onNil' = onNil \cup {h}
    /\ UNCHANGED <<alive, assoc, lock, pc, local, arg, handlers, made, dying, attached>>

NPAttachDeallocationHandler(t, h) ==
    /\ alive /\ pc[t] = "idle" /\ Fresh(h)
    /\ pc' = [pc EXCEPT ![t] = "enter"]
    /\ arg' = [arg EXCEPT ![t] = h]
    /\ UNCHANGED <<alive, assoc, lock, local, handlers, made, dying, called, history>>

Lock(t) == lock = None /\ lock' = t

Synchronized(t) ==
    /\ pc[t] = "enter"
    /\ Lock(t)
    /\ pc' = [pc EXCEPT ![t] = "get"]
    /\ UNCHANGED <<alive, assoc, local, arg, handlers, made, dying, called, history>>

GetAssociated(t) ==
    /\ pc[t] = "get"
    /\ local' = [local EXCEPT ![t] = assoc]
    /\ pc' = [pc EXCEPT ![t] = IF assoc = None THEN "create" ELSE "add"]
    /\ UNCHANGED <<alive, assoc, lock, arg, handlers, made, dying, called, history>>

\* [NPNSValueObserving new], and the association.  An observer that was
\* associated before would be released, and would run its handlers.
SetAssociated(t, o) ==
    /\ pc[t] = "create" /\ o \notin made
    /\ made' = made \cup {o}
    /\ local' = [local EXCEPT ![t] = o]
    /\ assoc' = o
    /\ called' = IF assoc = None THEN called ELSE called \o handlers[assoc]
    /\ pc' = [pc EXCEPT ![t] = "add"]
    /\ UNCHANGED <<alive, lock, arg, handlers, dying, history>>

\* addObserverHandler:, and the end of the @synchronized block.
AddObserverHandler(t) ==
    /\ pc[t] = "add"
    /\ handlers' = [handlers EXCEPT ![local[t]] = Append(@, arg[t])]
    /\ attached' = attached \cup {arg[t]}
    /\ lock' = None
    /\ pc' = [pc EXCEPT ![t] = "idle"]
    /\ local' = [local EXCEPT ![t] = None]
    /\ arg' = [arg EXCEPT ![t] = None]
    /\ UNCHANGED <<alive, assoc, made, dying, called, onNil>>

\* The last release of the observable: its association goes, and with it the
\* observer, whose dealloc starts.
Dealloc ==
    /\ alive /\ \A t \in Threads : pc[t] = "idle"
    /\ alive' = FALSE
    /\ assoc' = None
    /\ dying' = IF assoc = None THEN <<>> ELSE handlers[assoc]
    /\ UNCHANGED <<lock, pc, local, arg, handlers, made, called, history>>

\* The loop of dealloc, one handler at a time.
RunHandler ==
    /\ dying # <<>>
    /\ called' = Append(called, Head(dying))
    /\ dying' = Tail(dying)
    /\ UNCHANGED <<alive, assoc, lock, pc, local, arg, handlers, made, history>>

AttachStep(t) ==
    \/ Synchronized(t) \/ GetAssociated(t) \/ AddObserverHandler(t)
    \/ \E o \in Observers : SetAssociated(t, o)

Next ==
    \/ \E t \in Threads :
         \/ AttachStep(t)
         \/ \E h \in Handlers : NPAttachDeallocationHandler(t, h) \/ AttachToNil(t, h)
    \/ Dealloc
    \/ RunHandler

Spec == Init /\ [][Next]_vars

-----------------------------------------------------------------------------
(***************************************************************************)
(* Properties                                                               *)
(***************************************************************************)
\* A handler runs once at most, and only for nil or after the object's death:
\* no interleaving of the first attaching calls replaces an observer that
\* already has handlers (NSValueObserving.m:69-77).
OnceAndNotEarly ==
    \A h \in Handlers :
        /\ Calls(h) <= 1
        /\ Calls(h) = 1 => h \in onNil \/ ~alive

\* No attached handler is lost: when the object dies each of them runs
\* (NSValueObserving.m:46-51).
AllRunAtDeath ==
    \A h \in Handlers : (h \in attached /\ ~alive) ~> (Calls(h) = 1)
=============================================================================
