---------------------------- MODULE JniReferences ----------------------------
(***************************************************************************)
(* JNI global and weak-global references of JavaVMExt (java_vm_ext.cc,     *)
(* appended to large_object_space.cc) with the marvin no-swap flag, under *)
(* the concurrent mark-sweep collector (kUseReadBarrier false, the only   *)
(* configuration in which DisallowNewWeakGlobals may run).                 *)
(*                                                                         *)
(* globals_ and weak_globals_ are tables of slots holding an object, Empty *)
(* or, for weak globals, the Cleared sentinel.  Each mutator holds a set  *)
(* of objects (its local roots).  A collection is: a pause that marks the *)
(* roots and calls DisallowNewWeakGlobals; SweepJniWeakGlobals; the sweep *)
(* of unmarked objects; AllowNewWeakGlobals.  Objects allocated after the *)
(* pause are not marked and not swept in that cycle.  The object graph is *)
(* left out: an object is reachable when a root holds it.                  *)
(*                                                                         *)
(* Victim selection (swap-out) is not in the repository; it is modelled   *)
(* from the spec as turning any live object whose no-swap flag is clear  *)
(* into a stub.                                                            *)
(***************************************************************************)
EXTENDS Naturals, FiniteSets

CONSTANTS Threads,        \* mutator threads
          Objects,        \* heap addresses
          GlobalIds,      \* slots of globals_
          WeakIds,        \* slots of weak_globals_
          TrackingDelta,  \* enable_allocation_tracking_delta_
          Empty,          \* a free table slot
          Cleared         \* Runtime::GetClearedJniWeakGlobal()

ASSUME Empty \notin Objects /\ Cleared \notin Objects /\ Empty # Cleared

VARIABLES heap,           \* "free" or "live" per address
          noSwap,         \* the object's no-swap flag
          stub,           \* the object has been swapped out (stub flag)
          locals,         \* objects each mutator holds
          globals,        \* globals_: slot -> object or Empty
          weak,           \* weak_globals_: slot -> object, Cleared or Empty
          allowWeak,      \* allow_accessing_weak_globals_
          gc,             \* collector phase
          marked,         \* mark bitmap of the running collection
          allocated,      \* objects allocated since its pause
          pc,             \* "idle", or blocked on weak_globals_add_condition_
          arg,            \* the object or slot a blocked call works on
          allocTracking,  \* allocation_tracking_enabled_
          fatal           \* a table was full: LOG(FATAL) aborted the runtime

vars == <<heap, noSwap, stub, locals, globals, weak, allowWeak, gc, marked,
          allocated, pc, arg, allocTracking, fatal>>

GcPhases == {"idle", "marked", "weakSwept", "swept"}

Init ==
    /\ heap = [o \in Objects |-> "free"]
    /\ noSwap = [o \in Objects |-> FALSE]
    /\ stub = [o \in Objects |-> FALSE]
    /\ locals = [t \in Threads |-> {}]
    /\ globals = [g \in GlobalIds |-> Empty]
    /\ weak = [w \in WeakIds |-> Empty]
    /\ allowWeak = TRUE
    /\ gc = "idle"
    /\ marked = {}
    /\ allocated = {}
    /\ pc = [t \in Threads |-> "idle"]
    /\ arg = [t \in Threads |-> Empty]
    /\ allocTracking = FALSE
    /\ fatal = FALSE

-----------------------------------------------------------------------------
\* The objects VisitRoots reports as kRootJNIGlobal roots: the non-null
\* entries of globals_ (weak_globals_ is not a root).
GlobalObjects == {globals[g] : g \in GlobalIds} \ {Empty}
WeakObjects == {weak[w] : w \in WeakIds} \ {Empty, Cleared}
Roots == UNION {locals[t] : t \in Threads} \cup GlobalObjects

FreeSlot(table, ids) == CHOOSE i \in ids : table[i] = Empty
HasFreeSlot(table, ids) == \E i \in ids : table[i] = Empty

\* CheckGlobalRefAllocationTracking: with a non-zero delta, tracking is on
\* exactly while globals_ has at most delta free slots.
CheckGlobalRefAllocationTracking(newGlobals) ==
    allocTracking' = IF TrackingDelta = 0 THEN allocTracking
                     ELSE Cardinality({g \in GlobalIds : newGlobals[g] = Empty})
                              <= TrackingDelta

\* MayAccessWeakGlobals without a read barrier.
MayAccessWeakGlobals == allowWeak

Idle(t) == pc[t] = "idle"

\* A mutator allocates an object (Heap::AllocObject); the header is new.
Alloc(t, o) ==
    /\ Idle(t)
    /\ heap[o] = "free"
    /\ heap' = [heap EXCEPT ![o] = "live"]
    /\ noSwap' = [noSwap EXCEPT ![o] = FALSE]
    /\ stub' = [stub EXCEPT ![o] = FALSE]
    /\ locals' = [locals EXCEPT ![t] = @ \cup {o}]
    /\ allocated' = IF gc = "idle" THEN allocated ELSE allocated \cup {o}
    /\ UNCHANGED <<globals, weak, allowWeak, gc, marked, pc, arg, allocTracking, fatal>>

\* A local reference goes out of scope.
DropLocal(t, o) ==
    /\ Idle(t)
    /\ o \in locals[t]
    /\ locals' = [locals EXCEPT ![t] = @ \ {o}]
    /\ UNCHANGED <<heap, noSwap, stub, globals, weak, allowWeak, gc, marked,
                   allocated, pc, arg, allocTracking, fatal>>

\* Variant: AddGlobalRef without the marvin SetNoSwapFlag.
AddGlobalRefNoFlag(t, o) ==
    /\ Idle(t)
    /\ o \in locals[t]
    /\ IF HasFreeSlot(globals, GlobalIds)
       THEN /\ globals' = [globals EXCEPT ![FreeSlot(globals, GlobalIds)] = o]
            /\ CheckGlobalRefAllocationTracking(globals')
            /\ UNCHANGED fatal
       ELSE fatal' = TRUE /\ UNCHANGED <<globals, allocTracking>>
    /\ UNCHANGED <<heap, noSwap, stub, locals, weak, allowWeak, gc, marked, allocated, pc, arg>>

\* AddGlobalRef: SetNoSwapFlag, globals_.Add under jni_globals_lock_ (a
\* full table is LOG(FATAL)), then CheckGlobalRefAllocationTracking.
AddGlobalRef(t, o) ==
    /\ Idle(t)
    /\ o \in locals[t]
    /\ noSwap' = [noSwap EXCEPT ![o] = TRUE]
    /\ IF HasFreeSlot(globals, GlobalIds)
       THEN /\ globals' = [globals EXCEPT ![FreeSlot(globals, GlobalIds)] = o]
            /\ CheckGlobalRefAllocationTracking(globals')
            /\ UNCHANGED fatal
       ELSE fatal' = TRUE /\ UNCHANGED <<globals, allocTracking>>
    /\ UNCHANGED <<heap, stub, locals, weak, allowWeak, gc, marked, allocated, pc, arg>>

\* DeleteGlobalRef: globals_.Remove, then CheckGlobalRefAllocationTracking.
DeleteGlobalRef(t, g) ==
    /\ Idle(t)
    /\ globals[g] # Empty
    /\ globals' = [globals EXCEPT ![g] = Empty]
    /\ CheckGlobalRefAllocationTracking(globals')
    /\ UNCHANGED <<heap, noSwap, stub, locals, weak, allowWeak, gc, marked,
                   allocated, pc, arg, fatal>>

\* DecodeGlobal: globals_.SynchronizedGet gives the thread a local.
DecodeGlobal(t, g) ==
    /\ Idle(t)
    /\ globals[g] # Empty
    /\ locals' = [locals EXCEPT ![t] = @ \cup {globals[g]}]
    /\ UNCHANGED <<heap, noSwap, stub, globals, weak, allowWeak, gc, marked,
                   allocated, pc, arg, allocTracking, fatal>>

\* weak_globals_.Add; a full table is LOG(FATAL).
WeakAdd(o) ==
    IF HasFreeSlot(weak, WeakIds)
    THEN weak' = [weak EXCEPT ![FreeSlot(weak, WeakIds)] = o] /\ UNCHANGED fatal
    ELSE fatal' = TRUE /\ UNCHANGED weak

\* Variant: AddWeakGlobalRef without the wait (the read-barrier build's
\* behaviour under the mark-sweep collector).
AddWeakGlobalRefNoWait(t, o) ==
    /\ Idle(t)
    /\ o \in locals[t]
    /\ noSwap' = [noSwap EXCEPT ![o] = TRUE]
    /\ WeakAdd(o)
    /\ UNCHANGED <<heap, stub, locals, globals, allowWeak, gc, marked, allocated,
                   pc, arg, allocTracking>>

\* AddWeakGlobalRef: SetNoSwapFlag, then under jni_weak_globals_lock_ wait
\* while weak globals may not be accessed, then weak_globals_.Add.
AddWeakGlobalRef(t, o) ==
    /\ Idle(t)
    /\ o \in locals[t]
    /\ noSwap' = [noSwap EXCEPT ![o] = TRUE]
    /\ IF MayAccessWeakGlobals
       THEN WeakAdd(o) /\ UNCHANGED <<pc, arg>>
       ELSE /\ pc' = [pc EXCEPT ![t] = "add"]
            /\ arg' = [arg EXCEPT ![t] = o]
            /\ UNCHANGED <<weak, fatal>>
    /\ UNCHANGED <<heap, stub, locals, globals, allowWeak, gc, marked, allocated,
                   allocTracking>>

\* The wait in AddWeakGlobalRef ends after a broadcast that finds access
\* allowed.
AddWeakGlobalRefWoken(t) ==
    /\ pc[t] = "add"
    /\ MayAccessWeakGlobals
    /\ WeakAdd(arg[t])
    /\ pc' = [pc EXCEPT ![t] = "idle"]
    /\ arg' = [arg EXCEPT ![t] = Empty]
    /\ UNCHANGED <<heap, noSwap, stub, locals, globals, allowWeak, gc, marked,
                   allocated, allocTracking>>

\* DeleteWeakGlobalRef: weak_globals_.Remove under the lock.
DeleteWeakGlobalRef(t, w) ==
    /\ Idle(t)
    /\ weak[w] # Empty
    /\ weak' = [weak EXCEPT ![w] = Empty]
    /\ UNCHANGED <<heap, noSwap, stub, locals, globals, allowWeak, gc, marked,
                   allocated, pc, arg, allocTracking, fatal>>

\* Variant: the cleared sentinel handed out as an object.
TakeWeakUnfiltered(t, w) ==
    locals' = [locals EXCEPT ![t] = @ \cup {weak[w]}]

\* The object a weak global decodes to; the cleared sentinel, or a slot
\* deleted meanwhile, gives the thread nothing to hold.
TakeWeak(t, w) ==
    locals' = [locals EXCEPT ![t] = IF weak[w] \in Objects THEN @ \cup {weak[w]}
                                                         ELSE @]

\* Variant: the unlocked fast path taken whatever the access flag says.
DecodeWeakGlobalUnchecked(t, w) ==
    /\ Idle(t)
    /\ weak[w] # Empty
    /\ TakeWeak(t, w)
    /\ UNCHANGED <<heap, noSwap, stub, globals, weak, allowWeak, gc, marked,
                   allocated, pc, arg, allocTracking, fatal>>

\* DecodeWeakGlobal: the unlocked fast path when access is allowed, or
\* DecodeWeakGlobalLocked, which waits on weak_globals_add_condition_.
DecodeWeakGlobal(t, w) ==
    /\ Idle(t)
    /\ weak[w] # Empty
    /\ IF MayAccessWeakGlobals
       THEN TakeWeak(t, w) /\ UNCHANGED <<pc, arg>>
       ELSE /\ pc' = [pc EXCEPT ![t] = "decode"]
            /\ arg' = [arg EXCEPT ![t] = w]
            /\ UNCHANGED locals
    /\ UNCHANGED <<heap, noSwap, stub, globals, weak, allowWeak, gc, marked,
                   allocated, allocTracking, fatal>>

\* DecodeWeakGlobalLocked after its wait: weak_globals_.Get.
DecodeWeakGlobalLocked(t) ==
    /\ pc[t] = "decode"
    /\ MayAccessWeakGlobals
    /\ TakeWeak(t, arg[t])
    /\ pc' = [pc EXCEPT ![t] = "idle"]
    /\ arg' = [arg EXCEPT ![t] = Empty]
    /\ UNCHANGED <<heap, noSwap, stub, globals, weak, allowWeak, gc, marked,
                   allocated, allocTracking, fatal>>

\* IsWeakGlobalCleared is called on a weak global; it takes
\* jni_weak_globals_lock_ next.
IsWeakGlobalCleared(t, w) ==
    /\ Idle(t)
    /\ weak[w] # Empty
    /\ pc' = [pc EXCEPT ![t] = "cleared"]
    /\ arg' = [arg EXCEPT ![t] = w]
    /\ UNCHANGED <<heap, noSwap, stub, locals, globals, weak, allowWeak, gc, marked,
                   allocated, allocTracking, fatal>>

\* Under the lock it waits on weak_globals_add_condition_ while weak
\* access is disallowed, then compares the entry with the cleared sentinel
\* (read without the read barrier) and returns; the caller keeps no object.
IsWeakGlobalClearedLocked(t) ==
    /\ pc[t] = "cleared"
    /\ MayAccessWeakGlobals
    /\ pc' = [pc EXCEPT ![t] = "idle"]
    /\ arg' = [arg EXCEPT ![t] = Empty]
    /\ UNCHANGED <<heap, noSwap, stub, locals, globals, weak, allowWeak, gc, marked,
                   allocated, allocTracking, fatal>>

-----------------------------------------------------------------------------
(* The collector *)

\* The pause: the roots are marked and DisallowNewWeakGlobals stores false
\* with the mutator lock held exclusively, so no mutator is inside a call.
DisallowNewWeakGlobals ==
    /\ gc = "idle"
    /\ marked' = Roots
    /\ allocated' = {}
    /\ allowWeak' = FALSE
    /\ gc' = "marked"
    /\ UNCHANGED <<heap, noSwap, stub, locals, globals, weak, pc, arg,
                   allocTracking, fatal>>

\* SweepJniWeakGlobals: every non-null entry whose object is not marked
\* becomes the cleared sentinel (the sentinel itself is marked).
SweepJniWeakGlobals ==
    /\ gc = "marked"
    /\ weak' = [w \in WeakIds |-> IF weak[w] \in Objects /\ weak[w] \notin marked
                                  THEN Cleared ELSE weak[w]]
    /\ gc' = "weakSwept"
    /\ UNCHANGED <<heap, noSwap, stub, locals, globals, allowWeak, marked,
                   allocated, pc, arg, allocTracking, fatal>>

\* The sweep frees what was allocated before the pause and is not marked.
SweepObjects ==
    /\ gc = "weakSwept"
    /\ heap' = [o \in Objects |-> IF o \notin marked \cup allocated THEN "free"
                                  ELSE heap[o]]
    /\ gc' = "swept"
    /\ UNCHANGED <<noSwap, stub, locals, globals, weak, allowWeak, marked,
                   allocated, pc, arg, allocTracking, fatal>>

\* Variant: only BroadcastForNewWeakGlobals, access left disallowed.
AllowNewWeakGlobalsBroadcastOnly ==
    /\ gc = "swept"
    /\ gc' = "idle"
    /\ marked' = {}
    /\ allocated' = {}
    /\ UNCHANGED <<heap, noSwap, stub, locals, globals, weak, allowWeak, pc, arg,
                   allocTracking, fatal>>

\* AllowNewWeakGlobals: store true and broadcast; the collection ends.
AllowNewWeakGlobals ==
    /\ gc = "swept"
    /\ allowWeak' = TRUE
    /\ gc' = "idle"
    /\ marked' = {}
    /\ allocated' = {}
    /\ UNCHANGED <<heap, noSwap, stub, locals, globals, weak, pc, arg,
                   allocTracking, fatal>>

\* Victim selection (from the spec): a live object without the no-swap
\* flag may be swapped out and replaced by a stub.
SwapOut(o) ==
    /\ heap[o] = "live"
    /\ ~noSwap[o]
    /\ ~stub[o]
    /\ stub' = [stub EXCEPT ![o] = TRUE]
    /\ UNCHANGED <<heap, noSwap, locals, globals, weak, allowWeak, gc, marked,
                   allocated, pc, arg, allocTracking, fatal>>

\* After LOG(FATAL) nothing runs.
Aborted == fatal /\ UNCHANGED vars

-----------------------------------------------------------------------------
MutatorStep(t) ==
    \/ \E o \in Objects :
          Alloc(t, o) \/ DropLocal(t, o) \/ AddGlobalRef(t, o) \/ AddWeakGlobalRef(t, o)
    \/ \E g \in GlobalIds : DeleteGlobalRef(t, g) \/ DecodeGlobal(t, g)
    \/ \E w \in WeakIds :
          DeleteWeakGlobalRef(t, w) \/ DecodeWeakGlobal(t, w) \/ IsWeakGlobalCleared(t, w)

Woken(t) ==
    AddWeakGlobalRefWoken(t) \/ DecodeWeakGlobalLocked(t) \/ IsWeakGlobalClearedLocked(t)

Collector == SweepJniWeakGlobals \/ SweepObjects \/ AllowNewWeakGlobals

Next ==
    \/ /\ ~fatal
       /\ \/ \E t \in Threads : MutatorStep(t) \/ Woken(t)
          \/ DisallowNewWeakGlobals \/ Collector
          \/ \E o \in Objects : SwapOut(o)
    \/ Aborted

\* A started collection runs to its end.  A waiter is woken by every
\* broadcast but may lose jni_weak_globals_lock_ to the next pause; it is
\* assumed to win it eventually (strong fairness).  Mutator calls,
\* collections and swap-outs are not forced.
Fairness ==
    /\ WF_vars(Collector)
    /\ \A t \in Threads : SF_vars(Woken(t))

Spec == Init /\ [][Next]_vars /\ Fairness
-----------------------------------------------------------------------------
(* Properties *)

JniTypeOK ==
    /\ heap \in [Objects -> {"free", "live"}]
    /\ noSwap \in [Objects -> BOOLEAN]
    /\ stub \in [Objects -> BOOLEAN]
    /\ locals \in [Threads -> SUBSET Objects]
    /\ globals \in [GlobalIds -> Objects \cup {Empty}]
    /\ weak \in [WeakIds -> Objects \cup {Empty, Cleared}]
    /\ allowWeak \in BOOLEAN
    /\ gc \in GcPhases
    /\ marked \subseteq Objects /\ allocated \subseteq Objects
    /\ pc \in [Threads -> {"idle", "add", "decode", "cleared"}]
    /\ allocTracking \in BOOLEAN /\ fatal \in BOOLEAN

\* No mutator holds a freed object: a weak global is never decoded into an
\* object the running collection has not marked and is about to sweep.
HeldObjectsLive == \A t \in Threads : \A o \in locals[t] : heap[o] = "live"

\* SweepJniWeakGlobals clears a weak global only when no mutator and no
\* global reference holds its object: AddWeakGlobalRef's wait keeps
\* objects allocated during the collection (never marked) out of the table.
WeakClearedOnlyIfUnreachable ==
    [][\A w \in WeakIds :
          weak[w] \in Objects /\ weak'[w] = Cleared => weak[w] \notin Roots]_vars

\* Every object a global or weak global refers to is live and carries the
\* no-swap flag, across collections and reuse of its address.
NativeRefsValid ==
    \A o \in GlobalObjects \cup WeakObjects : heap[o] = "live" /\ noSwap[o]

\* Every call blocked on weak_globals_add_condition_ returns (or the
\* runtime has aborted).
WaitersResume == \A t \in Threads : pc[t] # "idle" ~> (pc[t] = "idle" \/ fatal)

\* Native code never holds a global or weak global to a stub, the raw
\* pointer the no-swap flag exists to protect.
NoNativeRefToStub == \A o \in GlobalObjects \cup WeakObjects : ~stub[o]
=============================================================================
