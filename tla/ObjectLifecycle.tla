-------------------------- MODULE ObjectLifecycle --------------------------
(***************************************************************************)
(* The life of a large object, from the heap's allocation entry point to   *)
(* the sweep that frees it, and the reclamation-table entry it may own in  *)
(* between.                                                                 *)
(*                                                                          *)
(*  - Heap::AllocObjectWithAllocator sends a large primitive-array/string  *)
(*    request to LargeObjectMapSpace::Alloc and falls back to the normal   *)
(*    spaces when the mmap fails; once AllocLargeObject has returned it    *)
(*    sets the sticky no-swap flag if the runtime is the zygote            *)
(*    (heap-inl.h).  The mapping is made under lock_ and the flag set      *)
(*    after lock_ is released, so the two are separate steps.             *)
(*  - LargeObjectMapSpace keeps large_objects_ (address -> LargeObject),   *)
(*    begin_/end_ and the byte/object counters under lock_.                *)
(*  - The collector marks at a pause, then LargeObjectSpace::Sweep walks   *)
(*    live-but-unmarked bits in [begin_, end_) and SweepCallback/FreeList  *)
(*    call Free, which runs niel::swap::GcRecordFree BEFORE taking lock_   *)
(*    and erasing the mapping.                                             *)
(*  - A swap-out path (victim selection is outside the repository) takes a *)
(*    free ReclamationTable slot with CreateEntry and turns the object     *)
(*    into a stub; GcRecordFree releases the slot with FreeEntry.          *)
(*                                                                          *)
(* An address is a page number; an object occupies [a, a + size).  Object  *)
(* identities are drawn from Ids, one per allocation, so that reuse of an  *)
(* address by a new object is visible.                                     *)
(***************************************************************************)
EXTENDS Integers, FiniteSets, Functions, TLC

CONSTANTS
    Ids,            \* identities of the objects the run may allocate
    MaxAddr,        \* highest page of the low 4GB window mmap may return
    Sizes,          \* request sizes in pages
    LargeObjectThreshold,
    Slots,          \* ReclamationTable entries
    FreeSlot,       \* marks an unoccupied table slot
    SwapDuringSweep \* may the swap-out path run while the collector sweeps?

VARIABLES
    large_objects,  \* address -> [id, size, is_zygote]
    begin_, end_,   \* 0 is nullptr
    num_bytes, num_objects,
    live, mark,     \* the space's live and mark bitmaps (sets of addresses)
    allocStack,     \* LOS addresses allocated since the last mark pause
    mainObjs,       \* ids that fell back to the normal spaces
    roots,          \* ids still reachable from the mutators
    noSwap, stub,   \* ids with the no-swap flag / turned into stubs
    entry,          \* slot -> FreeSlot or [addr, id] of the object it serves
    used,           \* ids already handed out
    isZygote,       \* Runtime::IsZygote()
    flagPending,    \* ids mapped by Alloc whose no-swap flag step is still to run
    gc, swapBitmaps, todo, freeing

vars == <<large_objects, begin_, end_, num_bytes, num_objects, live, mark,
          allocStack, mainObjs, roots, noSwap, stub, entry, used, isZygote,
          flagPending, gc, swapBitmaps, todo, freeing>>

Addrs == 1..MaxAddr
Occupied(x) == \E b \in DOMAIN large_objects :
                   b <= x /\ x < b + large_objects[b].size
\* A range MemMap::MapAnonymous can return: inside the window, unmapped.
MappableAt(a, n) == \A x \in a..(a + n - 1) : x \in Addrs /\ ~Occupied(x)
AddrOf(i) == CHOOSE a \in DOMAIN large_objects : large_objects[a].id = i
InLos(i) == \E a \in DOMAIN large_objects : large_objects[a].id = i
FreeSlots == {s \in Slots : entry[s] = FreeSlot}

Init ==
    /\ large_objects = <<>>
    /\ begin_ = 0 /\ end_ = 0
    /\ num_bytes = 0 /\ num_objects = 0
    /\ live = {} /\ mark = {} /\ allocStack = {}
    /\ mainObjs = {} /\ roots = {} /\ noSwap = {} /\ stub = {}
    /\ entry = [s \in Slots |-> FreeSlot]
    /\ used = {}
    /\ isZygote = TRUE
    /\ flagPending = {}
    /\ gc = "idle" /\ swapBitmaps = FALSE /\ todo = {} /\ freeing = 0

(* Heap::ShouldAllocLargeObject. *)
ShouldAllocLargeObject(primitiveOrString, n) ==
    n >= LargeObjectThreshold /\ primitiveOrString

(* Mutant of Alloc: end_ is assigned rather than raised.                  *)
AllocEndNoMax(i, a, n) ==
    /\ MappableAt(a, n)
    /\ large_objects' = large_objects @@ (a :> [id |-> i, size |-> n, is_zygote |-> FALSE])
    /\ begin_' = IF begin_ = 0 \/ begin_ > a THEN a ELSE begin_
    /\ end_' = a + n
    /\ num_bytes' = num_bytes + n /\ num_objects' = num_objects + 1
    /\ allocStack' = allocStack \cup {a}
    /\ flagPending' = flagPending \cup {i}
    /\ UNCHANGED <<noSwap, mainObjs>>

(* LargeObjectMapSpace::Alloc succeeding: the mapping is put into          *)
(* large_objects_ as not zygote, begin_ is lowered, end_ raised and the    *)
(* counters bumped, all under lock_.  The object pushed on the allocation *)
(* stack is returned without the no-swap flag: SetNoSwapFlag comes later.  *)
Alloc(i, a, n) ==
    /\ MappableAt(a, n)
    /\ large_objects' = large_objects @@ (a :> [id |-> i, size |-> n, is_zygote |-> FALSE])
    /\ begin_' = IF begin_ = 0 \/ begin_ > a THEN a ELSE begin_
    /\ end_' = IF end_ >= a + n THEN end_ ELSE a + n
    /\ num_bytes' = num_bytes + n
    /\ num_objects' = num_objects + 1
    /\ allocStack' = allocStack \cup {a}
    /\ flagPending' = flagPending \cup {i}
    /\ UNCHANGED <<noSwap, mainObjs>>

(* The normal-space allocation: a request that is not large, or the       *)
(* recursive AllocObjectWithAllocator<true, false> after the LOS mmap      *)
(* failed.  The no-swap flag is not set on this path.                      *)
AllocNormal(i) ==
    /\ mainObjs' = mainObjs \cup {i}
    /\ UNCHANGED <<large_objects, begin_, end_, num_bytes, num_objects,
                   allocStack, noSwap, flagPending>>

(* Heap::AllocLargeObject: the recursive call with kAllocatorTypeLOS,     *)
(* whose TryToAllocate case calls large_object_space_->Alloc.              *)
AllocLargeObject(i, n) == \E a \in Addrs : Alloc(i, a, n)

(* Heap::AllocObjectWithAllocator for one request by a mutator.            *)
AllocObjectWithAllocator ==
    \E i \in Ids \ used, n \in Sizes, primitiveOrString \in BOOLEAN :
        /\ used' = used \cup {i}
        /\ roots' = roots \cup {i}
        /\ IF ShouldAllocLargeObject(primitiveOrString, n)
           THEN \/ AllocLargeObject(i, n)
                \/ AllocNormal(i)       \* mmap failed: fall back
           ELSE AllocNormal(i)
        /\ UNCHANGED <<live, mark, stub, entry, isZygote, gc, swapBitmaps,
                       todo, freeing>>

(* Back in AllocObjectWithAllocator after AllocLargeObject returned a      *)
(* non-null object: Runtime::IsZygote() is read now, not when the mapping *)
(* was made, and the flag is set if it holds.                              *)
SetNoSwapFlag ==
    \E i \in flagPending :
        /\ noSwap' = IF isZygote THEN noSwap \cup {i} ELSE noSwap
        /\ flagPending' = flagPending \ {i}
        /\ UNCHANGED <<large_objects, begin_, end_, num_bytes, num_objects,
                       live, mark, allocStack, mainObjs, roots, stub, entry,
                       used, isZygote, gc, swapBitmaps, todo, freeing>>

(* A mutator drops its last reference to an object.                        *)
DropRef ==
    \E i \in roots :
        /\ roots' = roots \ {i}
        /\ UNCHANGED <<large_objects, begin_, end_, num_bytes, num_objects,
                       live, mark, allocStack, mainObjs, noSwap, stub, entry,
                       used, isZygote, flagPending, gc, swapBitmaps, todo,
                       freeing>>

(* LargeObjectMapSpace::SetAllLargeObjectsAsZygoteObjects at the zygote    *)
(* fork: every mapping is marked is_zygote, and the child runs as an app. *)
(* The zygote forks from the thread that allocates, so no allocation of it *)
(* is between its mapping and its flag step then.                          *)
SetAllLargeObjectsAsZygoteObjects ==
    /\ isZygote
    /\ gc = "idle"
    /\ flagPending = {}
    /\ large_objects' = [a \in DOMAIN large_objects |->
                            [large_objects[a] EXCEPT !.is_zygote = TRUE]]
    /\ isZygote' = FALSE
    /\ UNCHANGED <<begin_, end_, num_bytes, num_objects, live, mark,
                   allocStack, mainObjs, roots, noSwap, stub, entry, used,
                   flagPending, gc, swapBitmaps, todo, freeing>>

(* The swap-out path: a victim without the no-swap flag gets a slot from  *)
(* ReclamationTable::CreateEntry and becomes a stub.  CreateEntry callers  *)
(* are serialized among themselves; whether they are serialized with the  *)
(* collector is the SwapDuringSweep choice.                                *)
CreateEntry(s, a) ==
    entry' = [entry EXCEPT ![s] = [addr |-> a, id |-> large_objects[a].id]]

SwapOut ==
    /\ SwapDuringSweep \/ gc = "idle"
    /\ \E a \in DOMAIN large_objects, s \in FreeSlots :
           /\ large_objects[a].id \notin noSwap \cup stub
           /\ CreateEntry(s, a)
           /\ stub' = stub \cup {large_objects[a].id}
    /\ UNCHANGED <<large_objects, begin_, end_, num_bytes, num_objects, live,
                   mark, allocStack, mainObjs, roots, noSwap, used, isZygote, flagPending,
                   gc, swapBitmaps, todo, freeing>>

(* Mutant of MarkPause: marking looks at the old live bitmap only.         *)
MarkPauseOldLive ==
    /\ gc = "idle"
    /\ live' = live \cup allocStack
    /\ mark' = {a \in live : large_objects[a].id \in roots}
    /\ allocStack' = {}
    /\ gc' = "marked"
    /\ UNCHANGED <<large_objects, begin_, end_, num_bytes, num_objects,
                   mainObjs, roots, noSwap, stub, entry, used, isZygote, flagPending,
                   swapBitmaps, todo, freeing>>

(* The collector's mark pause (the collector is outside the repository):   *)
(* objects on the allocation stack become live, reachable ones are marked. *)
MarkPause ==
    /\ gc = "idle"
    /\ live' = live \cup allocStack
    /\ mark' = {a \in live \cup allocStack : large_objects[a].id \in roots}
    /\ allocStack' = {}
    /\ gc' = "marked"
    /\ UNCHANGED <<large_objects, begin_, end_, num_bytes, num_objects,
                   mainObjs, roots, noSwap, stub, entry, used, isZygote, flagPending,
                   swapBitmaps, todo, freeing>>

(* LargeObjectSpace::SwapBitmaps. *)
SwapBitmaps == live' = mark /\ mark' = live

(* LargeObjectSpace::Sweep(swap_bitmaps).  With swap_bitmaps the collector *)
(* has run SwapBitmaps first and Sweep swaps its locals back, so either    *)
(* way the walk visits the bits live but not marked in the range that     *)
(* GetBeginEndAtomic returns; Begin() >= End() returns at once.           *)
Sweep ==
    /\ gc = "marked"
    /\ \E swap \in BOOLEAN :
           /\ swapBitmaps' = swap
           /\ IF swap THEN SwapBitmaps ELSE UNCHANGED <<live, mark>>
    /\ todo' = IF begin_ >= end_ THEN {}
               ELSE {a \in live \ mark : begin_ <= a /\ a < end_}
    /\ gc' = "sweeping"
    /\ UNCHANGED <<large_objects, begin_, end_, num_bytes, num_objects,
                   allocStack, mainObjs, roots, noSwap, stub, entry, used,
                   isZygote, flagPending, freeing>>

(* Mutant of GcRecordFree: the stub is dropped but the slot is kept.       *)
GcRecordFreeKeepsEntry(a) ==
    /\ entry' = entry
    /\ stub' = stub \ {large_objects[a].id}

(* niel::swap::GcRecordFree: the entry serving the address is returned to *)
(* the pool with FreeEntry and the stub bookkeeping for it is dropped.    *)
GcRecordFree(a) ==
    LET owner == {s \in Slots : entry[s] # FreeSlot /\ entry[s].addr = a}
    IN  /\ entry' = [s \in Slots |-> IF s \in owner THEN FreeSlot ELSE entry[s]]
        /\ stub' = stub \ {large_objects[a].id}

(* The first statement of LargeObjectMapSpace::Free, outside lock_.      *)
Free(a) == GcRecordFree(a) /\ freeing' = a

(* LargeObjectSpace::SweepCallback for one pointer of a batch: the live   *)
(* bit is cleared unless the bitmaps were swapped, then FreeList calls    *)
(* Free, whose first statement is GcRecordFree, before lock_ is taken.    *)
SweepCallback ==
    /\ gc = "sweeping"
    /\ freeing = 0
    /\ \E a \in todo :
           /\ live' = IF swapBitmaps THEN live ELSE live \ {a}
           /\ todo' = todo \ {a}
           /\ Free(a)
    /\ UNCHANGED <<large_objects, begin_, end_, num_bytes, num_objects, mark,
                   allocStack, mainObjs, roots, noSwap, used, isZygote, flagPending, gc,
                   swapBitmaps>>

(* Mutant of FreeLocked: num_bytes_allocated_ is not decremented.          *)
FreeLockedKeepsBytes ==
    /\ freeing # 0
    /\ freeing \in DOMAIN large_objects
    /\ large_objects' = Restrict(large_objects, DOMAIN large_objects \ {freeing})
    /\ num_objects' = num_objects - 1
    /\ freeing' = 0
    /\ UNCHANGED <<num_bytes, begin_, end_, live, mark, allocStack, mainObjs,
                   roots, noSwap, stub, entry, used, isZygote, flagPending, gc, swapBitmaps,
                   todo>>

(* The rest of LargeObjectMapSpace::Free, under lock_: the mapping is     *)
(* found (a pointer that is not live is LOG(FATAL), which no sweep of     *)
(* this space produces), the counters drop and the mapping is erased, so  *)
(* the pages can be mapped again.                                          *)
FreeLocked ==
    /\ freeing # 0
    /\ freeing \in DOMAIN large_objects
    /\ large_objects' = Restrict(large_objects, DOMAIN large_objects \ {freeing})
    /\ num_bytes' = num_bytes - large_objects[freeing].size
    /\ num_objects' = num_objects - 1
    /\ freeing' = 0
    /\ UNCHANGED <<begin_, end_, live, mark, allocStack, mainObjs, roots,
                   noSwap, stub, entry, used, isZygote, flagPending, gc, swapBitmaps, todo>>

(* The collector finishes the cycle and clears the mark bitmap.           *)
SweepDone ==
    /\ gc = "sweeping"
    /\ todo = {} /\ freeing = 0
    /\ mark' = {}
    /\ gc' = "idle"
    /\ UNCHANGED <<large_objects, begin_, end_, num_bytes, num_objects, live,
                   allocStack, mainObjs, roots, noSwap, stub, entry, used,
                   isZygote, flagPending, swapBitmaps, todo, freeing>>

Collector == MarkPause \/ Sweep \/ SweepCallback \/ FreeLocked \/ SweepDone

Mutator == AllocObjectWithAllocator \/ SetNoSwapFlag \/ DropRef \/ SetAllLargeObjectsAsZygoteObjects
           \/ SwapOut

Next == Mutator \/ Collector

(* The collector thread keeps running its cycle; mutators need no fairness. *)
Spec == Init /\ [][Next]_vars /\ WF_vars(Collector)

-----------------------------------------------------------------------------
LosTypeOK ==
    /\ DOMAIN large_objects \subseteq Addrs
    /\ \A a \in DOMAIN large_objects :
           large_objects[a] \in [id : Ids, size : Sizes, is_zygote : BOOLEAN]
    /\ begin_ \in 0..MaxAddr /\ end_ \in 0..(MaxAddr + 1)
    /\ num_bytes \in 0..MaxAddr /\ num_objects \in 0..MaxAddr
    /\ live \cup mark \cup allocStack \cup todo \subseteq Addrs
    /\ roots \cup noSwap \cup stub \cup mainObjs \cup flagPending \subseteq used
    /\ used \subseteq Ids
    /\ \A s \in Slots : entry[s] = FreeSlot \/ entry[s] \in [addr : Addrs, id : Ids]
    /\ gc \in {"idle", "marked", "sweeping"}
    /\ freeing \in 0..MaxAddr

(* Spec 4.4: the entry and stub bookkeeping of an address is gone before  *)
(* the address can be reused, so every occupied table slot serves the     *)
(* object that was swapped out and is still mapped at its address.  It is *)
(* about Free calling GcRecordFree ahead of the locked erase, with the    *)
(* swap-out path and reallocation running beside the sweep.               *)
NoStaleEntry ==
    \A s \in Slots :
        entry[s] # FreeSlot =>
            /\ entry[s].addr \in DOMAIN large_objects
            /\ large_objects[entry[s].addr].id = entry[s].id

(* The sweep never frees an object a mutator still holds: objects          *)
(* allocated after the mark pause stay off the live bitmap until the next *)
(* pause, whether or not the collector swapped the bitmaps.               *)
SweepFreesOnlyGarbage ==
    /\ freeing # 0 => large_objects[freeing].id \notin roots
    /\ \A a \in todo : a \in DOMAIN large_objects
                       /\ large_objects[a].id \notin roots

(* Every large object the mutators dropped is eventually unmapped: the    *)
(* begin_/end_ range maintained by Alloc covers it when Sweep walks.      *)
GarbageFreed ==
    \A i \in Ids : (InLos(i) /\ i \notin roots) ~> ~InLos(i)
=============================================================================
