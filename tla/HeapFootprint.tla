---------------------------- MODULE HeapFootprint ----------------------------
(***************************************************************************)
(* The heap's footprint accounting on the allocation path, for threads    *)
(* that create (multi-dimensional) arrays in a DlMalloc space or in a    *)
(* BumpPointerSpace (the heap's allocator, fixed when the heap is made).  *)
(*                                                                         *)
(*  - Array::CreateMultiArray (array.cc) checks the dimensions and         *)
(*    RecursiveCreateMultiArray allocates the outer array, then every      *)
(*    sub-array, depth first; a failed allocation returns nullptr with the *)
(*    arrays made so far left behind.                                      *)
(*  - Each array goes through Heap::AllocObjectWithAllocator: TryToAllocate *)
(*    first asks IsOutOfMemoryOnAllocation, whose loop reads                *)
(*    target_footprint_ and num_bytes_allocated_ and may raise the target  *)
(*    with compare_exchange_weak; DlMallocSpace::AllocNonvirtual then      *)
(*    allocates under the space's lock, and the caller adds the bytes      *)
(*    allocated (with the chunk overhead) to num_bytes_allocated_ and may  *)
(*    request a concurrent collection.  A failure goes to                  *)
(*    AllocateInternalWithGc, which collects and retries with growth.      *)
(*                                                                         *)
(* The check and the charge are separate atomic steps, as in the code, so *)
(* threads race between them.  Sizes are in units of one element.  The    *)
(* collector (outside the repository) frees the bytes of arrays nobody    *)
(* holds any more.                                                         *)
(***************************************************************************)
EXTENDS Integers, Sequences, SequencesExt, FiniteSets

CONSTANTS Threads,
          DimChoices,        \* the dimension arrays a thread may pass
          GrowthLimit,       \* growth_limit_
          InitialTarget,     \* target_footprint_ at start
          ConcurrentStartBytes, \* concurrent_start_bytes_
          ChunkOverhead,     \* DlMallocSpace::kChunkOverhead
          ArrayHeader,       \* bytes of an array before its elements
          Alignment,         \* BumpPointerSpace::kAlignment
          MallocAlignment,   \* dlmalloc's MALLOC_ALIGNMENT
          MaxCalls           \* bound on CreateMultiArray calls

ASSUME InitialTarget <= GrowthLimit

VARIABLES allocator,     \* current_allocator_: "DlMalloc" or "BumpPointer"
          allocated,     \* num_bytes_allocated_
          target,        \* target_footprint_
          concurrentGc,  \* IsGcConcurrent(): fixed when the heap is made
          gcRequested,   \* a concurrent collection has been requested
          garbage,       \* bytes of arrays that nobody holds
          pc, dimensions, plan, made, charged, grow, oldTarget,
          newFootprint, calls

vars == <<allocator, allocated, target, concurrentGc, gcRequested, garbage, pc,
          dimensions, plan, made, charged, grow, oldTarget, newFootprint, calls>>

-----------------------------------------------------------------------------
(* Mutant of RecursiveCreateMultiArray: recursion condition off by one.  *)
RECURSIVE RecursiveCreateMultiArrayShallow(_, _)
RecursiveCreateMultiArrayShallow(dims, d) ==
    <<[level |-> d, length |-> dims[d]]>>
    \o IF d + 1 < Len(dims)
       THEN FlattenSeq([i \in 1..dims[d] |-> RecursiveCreateMultiArrayShallow(dims, d + 1)])
       ELSE <<>>

(* The allocations RecursiveCreateMultiArray makes for dimensions dims    *)
(* from current_dimension d on, in order: the array of length dims[d],    *)
(* then, unless d is the last dimension, the sub-arrays of each element.  *)
RECURSIVE RecursiveCreateMultiArray(_, _)
RecursiveCreateMultiArray(dims, d) ==
    <<[level |-> d, length |-> dims[d]]>>
    \o IF d < Len(dims)
       THEN FlattenSeq([i \in 1..dims[d] |-> RecursiveCreateMultiArray(dims, d + 1)])
       ELSE <<>>

(* Array::Alloc of length elements (the size computed from the component  *)
(* size shift that PrimitiveArray<T>::Alloc passes).                      *)
ArrayBytes(length) == ArrayHeader + length

(* Array::CreateMultiArray: a negative dimension throws                   *)
(* NegativeArraySizeException before anything is allocated; otherwise     *)
(* the arrays to allocate, in order.                                      *)
CreateMultiArrayPlan(dims) ==
    IF \E i \in 1..Len(dims) : dims[i] < 0 THEN <<>>
    ELSE RecursiveCreateMultiArray(dims, 1)

(* RoundUp(x, n) of bit_utils.h, for a power-of-two n.                      *)
RoundUp(x, n) == ((x + n - 1) \div n) * n

(* mspace_usable_size of the chunk mspace_malloc gives for n bytes, taken *)
(* to be the padded request (pad_request: the request with its overhead    *)
(* rounded to MALLOC_ALIGNMENT).  dlmalloc may hand out a larger free chunk *)
(* whose remainder is too small to split; that slack is not modelled, so   *)
(* the overshoot bound below holds for chunks of the padded size only.    *)
UsableSize(n) == RoundUp(n + ChunkOverhead, MallocAlignment) - ChunkOverhead

(* DlMallocSpace::AllocationSizeNonvirtual: the usable size plus the     *)
(* chunk overhead, reported as bytes_allocated and bytes_tl_bulk_allocated. *)
AllocationSizeNonvirtual(n) == UsableSize(n) + ChunkOverhead

(* What TryToAllocate reports as bytes_tl_bulk_allocated for a request of *)
(* n bytes: the BumpPointer case rounds alloc_size up to kAlignment after *)
(* the footprint check; DlMalloc reports AllocationSizeNonvirtual.         *)
BytesAllocated(n) ==
    IF allocator = "BumpPointer" THEN RoundUp(n, Alignment)
    ELSE AllocationSizeNonvirtual(n)

(* Heap::ShouldConcurrentGCForJava. *)
ShouldConcurrentGCForJava(n) == n >= ConcurrentStartBytes

Busy == {"alloc", "oomcheck", "cas", "malloc", "charge", "oom"}

(* A DlMalloc heap belongs to a mark-sweep collector, concurrent or not;   *)
(* the bump-pointer allocator to the non-concurrent semi-space collectors. *)
Init ==
    /\ \/ allocator = "DlMalloc" /\ concurrentGc \in BOOLEAN
       \/ allocator = "BumpPointer" /\ concurrentGc = FALSE
    /\ allocated = 0
    /\ target = InitialTarget
    /\ gcRequested = FALSE
    /\ garbage = 0
    /\ pc = [t \in Threads |-> "idle"]
    /\ dimensions = [t \in Threads |-> <<>>]
    /\ plan = [t \in Threads |-> <<>>]
    /\ made = [t \in Threads |-> <<>>]
    /\ charged = [t \in Threads |-> 0]
    /\ grow = [t \in Threads |-> FALSE]
    /\ oldTarget = [t \in Threads |-> 0]
    /\ newFootprint = [t \in Threads |-> 0]
    /\ calls = 0

-----------------------------------------------------------------------------
(* A call of Array::CreateMultiArray: with a negative dimension it throws  *)
(* and returns at once; otherwise the thread starts allocating.           *)
CreateMultiArray(t, dims) ==
    /\ pc[t] = "idle"
    /\ calls < MaxCalls
    /\ calls' = calls + 1
    /\ LET p == CreateMultiArrayPlan(dims) IN
          /\ plan' = [plan EXCEPT ![t] = p]
          /\ pc' = [pc EXCEPT ![t] = IF p = <<>> THEN "idle" ELSE "alloc"]
    /\ dimensions' = [dimensions EXCEPT ![t] = dims]
    /\ made' = [made EXCEPT ![t] = <<>>]
    /\ charged' = [charged EXCEPT ![t] = 0]
    /\ grow' = [grow EXCEPT ![t] = FALSE]
    /\ UNCHANGED <<allocator, allocated, target, concurrentGc, gcRequested, garbage,
                   oldTarget, newFootprint>>

(* TryToAllocate for the DlMalloc allocator enters                          *)
(* IsOutOfMemoryOnAllocation, which loads target_footprint_ once.          *)
TryToAllocate(t) ==
    /\ pc[t] = "alloc"
    /\ oldTarget' = [oldTarget EXCEPT ![t] = target]
    /\ pc' = [pc EXCEPT ![t] = "oomcheck"]
    /\ UNCHANGED <<allocator, allocated, target, concurrentGc, gcRequested, garbage,
                   dimensions, plan, made, charged, grow, newFootprint, calls>>

(* Mutant of IsOutOfMemoryOnAllocation: growth_limit_ compared with the  *)
(* bytes already allocated instead of the new footprint.                  *)
IsOutOfMemoryOnAllocationLimitOld(t) ==
    LET nf == allocated + ArrayBytes(Head(plan[t]).length) IN
    /\ pc[t] = "oomcheck"
    /\ pc' = [pc EXCEPT ![t] =
                 CASE nf <= oldTarget[t]        -> "malloc"
                   [] allocated > GrowthLimit   -> "oom"
                   [] concurrentGc              -> "malloc"
                   [] grow[t]                   -> "cas"
                   [] OTHER                     -> "oom"]
    /\ newFootprint' = [newFootprint EXCEPT ![t] = nf]
    /\ UNCHANGED <<allocator, allocated, target, concurrentGc, gcRequested, garbage,
                   dimensions, plan, made, charged, grow, oldTarget, calls>>

(* One iteration of the loop: load num_bytes_allocated_ and decide.  Below *)
(* the target it fits; past growth_limit_ it is out of memory; in between  *)
(* a concurrent collector lets it through, a caller that may grow tries   *)
(* to raise the target, and any other is out of memory.                   *)
IsOutOfMemoryOnAllocation(t) ==
    LET nf == allocated + ArrayBytes(Head(plan[t]).length) IN
    /\ pc[t] = "oomcheck"
    /\ pc' = [pc EXCEPT ![t] =
                 CASE nf <= oldTarget[t]  -> "malloc"
                   [] nf > GrowthLimit    -> "oom"
                   [] concurrentGc        -> "malloc"
                   [] grow[t]             -> "cas"
                   [] OTHER               -> "oom"]
    /\ newFootprint' = [newFootprint EXCEPT ![t] = nf]
    /\ UNCHANGED <<allocator, allocated, target, concurrentGc, gcRequested, garbage,
                   dimensions, plan, made, charged, grow, oldTarget, calls>>

(* Mutant of CasTarget: the target is stored without comparing.           *)
CasTargetStore(t) ==
    /\ pc[t] = "cas"
    /\ target' = newFootprint[t]
    /\ pc' = [pc EXCEPT ![t] = "malloc"]
    /\ UNCHANGED <<allocator, allocated, concurrentGc, gcRequested, garbage, dimensions, plan, made,
                   charged, grow, oldTarget, newFootprint, calls>>

(* target_footprint_.compare_exchange_weak(old_target, new_footprint)      *)
(* succeeds: the allocation fits.                                          *)
CasTarget(t) ==
    /\ pc[t] = "cas"
    /\ target = oldTarget[t]
    /\ target' = newFootprint[t]
    /\ pc' = [pc EXCEPT ![t] = "malloc"]
    /\ UNCHANGED <<allocator, allocated, concurrentGc, gcRequested, garbage, dimensions, plan, made,
                   charged, grow, oldTarget, newFootprint, calls>>

(* Mutant of CasTargetFails: old_target is not refreshed.                  *)
CasTargetFailsStale(t) ==
    /\ pc[t] = "cas"
    /\ pc' = [pc EXCEPT ![t] = "oomcheck"]
    /\ UNCHANGED <<allocator, allocated, target, concurrentGc, gcRequested, garbage,
                   dimensions, plan, made, charged, grow, oldTarget, newFootprint, calls>>

(* The exchange fails, because another thread moved the target or         *)
(* spuriously; it writes the current target into old_target (the inout    *)
(* reference) and the loop tries again.                                   *)
CasTargetFails(t) ==
    /\ pc[t] = "cas"
    /\ oldTarget' = [oldTarget EXCEPT ![t] = target]
    /\ pc' = [pc EXCEPT ![t] = "oomcheck"]
    /\ UNCHANGED <<allocator, allocated, target, concurrentGc, gcRequested, garbage,
                   dimensions, plan, made, charged, grow, newFootprint, calls>>

(* DlMallocSpace::AllocNonvirtual: under lock_, AllocWithoutGrowthLocked  *)
(* gets the chunk from mspace_malloc; the memory is zeroed after unlock.   *)
AllocNonvirtual(t) ==
    /\ pc[t] = "malloc"
    /\ allocator = "DlMalloc"
    /\ pc' = [pc EXCEPT ![t] = "charge"]
    /\ UNCHANGED <<allocator, allocated, target, concurrentGc, gcRequested, garbage,
                   dimensions, plan, made, charged, grow, oldTarget, newFootprint, calls>>

(* mspace_malloc returns nullptr (the mspace has no fitting chunk), so     *)
(* TryToAllocate returns nullptr.                                          *)
AllocWithoutGrowthLocked(t) ==
    /\ pc[t] = "malloc"
    /\ allocator = "DlMalloc"
    /\ pc' = [pc EXCEPT ![t] = "oom"]
    /\ UNCHANGED <<allocator, allocated, target, concurrentGc, gcRequested, garbage,
                   dimensions, plan, made, charged, grow, oldTarget, newFootprint, calls>>

(* The BumpPointer case: BumpPointerSpace::AllocNonvirtual of the rounded *)
(* size returns an object, or null when the space is full, and            *)
(* TryToAllocate returns it.                                               *)
BumpPointerAllocNonvirtual(t) ==
    /\ pc[t] = "malloc"
    /\ allocator = "BumpPointer"
    /\ \E full \in BOOLEAN : pc' = [pc EXCEPT ![t] = IF full THEN "oom" ELSE "charge"]
    /\ UNCHANGED <<allocator, allocated, target, concurrentGc, gcRequested, garbage,
                   dimensions, plan, made, charged, grow, oldTarget, newFootprint, calls>>

(* Back in AllocObjectWithAllocator, bytes_tl_bulk_allocated (the          *)
(* allocation size with the chunk overhead) is added to                    *)
(* num_bytes_allocated_ with fetch_add; past concurrent_start_bytes_ with  *)
(* a concurrent collector, a collection is requested.  The next array of   *)
(* the plan starts again without growth.                                   *)
CountAllocation(t) ==
    LET bytes == BytesAllocated(ArrayBytes(Head(plan[t]).length)) IN
    /\ pc[t] = "charge"
    /\ allocated' = allocated + bytes
    /\ gcRequested' = (gcRequested \/
                         (concurrentGc /\ ShouldConcurrentGCForJava(allocated + bytes)))
    /\ charged' = [charged EXCEPT ![t] = @ + bytes]
    /\ plan' = [plan EXCEPT ![t] = Tail(@)]
    /\ made' = [made EXCEPT ![t] = Append(@, Head(plan[t]))]
    /\ pc' = [pc EXCEPT ![t] = IF Tail(plan[t]) = <<>> THEN "holding" ELSE "alloc"]
    /\ grow' = [grow EXCEPT ![t] = FALSE]
    /\ UNCHANGED <<allocator, target, concurrentGc, garbage, dimensions, oldTarget,
                   newFootprint, calls>>

(* Mutant of AllocateInternalWithGc: the freed bytes stay garbage.         *)
AllocateInternalWithGcNoReset(t) ==
    /\ pc[t] = "oom"
    /\ ~grow[t]
    /\ allocated' = allocated - garbage
    /\ grow' = [grow EXCEPT ![t] = TRUE]
    /\ pc' = [pc EXCEPT ![t] = "alloc"]
    /\ UNCHANGED <<allocator, target, concurrentGc, gcRequested, garbage, dimensions, plan, made, charged,
                   oldTarget, newFootprint, calls>>

(* Heap::AllocateInternalWithGc (outside the repository): a collection    *)
(* frees the garbage and the allocation is tried again with growth.       *)
AllocateInternalWithGc(t) ==
    /\ pc[t] = "oom"
    /\ ~grow[t]
    /\ allocated' = allocated - garbage
    /\ garbage' = 0
    /\ grow' = [grow EXCEPT ![t] = TRUE]
    /\ pc' = [pc EXCEPT ![t] = "alloc"]
    /\ UNCHANGED <<allocator, target, concurrentGc, gcRequested, dimensions, plan, made, charged,
                   oldTarget, newFootprint, calls>>

(* Out of memory even with growth: AllocObjectWithAllocator returns        *)
(* nullptr with an OutOfMemoryError pending, and RecursiveCreateMultiArray *)
(* returns nullptr; the arrays it made are garbage.                       *)
AllocationFails(t) ==
    /\ pc[t] = "oom"
    /\ grow[t]
    /\ garbage' = garbage + charged[t]
    /\ pc' = [pc EXCEPT ![t] = "idle"]
    /\ plan' = [plan EXCEPT ![t] = <<>>]
    /\ UNCHANGED <<allocator, allocated, target, concurrentGc, gcRequested, dimensions,
                   made, charged, grow, oldTarget, newFootprint, calls>>

(* The caller drops the array CreateMultiArray returned.                   *)
DropArray(t) ==
    /\ pc[t] = "holding"
    /\ garbage' = garbage + charged[t]
    /\ pc' = [pc EXCEPT ![t] = "idle"]
    /\ UNCHANGED <<allocator, allocated, target, concurrentGc, gcRequested, dimensions, plan, made,
                   charged, grow, oldTarget, newFootprint, calls>>

(* The requested concurrent collection runs and frees the garbage.         *)
ConcurrentCollection ==
    /\ gcRequested
    /\ allocated' = allocated - garbage
    /\ garbage' = 0
    /\ gcRequested' = FALSE
    /\ UNCHANGED <<allocator, target, concurrentGc, pc, dimensions, plan, made, charged, grow, oldTarget,
                   newFootprint, calls>>

\* Every call has been made and returned.
Finished ==
    /\ calls = MaxCalls
    /\ \A t \in Threads : pc[t] = "idle"
    /\ UNCHANGED vars

ThreadStep(t) ==
    \/ TryToAllocate(t) \/ IsOutOfMemoryOnAllocation(t) \/ CasTargetFails(t)
    \/ AllocNonvirtual(t) \/ AllocWithoutGrowthLocked(t) \/ BumpPointerAllocNonvirtual(t)
    \/ CountAllocation(t)
    \/ AllocateInternalWithGc(t) \/ AllocationFails(t)

Next ==
    \/ \E t \in Threads :
          \/ \E dims \in DimChoices : CreateMultiArray(t, dims)
          \/ ThreadStep(t) \/ CasTarget(t) \/ DropArray(t)
    \/ ConcurrentCollection
    \/ Finished

(* Each allocating thread keeps running, a weak compare-exchange does not *)
(* fail spuriously for ever, and a requested collection runs.             *)
Fairness ==
    /\ \A t \in Threads : WF_vars(ThreadStep(t)) /\ SF_vars(CasTarget(t))
    /\ WF_vars(ConcurrentCollection)

Spec == Init /\ [][Next]_vars /\ Fairness

-----------------------------------------------------------------------------
FootprintTypeOK ==
    /\ allocator \in {"DlMalloc", "BumpPointer"}
    /\ allocated \in Nat /\ garbage \in Nat
    /\ target \in 0..GrowthLimit
    /\ concurrentGc \in BOOLEAN /\ gcRequested \in BOOLEAN
    /\ pc \in [Threads -> {"idle", "holding"} \cup Busy]
    /\ plan \in [Threads -> Seq([level : Nat, length : Nat])]
    /\ made \in [Threads -> Seq([level : Nat, length : Nat])]
    /\ charged \in [Threads -> Nat]
    /\ grow \in [Threads -> BOOLEAN]
    /\ calls \in 0..MaxCalls

(* IsOutOfMemoryOnAllocation raises target_footprint_ only by a           *)
(* compare-exchange against the value the loop last saw, so racing         *)
(* threads never lower it, and it never passes growth_limit_.             *)
TargetGrowsWithinLimit == [][target <= target' /\ target' <= GrowthLimit]_target

(* The heap limit check is "inherently approximate": it is not atomic with *)
(* the fetch_add in AllocObjectWithAllocator.  How far num_bytes_allocated_ *)
(* can pass growth_limit_: by the bytes the last check never counted (the  *)
(* chunk overhead and dlmalloc's padding, or the bump-pointer rounding to  *)
(* kAlignment, which TryToAllocate applies after the check), and by a      *)
(* whole charge of every other thread that passed its check before.        *)
ArraySizes == UNION {{ArrayBytes(p[i].length) : i \in DOMAIN p} :
                       p \in {CreateMultiArrayPlan(d) : d \in DimChoices}}
MaxCharge == Max({BytesAllocated(x) : x \in ArraySizes} \cup {0})
MaxUncounted == Max({BytesAllocated(x) - x : x \in ArraySizes} \cup {0})
OvershootBound ==
    GrowthLimit + (Cardinality(Threads) - 1) * MaxCharge + MaxUncounted
OvershootBounded == allocated <= OvershootBound

(* When CreateMultiArray returns an array for dimensions d1..dn, the      *)
(* thread has allocated d1 * ... * d(k-1) arrays of length dk at each      *)
(* level k, the outer array first and each array after its parent (a       *)
(* pre-order walk): the closed form of Java's new T[d1]...[dn].            *)
RECURSIVE ArraysAtLevel(_, _)
ArraysAtLevel(dims, k) == IF k = 1 THEN 1 ELSE ArraysAtLevel(dims, k - 1) * dims[k - 1]
MultiArrayShape ==
    \A t \in Threads : pc[t] = "holding" =>
       LET dims == dimensions[t]
           p    == made[t]
       IN  /\ p[1].level = 1
           /\ \A i \in 2..Len(p) : p[i].level <= p[i - 1].level + 1
           /\ \A i \in DOMAIN p : p[i].length = dims[p[i].level]
           /\ \A k \in 1..Len(dims) :
                 Cardinality({i \in DOMAIN p : p[i].level = k}) = ArraysAtLevel(dims, k)

(* Every allocation returns, with an array or with nullptr: the            *)
(* compare-exchange loop of IsOutOfMemoryOnAllocation terminates.          *)
AllocationsReturn == \A t \in Threads : pc[t] \in Busy ~> pc[t] \notin Busy
=============================================================================
