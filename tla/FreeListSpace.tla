---------------------------- MODULE FreeListSpace ----------------------------
(***************************************************************************)
(* The free-list large-object space (FreeListSpace, large_object_space.cc) *)
(* at page granularity.  The space is Capacity pages; allocation_info_ is *)
(* a side table with one AllocationInfo per page.  The blocks tile the     *)
(* space from page 0 up to free_end_start = End - free_end_; past it lies  *)
(* the free end region.  A block's info holds its length (alloc_size_,     *)
(* with the free and zygote flags) and, for a block that follows a free    *)
(* block, that free block's length (prev_free_).  free_blocks_ holds the   *)
(* infos of the blocks that follow a free block, ordered by SortByPrevFree.*)
(* Infos inside a block are stale: the model keeps whatever was last       *)
(* written there, as the code does.                                        *)
(*                                                                         *)
(* Alloc, Free and SetAllLargeObjectsAsZygoteObjects each run under lock_, *)
(* so each is one atomic step.  Sizes are in pages (kAlignment units); the *)
(* statistics total_objects_allocated_ and total_bytes_allocated_ only     *)
(* grow and nothing reads them, so they are left out.                      *)
(***************************************************************************)
EXTENDS Integers, FiniteSets, FiniteSetsExt

CONSTANTS Capacity,       \* pages in the space (space_capacity / kAlignment)
          MaxAllocPages   \* largest request, in pages

ASSUME Capacity \in Nat \ {0} /\ MaxAllocPages \in 1 .. Capacity

VARIABLES info,                 \* allocation_info_[slot]
          freeEnd,              \* free_end_, in pages
          freeBlocks,           \* free_blocks_, as the slots of its infos
          numObjectsAllocated,  \* num_objects_allocated_
          numBytesAllocated,    \* num_bytes_allocated_, in pages
          zygoteCreated,        \* Heap::PreZygoteFork has run
          result                \* what the last step returned to its caller

vars == <<info, freeEnd, freeBlocks, numObjectsAllocated, numBytesAllocated,
          zygoteCreated, result>>

Slots == 0 .. (Capacity - 1)
Null == -1       \* Alloc returned nullptr
NoResult == -2   \* the step returns no object
Info == [prevFree : 0 .. Capacity, allocSize : 0 .. Capacity,
         free : BOOLEAN, zygote : BOOLEAN]

\* The constructor maps allocation_info_map_ fresh (zero-filled) and sets
\* free_end_ to the whole capacity.
Init ==
    /\ info = [s \in Slots |->
                 [prevFree |-> 0, allocSize |-> 0, free |-> FALSE, zygote |-> FALSE]]
    /\ freeEnd = Capacity
    /\ freeBlocks = {}
    /\ numObjectsAllocated = 0
    /\ numBytesAllocated = 0
    /\ zygoteCreated = FALSE
    /\ result = NoResult

-----------------------------------------------------------------------------
(* AllocationInfo *)

\* SetByteSize writes alloc_size_ = size | (free ? kFlagFree : 0): the
\* zygote flag is cleared.
SetByteSize(i, size, isFree) == [i EXCEPT !.allocSize = size, !.free = isFree,
                                          !.zygote = FALSE]
NextInfo(s) == s + info[s].allocSize        \* GetNextInfo
PrevFreeInfo(s) == s - info[s].prevFree     \* GetPrevFreeInfo
FreeEndStart == Capacity - freeEnd

\* SortByPrevFree: prev_free_, then AlignSize, then address.
SortByPrevFree(a, b) ==
    \/ info[a].prevFree < info[b].prevFree
    \/ info[a].prevFree = info[b].prevFree /\ info[a].allocSize < info[b].allocSize
    \/ info[a].prevFree = info[b].prevFree /\ info[a].allocSize = info[b].allocSize
       /\ a < b

\* The walk of Walk, Dump and SetAllLargeObjectsAsZygoteObjects: from
\* allocation_info_[0] by GetNextInfo while below free_end_start.  A zero
\* length would loop for ever; the walk then stops and reports Null.
RECURSIVE WalkFrom(_)
WalkFrom(s) ==
    IF s >= FreeEndStart \/ info[s].allocSize = 0 THEN {}
    ELSE {s} \cup WalkFrom(NextInfo(s))

RECURSIVE WalkStop(_)
WalkStop(s) ==
    CASE s >= FreeEndStart        -> s
      [] info[s].allocSize = 0    -> Null
      [] OTHER                    -> WalkStop(NextInfo(s))

Blocks == WalkFrom(0)
LiveBlocks == {b \in Blocks : ~info[b].free}
FreeChunks == {b \in Blocks : info[b].free}

-----------------------------------------------------------------------------
(* Alloc(n): lower_bound of a temporary info with prev_free_ = n and      *)
(* AlignSize 0 finds the first info, in SortByPrevFree order, whose        *)
(* preceding free block has at least n pages.                              *)

\* Variant: lower_bound taken as upper_bound, skipping exact fits.
FitCandidatesStrict(n) == {b \in freeBlocks : info[b].prevFree > n}
FitCandidates(n) == {b \in freeBlocks : info[b].prevFree >= n}
LowerBound(n) == CHOOSE b \in FitCandidates(n) :
                    \A c \in FitCandidates(n) \ {b} : SortByPrevFree(b, c)

AllocDone(n, s) ==
    /\ numObjectsAllocated' = numObjectsAllocated + 1
    /\ numBytesAllocated' = numBytesAllocated + n
    /\ result' = s
    /\ UNCHANGED zygoteCreated

\* Variant: the split leaves the rest of the free block without a header.
AllocFromFreeBlocksNoSplit(n) ==
    /\ FitCandidates(n) # {}
    /\ LET i == LowerBound(n)
           rest == info[i].prevFree - n
       IN /\ info' = [info EXCEPT ![i].prevFree = rest,
                        ![PrevFreeInfo(i)] = SetByteSize([@ EXCEPT !.prevFree = 0], n, FALSE)]
          /\ freeBlocks' = IF rest > 0 THEN freeBlocks ELSE freeBlocks \ {i}
          /\ AllocDone(n, PrevFreeInfo(i))
    /\ UNCHANGED freeEnd

\* Variant: an exact fit leaves its info in free_blocks_.
AllocFromFreeBlocksNoErase(n) ==
    /\ FitCandidates(n) # {}
    /\ LET i == LowerBound(n)
           start == PrevFreeInfo(i)
           rest == info[i].prevFree - n
       IN /\ info' = [info EXCEPT
                        ![i].prevFree = rest,
                        ![i - rest] = IF rest > 0
                                      THEN SetByteSize([@ EXCEPT !.prevFree = 0],
                                                       rest, TRUE)
                                      ELSE @,
                        ![start] = SetByteSize([@ EXCEPT !.prevFree = 0], n, FALSE)]
          /\ freeBlocks' = freeBlocks
          /\ AllocDone(n, start)
    /\ UNCHANGED freeEnd

\* Best fit: the object takes the front of the free block before info; the
\* rest stays a free block, still indexed by info.
AllocFromFreeBlocks(n) ==
    /\ FitCandidates(n) # {}
    /\ LET i == LowerBound(n)
           start == PrevFreeInfo(i)
           rest == info[i].prevFree - n
       IN /\ info' = [info EXCEPT
                        ![i].prevFree = rest,
                        ![i - rest] = IF rest > 0
                                      THEN SetByteSize([@ EXCEPT !.prevFree = 0],
                                                       rest, TRUE)
                                      ELSE @,
                        ![start] = SetByteSize([@ EXCEPT !.prevFree = 0], n, FALSE)]
          /\ freeBlocks' = IF rest > 0 THEN freeBlocks ELSE freeBlocks \ {i}
          /\ AllocDone(n, start)
    /\ UNCHANGED freeEnd

\* No free block fits: take the front of the end region.
AllocFromFreeEnd(n) ==
    /\ FitCandidates(n) = {}
    /\ freeEnd >= n
    /\ info' = [info EXCEPT ![FreeEndStart] =
                   SetByteSize([@ EXCEPT !.prevFree = 0], n, FALSE)]
    /\ freeEnd' = freeEnd - n
    /\ AllocDone(n, FreeEndStart)
    /\ UNCHANGED freeBlocks

AllocFails(n) ==
    /\ FitCandidates(n) = {}
    /\ freeEnd < n
    /\ result' = Null
    /\ UNCHANGED <<info, freeEnd, freeBlocks, numObjectsAllocated,
                   numBytesAllocated, zygoteCreated>>

-----------------------------------------------------------------------------
(* Free(b): mark b free, coalesce with the free block before it (whose     *)
(* index entry is b itself) and with what follows: the end region, or a    *)
(* free block, or a live block that then indexes the merged free block.    *)

MarkFree(b) == [info EXCEPT ![b] = SetByteSize(@, info[b].allocSize, TRUE)]

\* RemoveFreePrev(info) when prev_free_ != 0.
FreeBlocksAfterPrev(b) ==
    IF info[b].prevFree # 0 THEN freeBlocks \ {b} ELSE freeBlocks

\* Variant: the accounting subtracts the coalesced length.
FreeDoneCoalesced(b) ==
    /\ numObjectsAllocated' = numObjectsAllocated - 1
    /\ numBytesAllocated' = numBytesAllocated - (info[b].allocSize + info[b].prevFree)
    /\ result' = NoResult
    /\ UNCHANGED zygoteCreated

\* Variant: the object count is not decremented.
FreeDoneKeepsCount(b) ==
    /\ numBytesAllocated' = numBytesAllocated - info[b].allocSize
    /\ result' = NoResult
    /\ UNCHANGED <<numObjectsAllocated, zygoteCreated>>

FreeDone(b) ==
    /\ numObjectsAllocated' = numObjectsAllocated - 1
    /\ numBytesAllocated' = numBytesAllocated - info[b].allocSize
    /\ result' = NoResult
    /\ UNCHANGED zygoteCreated

FreeIntoFreeEnd(b) ==
    /\ NextInfo(b) >= FreeEndStart
    /\ freeEnd' = freeEnd + info[b].allocSize + info[b].prevFree
    /\ info' = MarkFree(b)
    /\ freeBlocks' = FreeBlocksAfterPrev(b)
    /\ FreeDone(b)

\* Variant: no coalescing with a free block that follows.
FreeIntoFreeBlocksNoMerge(b) ==
    /\ NextInfo(b) < FreeEndStart
    /\ LET next == NextInfo(b)
           newFreeSize == info[b].allocSize + info[b].prevFree
       IN /\ info' = [MarkFree(b) EXCEPT
                        ![next].prevFree = newFreeSize,
                        ![PrevFreeInfo(b)] = SetByteSize(@, newFreeSize, TRUE)]
          /\ freeBlocks' = FreeBlocksAfterPrev(b) \cup {next}
    /\ UNCHANGED freeEnd
    /\ FreeDone(b)

FreeIntoFreeBlocks(b) ==
    /\ NextInfo(b) < FreeEndStart
    /\ LET next == NextInfo(b)
           nextFree == info[next].free
           newFreeInfo == IF nextFree THEN NextInfo(next) ELSE next
           newFreeSize == info[b].allocSize + info[b].prevFree
                          + (IF nextFree THEN info[newFreeInfo].prevFree ELSE 0)
           start == PrevFreeInfo(b)
       IN /\ info' = [MarkFree(b) EXCEPT
                        ![newFreeInfo].prevFree = newFreeSize,
                        ![start] = SetByteSize(@, newFreeSize, TRUE)]
          /\ freeBlocks' = ((FreeBlocksAfterPrev(b)
                              \ (IF nextFree THEN {newFreeInfo} ELSE {}))
                            \cup {newFreeInfo})
    /\ UNCHANGED freeEnd
    /\ FreeDone(b)

\* The sweeper frees live objects only (FreeList over the dead objects the
\* bitmap walk reports).
Free(b) == FreeIntoFreeEnd(b) \/ FreeIntoFreeBlocks(b)

-----------------------------------------------------------------------------
\* Heap::PreZygoteFork marks every live large object as a zygote object once.
SetAllLargeObjectsAsZygoteObjects ==
    /\ ~zygoteCreated
    /\ info' = [s \in Slots |-> IF s \in LiveBlocks
                                 THEN [info[s] EXCEPT !.zygote = TRUE]
                                 ELSE info[s]]
    /\ zygoteCreated' = TRUE
    /\ result' = NoResult
    /\ UNCHANGED <<freeEnd, freeBlocks, numObjectsAllocated, numBytesAllocated>>

Next ==
    \/ \E n \in 1 .. MaxAllocPages :
          AllocFromFreeBlocks(n) \/ AllocFromFreeEnd(n) \/ AllocFails(n)
    \/ \E b \in LiveBlocks : Free(b)
    \/ SetAllLargeObjectsAsZygoteObjects

Spec == Init /\ [][Next]_vars

-----------------------------------------------------------------------------
(* Properties *)

FreeListTypeOK ==
    /\ info \in [Slots -> Info]
    /\ freeEnd \in 0 .. Capacity
    /\ freeBlocks \subseteq Slots
    /\ numObjectsAllocated \in 0 .. Capacity
    /\ numBytesAllocated \in 0 .. Capacity
    /\ zygoteCreated \in BOOLEAN
    /\ result \in Slots \cup {Null, NoResult}

\* Walk ends with CHECK_EQ(cur_info, end_info): following GetNextInfo from
\* allocation_info_[0] lands exactly on free_end_start, after any sequence
\* of Alloc and Free.
WalkReachesFreeEnd == WalkStop(0) = FreeEndStart

\* "We always coalesce" (the DCHECKs of Free): a free block is followed by a
\* live block, never by another free block or by the end region, and its
\* own prev_free_ is 0.
AlwaysCoalesced ==
    \A c \in FreeChunks :
        /\ info[c].prevFree = 0
        /\ NextInfo(c) < FreeEndStart
        /\ ~info[NextInfo(c)].free

\* free_blocks_ indexes exactly the free blocks: it holds the infos that
\* follow a free block, and every live block's prev_free_ is the length of
\* the free block before it, or 0.  Alloc's best fit and Free's
\* RemoveFreePrev CHECKs rely on it.
PrevFreeLength(b) ==
    LET before == {c \in FreeChunks : NextInfo(c) = b}
    IN  IF before = {} THEN 0 ELSE info[CHOOSE c \in before : TRUE].allocSize

FreeBlocksIndexed ==
    /\ freeBlocks = {NextInfo(c) : c \in FreeChunks}
    /\ \A b \in LiveBlocks : info[b].prevFree = PrevFreeLength(b)

\* num_objects_allocated_ and num_bytes_allocated_ count the live blocks
\* and their pages.
Accounting ==
    /\ numObjectsAllocated = Cardinality(LiveBlocks)
    /\ numBytesAllocated = MapThenSumSet(LAMBDA b : info[b].allocSize, LiveBlocks)

\* FreeListSpace implements LargeObjectAllocator: Alloc returns pages no
\* live object occupies and returns nullptr only when no n contiguous pages
\* are free; Free releases exactly the freed object.
Abstract == INSTANCE LargeObjectAllocator
    WITH objects <- {[slot |-> b, pages |-> info[b].allocSize] : b \in LiveBlocks}

ImplementsLargeObjectAllocator == Abstract!Spec
=============================================================================
