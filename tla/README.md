# TLA+ models of the object swap subsystem (marvin) in the ART runtime

This directory holds TLA+ models of the demand-paging layer that the
repository adds to the ART managed heap: the reclamation table of per-object
swap entries, the handshake between application threads and the kernel-side
swap-in path, the stub indirection that every field accessor runs, and the
allocator/GC hooks around it.  Each module is translated from the C++ under
`src/`; parts that are not in the repository (the kernel path,
`SwapInOnDemand`, the `ReclamationTable` methods' bodies) are modelled from
`spec.md` and marked `spec_modelled` in `PROJECT.json`.

## 1. Inventory

### Components and their state

| Component | Source | State | Operations |
|---|---|---|---|
| TableEntry | `mirror/object-inl.h` 1098-1211 | `bit_flags_` (occupied, kernel-lock, resident bits, atomic fetch_or/fetch_and), `app_lock_counter_` (atomic `uint8_t`), `num_pages_`, `object_address_` | `LockFromAppThread` (spin, incr, spin, incr), `UnlockFromAppThread` (decr), bit getters/setters |
| ReclamationTable | `mirror/object-inl.h` 1213-1238 (declaration; bodies not in the repository) | base address, entry count, the slots | `CreateTable`, `CreateEntry` (not thread-safe), `FreeEntry`, `UnlockAllEntries` (at a pause), `IsValid` |
| Kernel swap-in path | not in the repository | sets/clears the kernel-lock bit, reads the counter | swap-in of a non-resident payload |
| Stub indirection | `mirror/object-inl.h` (SWAP_PREAMBLE in each accessor; written out in `SetFieldObjectWithoutWriteBarrier` 712-729), `mirror/array.cc` 133-143 | the stub (stub flag, back pointer to its entry, cached header), the resident payload | hooked get/set/CAS64/visit accessors; unhooked reference CAS/exchange and `*ViaAccessor` |
| Free hook | `gc/space/large_object_space.cc` 212-214, 471-473 | — | `GcRecordFree(self, obj)` before a large object is freed |
| No-swap flags | `gc/heap-inl.h` 101-108; `AddGlobalRef`/`AddWeakGlobalRef` (appended `java_vm_ext.cc` in `large_object_space.cc` 1590-1630) | no-swap bit in the object | set for zygote large objects and on JNI global/weak-global reference creation |
| FreeListSpace | `gc/space/large_object_space.cc` 290-660 | `allocation_info_` (per page: `prev_free_`, `alloc_size_` with free/zygote flags), `free_blocks_` (set ordered by prev-free size), `free_end_`, counters | `Alloc` (best fit or end region), `Free` (coalesce), `SetAllLargeObjectsAsZygoteObjects`, `Walk` |
| LargeObjectMapSpace | `gc/space/large_object_space.cc` 120-280 | `large_objects_` map, counters | `Alloc`, `Free`, `IsZygoteLargeObject` |
| Sweep | `gc/space/large_object_space.cc` 660-700 | live/mark bitmaps | `Sweep`, `SweepCallback`, `FreeList` |
| Heap footprint | `gc/heap-inl.h` 150-224, 305-317, 449-486; `gc/space/dlmalloc_space-inl.h` 32-85 | `num_bytes_allocated_`, `target_footprint_` (atomics), `growth_limit_`, `concurrent_start_bytes_` | `TryToAllocate` with `IsOutOfMemoryOnAllocation` (CAS loop), `DlMallocSpace::AllocNonvirtual`, the `fetch_add` accounting and concurrent-GC request |
| Array creation | `mirror/array.cc` 47-168 | — | `CreateMultiArray`, `RecursiveCreateMultiArray`, `CopyOf` (no preamble), the hooked `Throw*` |

### How they interact

* An application thread's field access on an object whose stub flag is set
  goes through the stub: it resolves the stub's `TableEntry`, runs
  `LockFromAppThread`, calls `SwapInOnDemand` if the resident bit is clear,
  forwards the access to the payload at `object_address_`, refreshes the stub
  (`PopulateFrom`) and runs `UnlockFromAppThread`.
* The kernel path communicates with application threads only through the
  entry's kernel-lock bit and `app_lock_counter_` (shared atomic state).
* The GC sweeps large objects and calls `Free` for each dead one; `Free`
  calls `GcRecordFree` first, which must drop the entry for that address
  before the space can hand it out again.
* The allocator and JNI set the no-swap flag so that such objects never get
  a stub.

### What is hard

* Interleavings of the four-step lock with the kernel setting its bit.
* Arithmetic of an 8-bit counter that is incremented twice and decremented
  once per access.
* Application threads are not excluded from each other by the handshake, so
  the check-then-swap-in in each accessor races.
* Accessors without the preamble (reference CAS/exchange, `*ViaAccessor`,
  header offsets) act on the stub instead of the payload.
* Spin waits with no timeout (liveness), and a pause-time reset
  (`UnlockAllEntries`) that does not coordinate with a running kernel path.
* Free-list coalescing and address reuse after the free hook.

### Properties that make each component correct

* Handshake: no application thread between lock and unlock while the kernel
  is in its critical section (refinement of `EntryLock`); every lock call
  returns; the kernel eventually gets a wanted entry; the counter's
  bookkeeping.
* Stub protocol: a read through the stub returns the last value written
  through any accessor; the stub is fresh between accesses.
* Table: an entry handed out by `CreateEntry` carries no state of its
  previous owner; `UnlockAllEntries` leaves no lock held.
* Free hook / lifecycle: no entry or stub refers to an address after it is
  freed; no-swap objects never become stubs.
* FreeListSpace: the blocks tile the space; no two adjacent free blocks;
  `free_blocks_` holds exactly the free blocks that precede an allocated one;
  the byte and object counters match the allocated blocks.

## 2. Plan

Modules, in the order they are (to be) written; most important first.

1. `EntryLock` (done): abstract entry lock: application threads share it,
   the kernel excludes all of them.
2. `TableEntry` (done): one entry, `Threads` application threads and the
   kernel path; refines `EntryLock` (`ImplementsEntryLock`).
3. `StubAccess` (done) EXTENDS `TableEntry`: hooked accessors on one stub
   with one field, refining `FieldRegister`; `StubBypass` (done) EXTENDS
   it with every unhooked accessor.
4. `ReclamationTable` (done as `TableRecovery` for `UnlockAllEntries`,
   and inside 8 for `CreateEntry`/`FreeEntry`): `Slots` entries, `CreateEntry`/`FreeEntry`
   /`UnlockAllEntries` composed with the per-entry handshake (via
   `TableEntry`'s actions per slot), checking clean reuse and the pause
   reset against a running kernel path.
5. `FreeListSpace` (done): the large-object free-list allocator at page
   granularity over a few pages, with a reference definition of the block
   tiling; checks coalescing and accounting.
6. `NativeLibraries` (done): library loading and unloading in JavaVMExt.
7. `JniReferences` (done): global and weak-global references, the weak
   access protocol against a collection, and the no-swap flag.
8. `ObjectLifecycle` (done): `LargeObjectMapSpace` (Alloc, Free
   with `GcRecordFree` before `lock_`, zygote marking), `LargeObjectSpace`
   `Sweep`/`FreeList`/`SweepCallback`, the zygote no-swap flag of
   `Heap::AllocObjectWithAllocator` with its fallback to the normal
   spaces, and `GcRecordFree` freeing the table entry (from the spec);
   checks that a reused address never inherits an entry and that zygote
   large objects never become stubs.  (`FreeListSpace` is still checked on
   its own; its `GcRecordFree` call sits in the same place.)
9. Accessor families in `StubAccess` (done as accessor tables): every
   hooked family of `object-inl.h` and `array.cc`.  Still open: the
   read/write/dirty bits that `GetFieldObject` and
   `SetFieldObjectWithoutWriteBarrier` set on the payload.
10. `HeapFootprint` (done): the footprint check, the DlMalloc and
   bump-pointer allocation and the accounting of `Heap::AllocObjectWithAllocator`, driven by
   `Array::CreateMultiArray`.

The project holds at most 12 runs; new modules are checked by pass runs,
so a new question replaces the weakest existing one rather than adding to
the list.

## 3. Modules and runs

### EntryLock
Abstract specification.  `appIn` is the set of application threads inside
the entry, `kernelIn` whether the kernel is.  Not a translation of code.

### TableEntry (`TableEntry.tla`, `MCTableEntry.tla`)
State: `kernelLock` (the kernel-lock bit), `appLockCounter`
(`app_lock_counter_`, modulo `2^CounterWidth`), `pc` per application thread
(`idle`, `spin1`, `incr1`, `spin2`, `incr2`, `held`), `kpc` for the kernel
(`kidle`, `kwant`, `kcheck`, `kheld`), and two history counters `calls`,
`unlocks`.  Each atomic load of the bit and each counter increment of
`LockFromAppThread` is one action (`LockSpin1`, `LockIncr1`, `LockSpin2`,
`LockIncr2`); `UnlockFromAppThread` is one decrement.  A spin loop that keeps
reading a set bit is stuttering, so only the read that ends the loop is an
action.

The kernel path is not in the repository.  It is modelled from the spec as
the only writer of the kernel-lock bit, and, since the counter exists for it
to read, as: set the bit (`KernelSetLock`), read the counter, back off and
clear the bit if it is non-zero (`KernelBackOff`), otherwise enter
(`KernelEnter`), and clear the bit when the swap-in is done
(`KernelRelease`).  Publishing the bit before reading the counter is the
only order under which the application side's double spin can exclude it.

Fairness: the spin exits are strongly fair (a spinning thread reads the bit
continuously, so a bit that is clear again and again is eventually seen
clear); the increments, the unlock and the kernel's steps once it wants the
entry are weakly fair (straight-line code).  Calls and faults are not forced.

`TableRecovery` (`TableRecovery.tla`, `MCTableRecovery.tla`) adds
`ReclamationTable::UnlockAllEntries`, modelled from the spec because its
body is not in `src/`:
* It clears the bit and zeroes the counter.
* It resets the `unlocks` history, so that `CounterAccounting` counts from
  the last reset.
* It runs only when no thread is inside the handshake. That includes the
  kernel, which may want the entry but has not yet published its bit. This
  is the spec's contract: "unsafe to call while any thread may be
  mid-handshake".

The pause that calls it belongs to the runtime. It is assumed strongly fair,
because the spec describes it as recurring recovery and it is enabled only
between handshakes.

Runs:
* `entry_handshake` (pass; `RecoverySpec`, 2 threads, 8-bit counter,
  `MaxCalls = 4`). It checks:
  * `ImplementsEntryLock`: the handshake refines `EntryLock`.
  * `CounterAccounting`: the counter equals the accesses completed since
    the last reset plus the increments of threads in the handshake,
    mod 256.
  * `LockReturns`: every lock call returns.

  No liveness is claimed for the kernel path.  Without `UnlockAllEntries`
  the counter stays positive after any access and the kernel backs off
  forever.  With it, the kernel is still not served: nothing stops an
  application thread from taking `LockIncr1` after every reset and before
  `KernelSetLock`, so the kernel can back off forever as long as the
  application keeps calling.  The run bounds the calls (`MaxCalls`), and a
  kernel property that holds there would hold only because the
  application stops.  A reset that waits only
  for the application threads (`UnlockAllEntriesAppsOnly`) breaks
  `ImplementsEntryLock`: it clears the bit under a kernel that is inside.

  `MaxCalls = 4` lets both threads lock twice, interleaved with kernel
  entries, back-offs and pauses, and keeps the counter below its wrap.
* `entry_counter_wrap` (violation; `EntrySpec`, 1 thread,
  `MaxCalls = 255`): with no pause in between, the counter wraps to 0
  while the thread holds the entry, and the kernel enters.

### StubAccess, StubBypass
`StubAccess` EXTENDS `TableEntry` and adds `resident`, the field's value in
secondary storage (`backing`), in the payload (`payload`, `Undef` while not
resident) and in the stub's memory (`stubField`), the accessor each thread
runs (`op`, `step`) and a ghost register `reg` with the last value written.
Actions follow `SetFieldObjectWithoutWriteBarrier` line by line:
`BeginAccess` (stub flag set, `LockTableEntry` called), `Locked`,
`CheckResident`, `SwapInOnDemand` (from the spec), `Forward`,
`PopulateFrom`, `EndAccess` (unlock).  The kernel faults only on a
non-resident payload and swaps it in before clearing its bit.  Swap-out is
outside the repository, so each behaviour starts from an evicted object.
The hooked accessors are listed as tables, one per family of
`object-inl.h` (`Accessors8`, `Accessors16`, `Accessors32`, `Accessors64`,
`AccessorsCas64`, `AccessorsObjectGet`, `AccessorsObjectSet`,
`AccessorsSizeOf`, `AccessorsVisit`) and `array.cc` (`ArrayAccessors`),
mapping each accessor to the kind of access it makes (get, set, strong or
weak CAS); `HookedAccessors` joins them with `@@`, and the operations a
thread may run are the kinds they use.  Each family has the same preamble,
so one path of actions stands for all of them.

`FieldRegister` is what the stub protocol promises (spec 1 and 4.3): the
field behaves as an atomic register whose get, set and compare-and-set each
take effect at one instant between call and return.  `StubAccess` maps onto
it with the field as `payload` while resident and `backing` otherwise, the
pending operation as `op`, and the operation as applied once the thread has
forwarded it (`step` is `populate` or `done`).

`StubBypass` adds one action per accessor with no preamble, each acting on
the stub's memory at `this + field_offset`: `GetFieldAcquire`,
`GetPrimitiveFieldViaAccessor` and `Array::CopyOf` read it;
`UpdateFieldViaAccessor` and `ExchangeFieldObject` write it;
`CasFieldObjectWithoutWriteBarrier` (and `CasFieldObject`) and
`CompareAndExchangeFieldObject` compare-and-set it.

Runs:
* `stub_access` (pass; 1 application thread, values `{v1, v2}`,
  `MaxCalls = 3`; get, set, strong and weak 64-bit CAS). It checks:
  * `ImplementsFieldRegister`: the refinement above.  It also says that a
    get returns the current value and a strong CAS fails only if the field
    differs from the expected value.  `ForwardCas` applies
    `CompareAndSetStrong` or `CompareAndSetWeak` to the payload, and the
    weak one may fail spuriously.

With two application threads, both can see the resident bit clear, and the
second `SwapInOnDemand` then overwrites the first thread's write. That
result depends on `SwapInOnDemand`, which is modelled from the spec because
its body is not in `src/`, so it is no longer kept as a run.
* `stub_exchange_bypass` (violation; `Coherent`: the field seen through
  the stub is the last value written): a write through any unhooked
  accessor lands in the stub and never reaches the payload.

### FreeListSpace, LargeObjectAllocator
`FreeListSpace` models `FreeListSpace` of `large_object_space.cc` at page
granularity (`Capacity` pages).  State: `info`, the `AllocationInfo` side
table (`prevFree`, `allocSize`, the free flag and the zygote flag, per
page), `freeEnd` (`free_end_`), `freeBlocks` (`free_blocks_`, the set of
infos that follow a free chunk, ordered by `SortByPrevFree`),
`numObjectsAllocated`, `numBytesAllocated` (in pages) and `result`.  Every
operation runs under `lock_`, so `Alloc` and `Free` are one action each:
`Alloc` is `AllocFromFreeBlocks` (lower_bound best fit, split, re-index the
rest), `AllocFromFreeEnd` or `AllocFails`; `Free` marks the block free,
merges with the previous free chunk, and then either grows the free end
(`FreeIntoFreeEnd`) or merges with / indexes the following block
(`FreeIntoFreeBlocks`).  `SetAllLargeObjectsAsZygoteObjects` is the
one-shot zygote step.  `WalkFrom` is the `Walk` loop, RECURSIVE over the
info table.

`LargeObjectAllocator` is the abstract promise: an allocation of n pages
returns n pages no live object covers, or nullptr only when no such run
exists.  `ImplementsLargeObjectAllocator` checks the refinement with the
live blocks as the abstract objects.

Runs:
* `freelist_space` (pass; 5 pages, requests of 1 or 2 pages): the walk
  ends exactly at the free end, no two free chunks are adjacent,
  `free_blocks_` indexes exactly the blocks after a free chunk, the
  counters equal the live blocks, and the refinement.  Five pages allow
  three live blocks with free gaps on both sides, so every branch of `Free`
  happens.

A full space is reached by `freelist_space`, where `WalkReachesFreeEnd`
checks the release-build walk.  An earlier run, `freelist_full_walk`, was
retired to stay within the run budget.  With 2 pages, it showed that once
the space is full, `free_end_ == 0` and `Walk` looks up the info of
`End()`, which is outside the table.  `GetSlotIndexForAddress` DCHECKs
`Contains`, so a debug build aborts there.

### HeapFootprint (`HeapFootprint.tla`, `MCHeapFootprint.tla`)
Threads call `Array::CreateMultiArray`.  It throws, with nothing
allocated, on a negative dimension.  Otherwise it allocates the arrays
that `RecursiveCreateMultiArray` (a RECURSIVE operator) lists: the outer
array first, then the sub-arrays depth first.  Each allocation follows
`AllocObjectWithAllocator` for the heap's allocator (`allocator`, chosen
in `Init`: DlMalloc under a mark-sweep collector, concurrent or not, or
BumpPointer under the non-concurrent semi-space collectors), in these
steps:

1. `TryToAllocate` enters `IsOutOfMemoryOnAllocation` and loads
   `target_footprint_`.
2. Each loop iteration (`IsOutOfMemoryOnAllocation`) loads
   `num_bytes_allocated_` and decides: the allocation fits, is out of
   memory, or tries to raise the target.
3. The weak compare-exchange succeeds (`CasTarget`) or fails and refreshes
   `old_target` (`CasTargetFails`).
4. `DlMallocSpace::AllocNonvirtual` gets a chunk, or
   `AllocWithoutGrowthLocked` finds that `mspace_malloc` returned nullptr;
   for BumpPointer, `BumpPointerAllocNonvirtual` allocates the size rounded
   up to `kAlignment`, or finds the space full.
5. `CountAllocation` does the `fetch_add` of `BytesAllocated`: the
   usable size of the dlmalloc chunk (`UsableSize`: the request padded
   with the overhead to `MALLOC_ALIGNMENT`) plus `kChunkOverhead` (DlMalloc) or the rounded size (BumpPointer), and requests a concurrent GC past
   `concurrent_start_bytes_`.

On a failure, `AllocateInternalWithGc` collects the garbage and retries
with growth.  That function is outside the repository and is reduced here
to one collection and one retry.  A second failure returns nullptr, and the
arrays made so far become garbage.  `ConcurrentCollection` is the requested
collection.  `IsGcConcurrent()` is chosen in `Init`, so both heap kinds
are checked.

* `heap_footprint` (pass; 2 threads, `GrowthLimit = 9`, initial target 4,
  overhead 1, both alignments 2 units; dimensions `[2]`, `[1][1]`, `[0][1]`, `[1][1][1]`, `[-1][1]`;
  3 calls).  It checks:
  * `TargetGrowsWithinLimit`: `target_footprint_` never decreases and never
    passes `growth_limit_`.
  * `OvershootBounded`: `num_bytes_allocated_` stays within `growth_limit_`
    + (threads - 1) x largest charge + the most one charge exceeds its
    request (`MaxCharge`, `MaxUncounted`).  The check and the `fetch_add`
    are not atomic ("inherently approximate"), and the check sees neither
    the chunk overhead and dlmalloc's padding nor the bump-pointer
    rounding, which `TryToAllocate` applies after it.  TLC reaches the
    bound exactly for the bump-pointer heap (14 = 9 + 4 + 1), and comes
    within one unit of it for the DlMalloc heap (14 of 15: every dlmalloc
    charge is a multiple of the alignment), so the heap does pass
    `growth_limit_`.  The DlMalloc charge assumes mspace_malloc returns a
    chunk of exactly the padded request size; a real dlmalloc may return a
    free chunk up to one minimum chunk larger (a remainder too small to
    split), which would raise `MaxUncounted` by that slack.  The bound is
    checked for padded-size chunks only.
  * `MultiArrayShape`: a returned multi-array has the closed-form shape
    (d1 x ... x d(k-1) arrays of length dk at level k, in pre-order).
  * `AllocationsReturn`: every allocation returns.  The CAS loop
    terminates because a failure refreshes `old_target`.

  The bounds make both a three-level array and an out-of-memory failure
  partway through a multi-array happen.


### NativeLibraries (`NativeLibraries.tla`, `MCNativeLibraries.tla`)
Models `JavaVMExt::LoadNativeLibrary`, the `Libraries` map and
`SharedLibrary`'s JNI_OnLoad handshake, appended to
`large_object_space.cc`.  State: `libraries` (`libraries_`, path to
library id or `None`), `lib` (each `SharedLibrary`: state
unused/live/deleted, path, class loader, `jni_on_load_result_`,
`jni_on_load_thread_id_`), `loaderAlive` (the class loader's weak global),
`stack` (each thread's nested `LoadNativeLibrary` frames, with a pc),
`unloader`/`unloadList` (`UnloadNativeLibraries`' two phases) and
`retval`.  Each lock-delimited step of `LoadNativeLibrary` is one action:
`Lookup` (Get under `jni_libraries_lock_`), `CheckClassLoader`,
`RecursiveLoad`/`CheckOnLoadResult`, `OpenNativeLibrary` (dlopen succeeds
or fails), `PutLibrary`/`LoseRace` (second Get under the lock),
`LoadFromOnLoad` (JNI_OnLoad calling System.loadLibrary with the override
class loader) and `FinishOnLoad` (`SetResult`).  A deleted library keeps
its last contents, which is what a dangling read sees.  The GC may clear a
class loader no running load holds; `CollectUnloadable` erases its
libraries under the lock, `DeleteUnloaded` deletes them outside it.
A thread may also call a native method of a class of a live loader
(`native`): `StartNativeCall`, then `FindCodeForNativeMethod`, which
tries `FindNativeMethod` (under `jni_libraries_lock_`, the first library
of the declaring class's loader, `Searched`, whose dlsym finds the JNI
short or long name), then the TI agents' libraries
(`FindCodeForNativeMethodInAgents`; never unloaded), and otherwise throws
UnsatisfiedLinkError; `ReturnFromNative` ends the call.  `DeleteLibrary`
is `~SharedLibrary`, used by the loser of the put race and the unloader.  The running method
keeps its loader in use, so the GC cannot clear it meanwhile.

Fairness: each thread's step is weakly fair (a wait on
`jni_on_load_cond_` is enabled once the result is set, and `SetResult`
broadcasts); the unloader, once started, finishes.  Starting loads and
clearing loaders are not forced.

Runs (2 threads, library ids 1..4, nesting depth 2, 2 loads per thread):
* `native_libraries` (pass; one path, two class loaders): JNI_OnLoad of a
  path runs in at most one thread and for the library in the map
  (`SingleOnLoad`), every load returns
  (`LoadsReturn`), and native code a thread runs belongs to a library
  that has not been unloaded (`NativeCodeLoaded`; searching every
  library, whatever its loader, breaks it).  One path makes every load race or recurse on the same
  library; two loaders make the class-loader mismatch and unloading happen.
* `native_library_unload_uaf` (violation): a thread takes the library of a
  cleared loader from the map, drops the lock, and the unloader deletes it
  before `GetClassLoaderAllocator` reads it.

With two paths and one loader the same model shows two threads whose
JNI_OnLoads load each other's library waiting for ever in
`CheckOnLoadResult`; this is the documented JNI restriction on
cross-loading from JNI_OnLoad, so it is not kept as a run.

### JniReferences (`JniReferences.tla`, `MCJniReferences.tla`)
Models the global and weak-global reference tables of `JavaVMExt` with the
marvin no-swap flag, against a mark-sweep collection (`kUseReadBarrier`
false, the only build in which `DisallowNewWeakGlobals` runs).  State:
`globals`/`weak` (the tables' slots: an object, `Empty`, or the `Cleared`
sentinel), `allowWeak` (`allow_accessing_weak_globals_`), `noSwap` and
`stub` per object, `heap` (free/live), `locals` (objects each mutator
holds), the collector's `gc` phase, `marked` and `allocated` (objects
allocated since the pause, unmarked but not swept), `pc`/`arg` of a
thread blocked on `weak_globals_add_condition_`, `allocTracking`
(`allocation_tracking_enabled_`) and `fatal` (a full table's LOG(FATAL)).
Actions: `AddGlobalRef` (flag, Add under the lock, allocation tracking),
`DeleteGlobalRef`, `DecodeGlobal`, `AddWeakGlobalRef` (flag, then Add or
block), `AddWeakGlobalRefWoken`, `DeleteWeakGlobalRef`, `DecodeWeakGlobal`
(fast path or block), `DecodeWeakGlobalLocked`, `IsWeakGlobalCleared` and
`IsWeakGlobalClearedLocked` (its lock, wait and sentinel comparison);
the collector's
`DisallowNewWeakGlobals` (the pause, marking the roots),
`SweepJniWeakGlobals`, `SweepObjects` and `AllowNewWeakGlobals`; and
`SwapOut`, victim selection from the spec (any live object without the
flag).  Object graphs are left out: an object is reachable when a
mutator or a global holds it.

Fairness: a started collection finishes (weak fairness); a waiter is
woken by every broadcast but must reacquire `jni_weak_globals_lock_`
against the next pause, so its wake-up is strongly fair.

Runs (2 threads, 2 objects, one global slot, one weak slot: enough for
a table to fill, for an object to be freed and its address reused, and
for a thread to block while another proceeds):
* `jni_references` (pass): `HeldObjectsLive` (no mutator holds a swept
  object), `WeakClearedOnlyIfUnreachable` (the sweep clears a weak
  global only when nothing holds its object), `NativeRefsValid` (every
  object a table refers to is live and has the no-swap flag),
  `WaitersResume` (every blocked call returns, `IsWeakGlobalCleared`
  included).
* `jni_ref_to_stub` (violation): an object swapped out before
  `AddGlobalRef` gets the flag too late; the global reference refers to
  its stub.

### ObjectLifecycle (`ObjectLifecycle.tla`, `MCObjectLifecycle.tla`)
This module composes the heap's large-object entry point, `LargeObjectMapSpace`,
the large-object sweep and the table entries an object can own.

State:
* `large_objects` is `large_objects_`, from address to
  `[id, size, is_zygote]`. Addresses are pages 1..`MaxAddr`. `id` is a
  ghost identity, so that a new object at a reused address can be told
  apart from the old one.
* `begin_`, `end_`, `num_bytes` and `num_objects` are the space's fields.
* `live` and `mark` are the two bitmaps.
* `allocStack` holds the objects allocated since the last pause.
* `roots` are the ids the mutators still hold.
* `noSwap` and `stub` are the sets of ids with the no-swap flag and of ids
  that have been turned into stubs.
* `entry` maps a table slot to the `[addr, id]` it serves.
* `isZygote`, and the collector's `gc` phase, `todo` set and `freeing`
  address.

Actions:
* `AllocObjectWithAllocator` is the large branch of
  `Heap::AllocObjectWithAllocator`. It chooses through
  `ShouldAllocLargeObject` between `AllocLargeObject` and `AllocNormal`.
  `AllocLargeObject` leads to `Alloc`, which is `LargeObjectMapSpace::Alloc`
  under `lock_`. `AllocNormal` is a small request, or the recursive
  fallback when the mmap fails.
* `SetNoSwapFlag` is the later step of `AllocObjectWithAllocator` that
  reads `Runtime::IsZygote()` and sets the no-swap flag on the returned
  object (heap-inl.h 100-107).  It runs after `lock_` is released, so any
  other action, `SwapOut` included, can come between the mapping and the
  flag (`flagPending` holds the objects in that window).  The fork is taken
  only when no allocation is in that window, because the zygote forks from
  the thread that allocates.
* `SetAllLargeObjectsAsZygoteObjects` is taken at the fork.
* `MarkPause` and `SweepDone` are the collector's part, modelled from the
  spec.
* `Sweep` is `LargeObjectSpace::Sweep`, with `SwapBitmaps` or without it.
* `SweepCallback` handles one pointer and calls `Free`. `Free` is the first
  statement of `LargeObjectMapSpace::Free`, the `GcRecordFree` call.
  `FreeLocked` is the rest of `Free`, under `lock_`.
* `SwapOut` is the swap-out path, outside the repository. It takes a slot
  with `CreateEntry`.
* `GcRecordFree` releases the slot. `GcRecordFree`, `CreateEntry` and
  `SwapOut` are modelled from the spec.

Fairness is weak fairness on the collector, whose thread runs its cycle to
the end. Mutators and the swap-out path get no fairness.

Runs:
* `object_lifecycle` (pass; 3 objects, 4 pages, sizes 1 and 2 with
  threshold 2, 2 slots, no swap-out during a sweep). It checks three
  invariants and one liveness property:
  * `NoStaleEntry`: every occupied slot serves the object still mapped at
    its address.
  * `SweepFreesOnlyGarbage`: no held object is swept, including one
    allocated after the pause.
  * `GarbageFreed`: every dropped large object is eventually unmapped.
    This depends on `begin_`/`end_` covering it.

  No property says that zygote large objects never become stubs.  With the
  flag set after the mapping, TLC finds `SwapOut` taking an object between
  `Alloc` and `SetNoSwapFlag`, and the fork then marks it a zygote object
  (alloc, swap-out, flag, fork).  Whether the real swap-out can choose an
  object whose allocation has not returned is decided by victim selection,
  which is outside the repository, so the model cannot settle it either
  way.
  * `LosTypeOK`, including the bounds of the counters.

  Three objects on four pages are enough to reuse an address after a free,
  to place a mapping below `begin_` and another above `end_`, and to
  allocate during a sweep.
* `object_free_swap_race` (violation; swap-out may run during a sweep):
  1. `SweepCallback` calls `GcRecordFree` on a garbage object.
  2. `SwapOut` picks the still-mapped object and takes a slot.
  3. `FreeLocked` erases the mapping, and the slot outlives it.

## 4. Findings

See `findings` in `PROJECT.json`: the counter wrap (code bug, given the
kernel protocol above), the accessors that skip the stub check (reference
CAS/exchange, `GetFieldAcquire`, `*ViaAccessor`, `Array::CopyOf`), the use of a `SharedLibrary`
that class unloading may have deleted, the global reference to an
object that is already a stub, and the table entry created between
`GcRecordFree` and the erase in `LargeObjectMapSpace::Free`.

## 5. Not modelled

* Swap-out and victim selection (not in the repository, out of scope in the
  spec); the byte format and I/O of evicted payloads.
* The object model (layout, class metadata), marking/compaction, TLABs
  and the RosAlloc, Region, NonMoving and LOS cases of `TryToAllocate`,
  the BumpPointerSpace members other than `AllocNonvirtual` (declared
  only), instrumentation counters: they do not
  read or write swap state.
* Moving-collector updates of the reference tables (`UpdateGlobal`,
  `UpdateWeakGlobal`; `VisitRoots` only as the marking of the globals
  as roots in the pause), `TrimGlobals`, the read-barrier weak access path,
  `DecodeWeakGlobalDuringShutdown` (a thread-less decode at shutdown), the
  JNI invocation interface (`JII`: attach, detach and `GetEnv` only
  forward to `Runtime` and `Thread`, which are not in the repository),
  `UnloadLibraries`' dlsym of JNI_OnUnload (folded into `DeleteUnloaded`),
  a native method loading libraries through JNI, the boot class loader's
  libraries (never unloaded).
* In `LargeObjectMapSpace`, the following are not modelled:
  * `total_bytes_allocated_` and `total_objects_allocated_`: statistics that
    only grow and are never read back.
  * `AllocationSize`, `Walk`, `ForEachMemMap` and `Contains`: they only read
    state.
  * The mark-bit `CHECK` of `SetAllLargeObjectsAsZygoteObjects`.
  * The memory-tool subclass.
* `ReclamationTable::CreateTable`/`IsValid`: the table is created once.
  `CreateEntry` is declared not thread-safe.  Its body and every caller are
  outside `src/`, so no interleaving of callers exists in the code to check.
* The stub's header words (offsets below `sizeof(Object)`, which skip the
  preamble): what `Stub::PopulateFrom` copies into them is not in `src/`.
* `GetFieldObjectReferenceAddr` returns a raw payload pointer after the
  unlock.  The callers that keep it are the collector's visitors, which are
  not modelled.
* The heap's TLAB, RosAlloc and region allocators (their buffers come from
  `AllocWithNewTLAB` and the RosAlloc space, which are not in the
  repository), the instrumentation, allocation-stack and
  allocation-tracking hooks, and the bodies of `AllocateInternalWithGc`,
  dlmalloc's `mspace_malloc` and `BumpPointerSpace::AllocNonvirtual`
  (outside the repository: their success or failure is a nondeterministic
  choice, and dlmalloc's padding follows its `pad_request`).
  `FindArrayClass` is taken to succeed.
* `JNI_OnUnload` racing a reload of the same path: `UnloadNativeLibraries`
  calls it after dropping `jni_libraries_lock_`, so another class loader
  may load the same path meanwhile.  Whether the two `SharedLibrary`s
  share one dlopen handle and one copy of the library's globals is up to
  the native loader, outside the repository; the model gives each its own
  handle, and the hazard is listed without a property.
* The `LOG(FATAL)` of a full JNI reference table ends the runtime.  That
  abort is the intended behaviour, so no property is stated about it.
