----------------------------- MODULE TableEntry -----------------------------
(***************************************************************************)
(* One slot of the reclamation table (niel::swap::TableEntry) and the      *)
(* handshake that application threads run on it against the kernel-side   *)
(* swap-in path.                                                           *)
(*                                                                         *)
(* Application side (object-inl.h, TableEntry::LockFromAppThread and       *)
(* UnlockFromAppThread): every load of the kernel-lock bit and every       *)
(* increment of app_lock_counter_ is its own atomic step, so the lock is   *)
(* four steps (spin, increment, spin, increment) and the unlock one        *)
(* (decrement).  The counter is a std::atomic<uint8_t>: it wraps modulo    *)
(* 2^CounterWidth.                                                         *)
(*                                                                         *)
(* Kernel side: not part of this repository.  It is modelled from the      *)
(* specification: it is the only writer of the kernel-lock bit and the     *)
(* reader of app_lock_counter_.  It publishes the bit first and then reads *)
(* the counter; a non-zero counter makes it clear the bit and retry.       *)
(***************************************************************************)
EXTENDS Naturals, FiniteSets, FiniteSetsExt

CONSTANTS Threads,       \* application threads touching this entry
          CounterWidth,  \* bits of app_lock_counter_ (8 in the code)
          MaxCalls       \* bound on LockFromAppThread calls in a behaviour

ASSUME CounterWidth \in Nat \ {0} /\ MaxCalls \in Nat

CounterMod == 2 ^ CounterWidth

VARIABLES kernelLock,      \* KERNEL_LOCK_BIT of bit_flags_
          appLockCounter,  \* app_lock_counter_
          pc,              \* where each application thread is in the handshake
          kpc,             \* where the kernel path is
          calls,           \* LockFromAppThread calls made so far (bound only)
          unlocks          \* UnlockFromAppThread calls completed (history)

entryVars == <<kernelLock, appLockCounter, pc, kpc, calls, unlocks>>

AppPCs    == {"idle", "spin1", "incr1", "spin2", "incr2", "held"}
KernelPCs == {"kidle", "kwant", "kcheck", "kheld"}

EntryInit ==
    /\ kernelLock = FALSE
    /\ appLockCounter = 0
    /\ pc = [t \in Threads |-> "idle"]
    /\ kpc = "kidle"
    /\ calls = 0
    /\ unlocks = 0

IncrMod(n) == (n + 1) % CounterMod
DecrMod(n) == (n + CounterMod - 1) % CounterMod

Goto(t, from, to) == pc[t] = from /\ pc' = [pc EXCEPT ![t] = to]

-----------------------------------------------------------------------------
(* Application thread: TableEntry::LockFromAppThread.                      *)

\* An accessor on a stub calls LockFromAppThread.
CallLock(t) ==
    /\ calls < MaxCalls
    /\ Goto(t, "idle", "spin1")
    /\ calls' = calls + 1
    /\ UNCHANGED <<kernelLock, appLockCounter, kpc, unlocks>>

\* while (GetKernelLockBit()) continue;  -- the load that ends the loop.
LockSpin1(t) ==
    /\ ~kernelLock
    /\ Goto(t, "spin1", "incr1")
    /\ UNCHANGED <<kernelLock, appLockCounter, kpc, calls, unlocks>>

\* IncrAppLockCounter();
LockIncr1(t) ==
    /\ Goto(t, "incr1", "spin2")
    /\ appLockCounter' = IncrMod(appLockCounter)
    /\ UNCHANGED <<kernelLock, kpc, calls, unlocks>>

\* Variant: a lock that checks the bit only once, before its first increment.
LockSpin2Unchecked(t) ==
    /\ Goto(t, "spin2", "incr2")
    /\ UNCHANGED <<kernelLock, appLockCounter, kpc, calls, unlocks>>

\* second while (GetKernelLockBit()) continue;
LockSpin2(t) ==
    /\ ~kernelLock
    /\ Goto(t, "spin2", "incr2")
    /\ UNCHANGED <<kernelLock, appLockCounter, kpc, calls, unlocks>>

\* second IncrAppLockCounter(); LockFromAppThread returns.
LockIncr2(t) ==
    /\ Goto(t, "incr2", "held")
    /\ appLockCounter' = IncrMod(appLockCounter)
    /\ UNCHANGED <<kernelLock, kpc, calls, unlocks>>

\* Variant: an unlock that balances the two increments.
UnlockDecrTwice(t) ==
    /\ Goto(t, "held", "idle")
    /\ appLockCounter' = DecrMod(DecrMod(appLockCounter))
    /\ unlocks' = unlocks + 1
    /\ UNCHANGED <<kernelLock, kpc, calls>>

\* Variant: an accessor path that unlocks and still runs as the holder, so
\* that it unlocks again.
UnlockStaysHeld(t) ==
    /\ pc[t] = "held"
    /\ appLockCounter' = DecrMod(appLockCounter)
    /\ unlocks' = unlocks + 1
    /\ UNCHANGED <<kernelLock, pc, kpc, calls>>

\* TableEntry::UnlockFromAppThread: DecrAppLockCounter(), once.
UnlockFromAppThread(t) ==
    /\ Goto(t, "held", "idle")
    /\ appLockCounter' = DecrMod(appLockCounter)
    /\ unlocks' = unlocks + 1
    /\ UNCHANGED <<kernelLock, kpc, calls>>

-----------------------------------------------------------------------------
(* Kernel-side swap-in path (modelled from the specification).             *)

\* A page fault on the entry's payload makes the kernel want the entry.
KernelFault ==
    /\ kpc = "kidle"
    /\ kpc' = "kwant"
    /\ UNCHANGED <<kernelLock, appLockCounter, pc, calls, unlocks>>

\* SetKernelLockBit(): publish the intent before looking at the counter.
KernelSetLock ==
    /\ kpc = "kwant"
    /\ kpc' = "kcheck"
    /\ kernelLock' = TRUE
    /\ UNCHANGED <<appLockCounter, pc, calls, unlocks>>

\* Variant: a back-off that forgets to clear the bit.
KernelBackOffKeepsBit ==
    /\ kpc = "kcheck"
    /\ appLockCounter # 0
    /\ kpc' = "kwant"
    /\ UNCHANGED <<kernelLock, appLockCounter, pc, calls, unlocks>>

\* Application threads are inside the handshake: ClearKernelLockBit(), retry.
KernelBackOff ==
    /\ kpc = "kcheck"
    /\ appLockCounter # 0
    /\ kpc' = "kwant"
    /\ kernelLock' = FALSE
    /\ UNCHANGED <<appLockCounter, pc, calls, unlocks>>

\* No application thread counted: the kernel owns the entry.
KernelEnter ==
    /\ kpc = "kcheck"
    /\ appLockCounter = 0
    /\ kpc' = "kheld"
    /\ UNCHANGED <<kernelLock, appLockCounter, pc, calls, unlocks>>

\* Swap-in done: ClearKernelLockBit().
KernelRelease ==
    /\ kpc = "kheld"
    /\ kpc' = "kidle"
    /\ kernelLock' = FALSE
    /\ UNCHANGED <<appLockCounter, pc, calls, unlocks>>

-----------------------------------------------------------------------------
AppStep(t) ==
    \/ CallLock(t) \/ LockSpin1(t) \/ LockIncr1(t)
    \/ LockSpin2(t) \/ LockIncr2(t) \/ UnlockFromAppThread(t)

KernelStep ==
    \/ KernelFault \/ KernelSetLock \/ KernelBackOff
    \/ KernelEnter \/ KernelRelease

EntryNext == (\E t \in Threads : AppStep(t)) \/ KernelStep

(***************************************************************************)
(* Fairness.  A spinning thread re-reads the bit for as long as it is set, *)
(* so a bit that is clear again and again is eventually seen clear: the    *)
(* two spin exits are strongly fair.  The other application steps and the  *)
(* kernel's steps once it wants the entry are straight-line code: weakly   *)
(* fair.  Calls and faults are made by the program and are not forced.     *)
(***************************************************************************)
EntryFairness ==
    /\ \A t \in Threads :
          /\ SF_entryVars(LockSpin1(t)) /\ SF_entryVars(LockSpin2(t))
          /\ WF_entryVars(LockIncr1(t)) /\ WF_entryVars(LockIncr2(t))
          /\ WF_entryVars(UnlockFromAppThread(t))
    /\ WF_entryVars(KernelSetLock) /\ WF_entryVars(KernelBackOff)
    /\ WF_entryVars(KernelEnter) /\ WF_entryVars(KernelRelease)

EntrySpec == EntryInit /\ [][EntryNext]_entryVars /\ EntryFairness

-----------------------------------------------------------------------------
(* Properties.                                                             *)

EntryTypeOK ==
    /\ kernelLock \in BOOLEAN
    /\ appLockCounter \in 0 .. CounterMod - 1
    /\ pc \in [Threads -> AppPCs]
    /\ kpc \in KernelPCs
    /\ calls \in 0 .. MaxCalls
    /\ unlocks \in 0 .. MaxCalls

\* Refinement: the handshake of LockFromAppThread/UnlockFromAppThread and
\* the kernel path implement the abstract entry lock, with the threads that
\* have returned from LockFromAppThread as its holders.  This says that no
\* application thread runs its accessor body while the kernel populates the
\* payload, in either order of arrival.
Abstract == INSTANCE EntryLock WITH
                appIn    <- {t \in Threads : pc[t] = "held"},
                kernelIn <- (kpc = "kheld")

ImplementsEntryLock == Abstract!Spec

\* The counter bookkeeping of the code: each completed lock/unlock pair
\* leaves one count behind (two increments, one decrement), and a thread
\* still in the handshake contributes the increments it has made so far,
\* all modulo 2^CounterWidth.
Contribution(t) ==
    CASE pc[t] \in {"idle", "spin1", "incr1"} -> 0
      [] pc[t] \in {"spin2", "incr2"}         -> 1
      [] pc[t] = "held"                       -> 2

CounterAccounting ==
    appLockCounter = (unlocks + MapThenSumSet(Contribution, Threads)) % CounterMod

\* Every thread that calls LockFromAppThread eventually returns from it,
\* however often the kernel faults on the entry.
LockReturns == \A t \in Threads : pc[t] = "spin1" ~> pc[t] = "held"
=============================================================================
