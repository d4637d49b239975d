----------------------------- MODULE EntryLock -----------------------------
(***************************************************************************)
(* What the per-entry handshake of a reclamation-table slot promises: an   *)
(* exclusion between the kernel-side swap-in path and application threads.*)
(* Application threads do not exclude one another; the kernel excludes     *)
(* all of them.  This is the abstract specification that TableEntry        *)
(* (LockFromAppThread / UnlockFromAppThread against the kernel lock bit)   *)
(* is shown to implement.                                                  *)
(***************************************************************************)
CONSTANT Threads

VARIABLES appIn,      \* application threads between lock and unlock
          kernelIn    \* the kernel path is inside its critical section

vars == <<appIn, kernelIn>>

Init == appIn = {} /\ kernelIn = FALSE

AppAcquire(t) ==
    /\ ~kernelIn
    /\ t \notin appIn
    /\ appIn' = appIn \cup {t}
    /\ UNCHANGED kernelIn

AppRelease(t) ==
    /\ t \in appIn
    /\ appIn' = appIn \ {t}
    /\ UNCHANGED kernelIn

KernelAcquire ==
    /\ appIn = {}
    /\ ~kernelIn
    /\ kernelIn' = TRUE
    /\ UNCHANGED appIn

KernelRelease ==
    /\ kernelIn
    /\ kernelIn' = FALSE
    /\ UNCHANGED appIn

Next ==
    \/ \E t \in Threads : AppAcquire(t) \/ AppRelease(t)
    \/ KernelAcquire
    \/ KernelRelease

Spec == Init /\ [][Next]_vars
=============================================================================
