---------------------------- MODULE TableRecovery ----------------------------
(***************************************************************************)
(* The entry handshake of TableEntry with the pause-time recovery of the   *)
(* reclamation table, ReclamationTable::UnlockAllEntries (declared in      *)
(* reclamation_table.h; its body and its caller are not in the             *)
(* repository, so it is modelled from the specification).  It clears the   *)
(* kernel-lock bit and zeroes app_lock_counter_ of every entry; its        *)
(* contract is that no thread, application or kernel, is inside a          *)
(* handshake on the table when it runs.                                    *)
(*                                                                         *)
(* After a reset the history variable `unlocks` counts the unlocks since   *)
(* the last UnlockAllEntries, so CounterAccounting keeps its meaning.      *)
(***************************************************************************)
EXTENDS TableEntry

\* Variant: the caller waits for the application threads only, not for a
\* kernel swap-in in progress.
UnlockAllEntriesAppsOnly ==
    /\ \A t \in Threads : pc[t] = "idle"
    /\ kernelLock' = FALSE
    /\ appLockCounter' = 0
    /\ unlocks' = 0
    /\ UNCHANGED <<pc, kpc, calls>>

\* UnlockAllEntries at a global pause: every thread is outside the
\* handshake (the kernel has not yet published its bit).
UnlockAllEntries ==
    /\ \A t \in Threads : pc[t] = "idle"
    /\ kpc \in {"kidle", "kwant"}
    /\ kernelLock' = FALSE
    /\ appLockCounter' = 0
    /\ unlocks' = 0
    /\ UNCHANGED <<pc, kpc, calls>>

RecoveryNext == EntryNext \/ UnlockAllEntries

(***************************************************************************)
(* The pause that runs UnlockAllEntries is the runtime's, not the table's: *)
(* the specification describes it as recurring bulk recovery.  It is       *)
(* assumed strongly fair, since it can only run when no thread is inside  *)
(* the handshake.                                                          *)
(***************************************************************************)
RecoverySpec ==
    EntryInit /\ [][RecoveryNext]_entryVars /\ EntryFairness
    /\ SF_entryVars(UnlockAllEntries)
=============================================================================
