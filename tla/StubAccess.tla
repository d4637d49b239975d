----------------------------- MODULE StubAccess -----------------------------
(***************************************************************************)
(* The stub-indirection protocol on one swapped-out object.               *)
(*                                                                         *)
(* The object's address holds a stub whose table entry is a TableEntry.    *)
(* A hooked field accessor on the stub (SWAP_PREAMBLE in the accessors of  *)
(* object-inl.h; written out in SetFieldObjectWithoutWriteBarrier) locks   *)
(* the entry, swaps the payload in if the resident bit is clear, forwards  *)
(* the field operation to the payload, refreshes the stub from the payload *)
(* (PopulateFrom) and unlocks.  The kernel path swaps the payload in under *)
(* the kernel-lock bit.  Accessors without the preamble are added in       *)
(* StubBypass.                                                             *)
(*                                                                         *)
(* The data is one reference field of the object: its value in secondary  *)
(* storage, in the resident payload and in the stub's memory.  A ghost     *)
(* register holds the value the last write through any accessor wrote.    *)
(***************************************************************************)
EXTENDS TableEntry, Functions, TLC

CONSTANTS Values,    \* values a reference field can hold
          V0,        \* the field's value when the object was swapped out
          Undef,     \* contents of object_address_ while non-resident
          Ops        \* hooked accessor kinds: "get", "set", "cas", "casweak"

ASSUME V0 \in Values /\ Undef \notin Values
ASSUME Ops \subseteq {"get", "set", "cas", "casweak"}

VARIABLES resident,   \* RESIDENT_BIT of the entry
          backing,    \* the field in the evicted copy (secondary storage)
          payload,    \* the field in the resident payload at object_address_
          stubField,  \* the stub's own memory at the field's offset
          op,         \* the accessor each thread is running
          step,       \* where a thread holding the entry is in the accessor
          reg,        \* ghost: value of the last write through any accessor
          casOk,      \* the bool each thread's last CAS returned
          got         \* the value each thread's last hooked read returned

stubVars == <<resident, backing, payload, stubField, op, step, reg, casOk, got>>
vars == <<entryVars, stubVars>>

-----------------------------------------------------------------------------
(* The accessors of object-inl.h and array.cc that run                     *)
(* SWAP_PREAMBLE_TEMPLATE(_VOID) / SWAP_PREAMBLE_VOID, by the operation    *)
(* the preamble forwards to the object at GetObjectAddress().  The         *)
(* primitive accessors run it only for field_offset >= sizeof(Object); the *)
(* modelled field lies past the header, so for it every one of them is    *)
(* hooked.  Volatile and Transaction variants call these and are hooked    *)
(* through them.                                                            *)
Accessors8 ==
    [GetFieldByte |-> "get", SetFieldBoolean |-> "set", SetFieldByte |-> "set"]
Accessors16 ==
    [GetFieldChar |-> "get", GetFieldShort |-> "get",
     SetFieldChar |-> "set", SetFieldShort |-> "set"]
Accessors32 == [SetField32 |-> "set"]
Accessors64 == [SetField64 |-> "set", SetField64Volatile |-> "set"]
AccessorsCas64 ==
    [CasFieldWeakSequentiallyConsistent64 |-> "casweak",
     CasFieldStrongSequentiallyConsistent64 |-> "cas"]
AccessorsObjectGet == [GetFieldObject |-> "get"]
AccessorsObjectSet ==
    [SetFieldObjectWithoutWriteBarrier |-> "set", SetFieldObject |-> "set"]
\* SizeOf and the collector's reference visitors read the payload.
AccessorsSizeOf == [SizeOf |-> "get"]
AccessorsVisit ==
    [VisitFieldsReferences |-> "get", VisitStaticFieldsReferences |-> "get"]
\* Array::ThrowArrayIndexOutOfBoundsException / ThrowArrayStoreException
\* read the length and class of the payload.
ArrayAccessors ==
    [ThrowArrayIndexOutOfBoundsException |-> "get", ThrowArrayStoreException |-> "get"]

HookedAccessors ==
    Accessors8 @@ Accessors16 @@ Accessors32 @@ Accessors64 @@ AccessorsCas64
    @@ AccessorsObjectGet @@ AccessorsObjectSet @@ AccessorsSizeOf
    @@ AccessorsVisit @@ ArrayAccessors

CasKinds == {"cas", "casweak"}
NoOp == [kind |-> "none", val |-> Undef, exp |-> Undef]
\* The operations a hooked accessor forwards, for the kinds in Ops.
HookedOps ==
    LET K == Range(HookedAccessors) \cap Ops IN
    {[kind |-> k, val |-> Undef, exp |-> Undef] : k \in {"get"} \cap K}
    \cup {[kind |-> k, val |-> v, exp |-> Undef] : k \in {"set"} \cap K, v \in Values}
    \cup {[kind |-> k, val |-> v, exp |-> e] : k \in CasKinds \cap K, v, e \in Values}
Steps == {"none", "check", "swapin", "forward", "populate", "done"}

Init ==
    /\ EntryInit
    /\ resident = FALSE
    /\ backing = V0
    /\ payload = Undef
    /\ stubField = V0
    /\ op = [t \in Threads |-> NoOp]
    /\ step = [t \in Threads |-> "none"]
    /\ reg = V0
    /\ casOk = [t \in Threads |-> FALSE]
    /\ got = [t \in Threads |-> V0]

-----------------------------------------------------------------------------
(* A hooked accessor on a stub: if (GetStubFlag()) { LockTableEntry(); ... *)
BeginAccess(t, o) ==
    /\ CallLock(t)
    /\ op' = [op EXCEPT ![t] = o]
    /\ UNCHANGED <<resident, backing, payload, stubField, step, reg, casOk, got>>

\* LockFromAppThread returns: the accessor body starts.
Locked(t) ==
    /\ LockIncr2(t)
    /\ step' = [step EXCEPT ![t] = "check"]
    /\ UNCHANGED <<resident, backing, payload, stubField, op, reg, casOk, got>>

\* if (!stub->GetTableEntry()->GetResidentBit()) SwapInOnDemand(stub);
CheckResident(t) ==
    /\ step[t] = "check"
    /\ step' = [step EXCEPT ![t] = IF resident THEN "forward" ELSE "swapin"]
    /\ UNCHANGED <<entryVars, resident, backing, payload, stubField, op, reg, casOk, got>>

\* Variant: the resident bit is set but the payload is not copied in.
SwapInBitOnly(t) ==
    /\ step[t] = "swapin"
    /\ resident' = TRUE
    /\ step' = [step EXCEPT ![t] = "forward"]
    /\ UNCHANGED <<entryVars, backing, payload, stubField, op, reg, casOk, got>>

\* SwapInOnDemand: repopulate the payload from secondary storage and set the
\* resident bit (modelled from the specification).
SwapInOnDemand(t) ==
    /\ step[t] = "swapin"
    /\ payload' = backing
    /\ resident' = TRUE
    /\ step' = [step EXCEPT ![t] = "forward"]
    /\ UNCHANGED <<entryVars, backing, stubField, op, reg, casOk, got>>

\* The original operation applied to the object at GetObjectAddress().
Forward(t) ==
    /\ step[t] = "forward"
    /\ op[t].kind \notin CasKinds
    /\ IF op[t].kind = "set"
         THEN payload' = op[t].val /\ reg' = op[t].val /\ UNCHANGED got
         ELSE got' = [got EXCEPT ![t] = payload] /\ UNCHANGED <<payload, reg>>
    /\ step' = [step EXCEPT ![t] = "populate"]
    /\ UNCHANGED <<entryVars, resident, backing, stubField, op, casOk>>

\* Variant: the strong CAS behaves like the weak one.
CompareAndSetStrongSpurious(cur, exp) == IF cur = exp THEN BOOLEAN ELSE {FALSE}

\* CompareAndSetStrongSequentiallyConsistent at this + field_offset: it
\* succeeds exactly when the field holds the expected value.
CompareAndSetStrong(cur, exp) == {cur = exp}

\* CompareAndSetWeakSequentiallyConsistent may also fail spuriously.
CompareAndSetWeak(cur, exp) == IF cur = exp THEN BOOLEAN ELSE {FALSE}

\* CasField{Weak,Strong}SequentiallyConsistent64 forwarded by the preamble
\* to the object at GetObjectAddress().
ForwardCas(t) ==
    /\ step[t] = "forward"
    /\ op[t].kind \in CasKinds
    /\ \E ok \in IF op[t].kind = "cas" THEN CompareAndSetStrong(payload, op[t].exp)
                                      ELSE CompareAndSetWeak(payload, op[t].exp) :
          /\ casOk' = [casOk EXCEPT ![t] = ok]
          /\ IF ok THEN payload' = op[t].val /\ reg' = op[t].val
                  ELSE UNCHANGED <<payload, reg>>
    /\ step' = [step EXCEPT ![t] = "populate"]
    /\ UNCHANGED <<entryVars, resident, backing, stubField, op, got>>

\* stub->PopulateFrom(stub->GetObjectAddress());
PopulateFrom(t) ==
    /\ step[t] = "populate"
    /\ stubField' = payload
    /\ step' = [step EXCEPT ![t] = "done"]
    /\ UNCHANGED <<entryVars, resident, backing, payload, op, reg, casOk, got>>

\* stub->UnlockTableEntry(); return;
EndAccess(t) ==
    /\ step[t] = "done"
    /\ UnlockFromAppThread(t)
    /\ step' = [step EXCEPT ![t] = "none"]
    /\ op' = [op EXCEPT ![t] = NoOp]
    /\ UNCHANGED <<resident, backing, payload, stubField, reg, casOk, got>>

-----------------------------------------------------------------------------
(* Kernel path: it faults only on a non-resident payload and populates it  *)
(* while it holds the kernel-lock bit.                                     *)
StubKernelFault ==
    /\ ~resident
    /\ KernelFault
    /\ UNCHANGED stubVars

StubKernelRelease ==
    /\ KernelRelease
    /\ payload' = IF resident THEN payload ELSE backing
    /\ resident' = TRUE
    /\ UNCHANGED <<backing, stubField, op, step, reg, casOk, got>>

\* The threads have made all their accesses and the entry is at rest.
Quiescent ==
    /\ calls = MaxCalls
    /\ \A t \in Threads : pc[t] = "idle"
    /\ kpc = "kidle"
    /\ UNCHANGED vars

HandshakeStep(t) ==
    \/ LockSpin1(t) \/ LockIncr1(t) \/ LockSpin2(t)

Next ==
    \/ \E t \in Threads :
          \/ \E o \in HookedOps : BeginAccess(t, o)
          \/ HandshakeStep(t) /\ UNCHANGED stubVars
          \/ Locked(t) \/ CheckResident(t) \/ SwapInOnDemand(t)
          \/ Forward(t) \/ ForwardCas(t) \/ PopulateFrom(t) \/ EndAccess(t)
    \/ StubKernelFault
    \/ (KernelSetLock \/ KernelBackOff \/ KernelEnter) /\ UNCHANGED stubVars
    \/ StubKernelRelease
    \/ Quiescent

Spec == Init /\ [][Next]_vars

-----------------------------------------------------------------------------
StubTypeOK ==
    /\ EntryTypeOK
    /\ resident \in BOOLEAN
    /\ backing \in Values
    /\ payload \in IF resident THEN Values ELSE Values \cup {Undef}
    /\ stubField \in Values
    /\ op \in [Threads -> HookedOps \cup {NoOp}]
    /\ step \in [Threads -> Steps]
    /\ reg \in Values
    /\ casOk \in [Threads -> BOOLEAN]
    /\ got \in [Threads -> Values \cup {Undef}]

\* The field read through the stub is the last value written through any
\* accessor: the resident payload once the resident bit is set, the evicted
\* copy before.  A write applied to a payload that a later swap-in replaces,
\* or applied to the stub instead of the payload, breaks it.
Coherent == IF resident THEN payload = reg ELSE backing = reg

\* The field of a swapped-out object behaves as an ordinary field (spec 1,
\* 4.3): every hooked accessor, whatever its width, takes effect at one
\* instant between its call and its return, reads see the last write, and a
\* compare-and-set succeeds exactly when the field held the expected value
\* (the weak one may also fail).  The field is the resident payload once
\* the resident bit is set and the evicted copy before; the instant is the
\* forwarded operation.  A read of a payload not yet swapped in, a write a
\* later swap-in overwrites, or a strong CAS that fails spuriously breaks it.
Register == INSTANCE FieldRegister WITH
    Operations <- HookedOps, Idle <- NoOp,
    field <- IF resident THEN payload ELSE backing,
    pending <- op,
    applied <- [t \in Threads |-> step[t] \in {"populate", "done"}],
    read <- got,
    ok <- casOk

ImplementsFieldRegister == Register!RegSpec
=============================================================================
