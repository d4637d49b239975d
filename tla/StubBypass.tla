----------------------------- MODULE StubBypass -----------------------------
(***************************************************************************)
(* The stub protocol with the accessors that have no swap preamble.  Each  *)
(* computes the field's address as this + field_offset and acts on it; on  *)
(* a stub, `this` is the stub, so a write lands in the stub's memory and   *)
(* the payload never sees it, and a read returns the stub's copy.          *)
(*                                                                         *)
(*  - object-inl.h: GetFieldAcquire, GetPrimitiveFieldViaAccessor, the     *)
(*    Update*ViaAccessor family, CasFieldObjectWithoutWriteBarrier and     *)
(*    CasFieldObject, CompareAndExchangeFieldObject, ExchangeFieldObject;  *)
(*  - array.cc: Array::CopyOf, whose SWAP_PREAMBLE is commented out.       *)
(*                                                                         *)
(* kTransactionActive is false: transactions run only in the ahead-of-time *)
(* compiler, not in an application.                                       *)
(***************************************************************************)
EXTENDS StubAccess

\* An unhooked access by a thread that is not inside a hooked one.
RawAccess(t) ==
    /\ pc[t] = "idle"
    /\ calls < MaxCalls
    /\ calls' = calls + 1
    /\ UNCHANGED <<kernelLock, appLockCounter, pc, kpc, unlocks,
                   resident, backing, payload, op, step>>

RawRead(t) ==
    /\ RawAccess(t)
    /\ got' = [got EXCEPT ![t] = stubField]
    /\ UNCHANGED <<stubField, reg, casOk>>

RawWrite(t, v) ==
    /\ RawAccess(t)
    /\ stubField' = v
    /\ reg' = v
    /\ UNCHANGED <<got, casOk>>

RawCas(t, e, v, strong) ==
    /\ RawAccess(t)
    /\ \E s \in IF strong THEN CompareAndSetStrong(stubField, e)
                          ELSE CompareAndSetWeak(stubField, e) :
          /\ casOk' = [casOk EXCEPT ![t] = s]
          /\ IF s THEN stubField' = v /\ reg' = v
                  ELSE UNCHANGED <<stubField, reg>>
    /\ UNCHANGED got

\* An acquire load at this + field_offset.
GetFieldAcquire(t) == RawRead(t)

\* accessor->Access(addr) on this + field_offset, reading.
GetPrimitiveFieldViaAccessor(t) == RawRead(t)

\* memcpy from h_this->GetRawData(...) into the new array.
CopyOf(t) == RawRead(t)

\* UpdateField{Boolean,Byte,Char,Short,32,64}ViaAccessor: accessor->Access
\* on this + field_offset, writing.
UpdateFieldViaAccessor(t, v) == RawWrite(t, v)

\* An atomic CompareAndSet at this + field_offset, strong or weak by mode;
\* CasFieldObject adds the write barrier.
CasFieldObjectWithoutWriteBarrier(t, e, v) ==
    \E strong \in BOOLEAN : RawCas(t, e, v, strong)

\* compare_exchange_strong at this + field_offset.
CompareAndExchangeFieldObject(t, e, v) == RawCas(t, e, v, TRUE)

\* An atomic exchange at this + field_offset.
ExchangeFieldObject(t, v) == RawWrite(t, v)

BypassNext ==
    \/ Next
    \/ \E t \in Threads :
          \/ GetFieldAcquire(t) \/ GetPrimitiveFieldViaAccessor(t) \/ CopyOf(t)
          \/ \E v \in Values :
                \/ UpdateFieldViaAccessor(t, v) \/ ExchangeFieldObject(t, v)
                \/ \E e \in Values : \/ CasFieldObjectWithoutWriteBarrier(t, e, v)
                                     \/ CompareAndExchangeFieldObject(t, e, v)

BypassSpec == Init /\ [][BypassNext]_vars
=============================================================================
