---------------------------- MODULE FieldRegister ----------------------------
(***************************************************************************)
(* What the stub protocol promises the code that accesses a field (spec 1  *)
(* and 4.3): the accessing code cannot tell that a swap happened.  A field *)
(* of a swapped-out object behaves as an ordinary field that each accessor *)
(* reads, writes or compares-and-sets at one instant between its call and  *)
(* its return.                                                             *)
(*                                                                         *)
(* An operation is a record [kind, val, exp]: "get", "set" of val, and the *)
(* strong ("cas") or weak ("casweak") compare-and-set of exp to val.  A    *)
(* weak compare-and-set may fail even when the field holds exp.            *)
(***************************************************************************)
CONSTANTS Threads,
          Operations,  \* the operations an accessor may be called for
          Idle,        \* no operation in progress
          V0           \* the field's value at the start

VARIABLES field,    \* the field's value
          pending,  \* the operation each thread has called and not returned
          applied,  \* has it taken effect?
          read,     \* the value each thread's last get returned
          ok        \* the bool each thread's last compare-and-set returned

regVars == <<field, pending, applied, read, ok>>

RegInit ==
    /\ field = V0
    /\ pending = [t \in Threads |-> Idle]
    /\ applied = [t \in Threads |-> FALSE]
    /\ read = [t \in Threads |-> V0]
    /\ ok = [t \in Threads |-> FALSE]

Call(t, o) ==
    /\ pending[t] = Idle
    /\ pending' = [pending EXCEPT ![t] = o]
    /\ UNCHANGED <<field, applied, read, ok>>

\* The outcomes a compare-and-set of kind k may have on the current field.
CasOutcomes(k, e) ==
    IF field # e THEN {FALSE} ELSE IF k = "cas" THEN {TRUE} ELSE BOOLEAN

\* The instant the operation takes effect.
Apply(t) ==
    LET o == pending[t] IN
    /\ o # Idle /\ ~applied[t]
    /\ applied' = [applied EXCEPT ![t] = TRUE]
    /\ \/ o.kind = "get" /\ read' = [read EXCEPT ![t] = field]
          /\ UNCHANGED <<field, ok>>
       \/ o.kind = "set" /\ field' = o.val
          /\ UNCHANGED <<read, ok>>
       \/ o.kind \in {"cas", "casweak"}
          /\ \E s \in CasOutcomes(o.kind, o.exp) :
                /\ ok' = [ok EXCEPT ![t] = s]
                /\ field' = IF s THEN o.val ELSE field
          /\ UNCHANGED read
    /\ UNCHANGED pending

Return(t) ==
    /\ applied[t]
    /\ pending' = [pending EXCEPT ![t] = Idle]
    /\ applied' = [applied EXCEPT ![t] = FALSE]
    /\ UNCHANGED <<field, read, ok>>

RegNext == \E t \in Threads : (\E o \in Operations : Call(t, o)) \/ Apply(t) \/ Return(t)

RegSpec == RegInit /\ [][RegNext]_regVars
=============================================================================
