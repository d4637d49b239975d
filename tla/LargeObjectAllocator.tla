------------------------- MODULE LargeObjectAllocator -------------------------
(***************************************************************************)
(* What a large-object space promises its callers (Heap::AllocLargeObject  *)
(* and the sweeper): an allocation of n pages returns n pages of the space *)
(* that no live object occupies, or nullptr only when no n free contiguous *)
(* pages exist; a free releases exactly the object freed.  This is the     *)
(* abstract specification FreeListSpace is shown to implement.            *)
(***************************************************************************)
EXTENDS Integers

CONSTANTS Capacity,       \* pages in the space
          MaxAllocPages   \* largest request, in pages

VARIABLES objects,   \* live objects: [slot |-> first page, pages |-> length]
          result     \* what the last step returned: a slot, Null, or NoResult

vars == <<objects, result>>

Null == -1
NoResult == -2

Pages(o) == o.slot .. (o.slot + o.pages - 1)
Occupied == UNION {Pages(o) : o \in objects}
Fits(s, n) == s + n <= Capacity /\ (s .. (s + n - 1)) \cap Occupied = {}
RoomFor(n) == \E s \in 0 .. (Capacity - 1) : Fits(s, n)

Init == objects = {} /\ result = NoResult

Alloc(n) ==
    \E s \in 0 .. (Capacity - 1) :
        /\ Fits(s, n)
        /\ objects' = objects \cup {[slot |-> s, pages |-> n]}
        /\ result' = s

AllocFail(n) ==
    /\ ~RoomFor(n)
    /\ result' = Null
    /\ UNCHANGED objects

Free(o) ==
    /\ o \in objects
    /\ objects' = objects \ {o}
    /\ result' = NoResult

\* Steps that return nothing and leave the objects alone.
Other ==
    /\ result' = NoResult
    /\ UNCHANGED objects

Next ==
    \/ \E n \in 1 .. MaxAllocPages : Alloc(n) \/ AllocFail(n)
    \/ \E o \in objects : Free(o)
    \/ Other

Spec == Init /\ [][Next]_vars
=============================================================================
