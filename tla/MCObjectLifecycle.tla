------------------------ MODULE MCObjectLifecycle ------------------------
EXTENDS ObjectLifecycle

CONSTANTS i1, i2, i3, s1, s2
MCIds == {i1, i2, i3}
MCSlots == {s1, s2}
=============================================================================
