-------------------------- MODULE MCNativeLibraries --------------------------
EXTENDS NativeLibraries

CONSTANTS t1, t2, p1, p2, l1, l2

MCThreads == {t1, t2}
MCOnePath == {p1}
MCTwoPaths == {p1, p2}
MCOneLoader == {l1}
MCTwoLoaders == {l1, l2}
MCLibIds == 1 .. 4
=============================================================================
