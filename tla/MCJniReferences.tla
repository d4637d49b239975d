--------------------------- MODULE MCJniReferences ---------------------------
EXTENDS JniReferences

CONSTANTS t1, t2, o1, o2, o3

MCThreads == {t1, t2}
MCObjects == {o1, o2, o3}
MCTwoObjects == {o1, o2}
=============================================================================
