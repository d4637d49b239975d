---------------------------- MODULE MCTableEntry ----------------------------
(* Model-checking instance of TableEntry: two application threads and the  *)
(* kernel path on one entry, with the code's 8-bit counter.                *)
EXTENDS TableEntry

CONSTANTS t1, t2

MCThreads == {t1, t2}

MCOneThread == {t1}
=============================================================================
