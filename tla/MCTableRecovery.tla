--------------------------- MODULE MCTableRecovery ---------------------------
(* Model-checking instance of TableRecovery: two application threads, the  *)
(* kernel path and pause-time resets on one entry, 8-bit counter.          *)
EXTENDS TableRecovery

CONSTANTS t1, t2

MCThreads == {t1, t2}
=============================================================================
