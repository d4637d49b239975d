---------------------------- MODULE MCStubAccess ----------------------------
(* Model-checking instance of StubAccess.                                  *)
EXTENDS StubAccess

CONSTANTS t1, t2, v1, v2, undef

MCThreads == {t1, t2}
MCOneThread == {t1}
MCValues == {v1, v2}
=============================================================================
