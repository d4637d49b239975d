---------------------------- MODULE MCStubBypass ----------------------------
(* Model-checking instance of StubBypass.                                  *)
EXTENDS StubBypass

CONSTANTS t1, v1, v2, undef

MCOneThread == {t1}
MCValues == {v1, v2}
=============================================================================
