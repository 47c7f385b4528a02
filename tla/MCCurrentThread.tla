----------------------------- MODULE MCCurrentThread -----------------------------
(* Model values for the runs of CurrentThread.                             *)
EXTENDS CurrentThread

CONSTANTS r1, t1, t2, h1

OneRemote == {r1}
TwoLocal == {t1, t2}
OneHandleTask == {h1}
=============================================================================
