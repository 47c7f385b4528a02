----------------------------- MODULE MCMultiThread -----------------------------
(* Model values and symmetry for the runs of MultiThread.                  *)
EXTENDS MultiThread, TLC

CONSTANTS w1, w2, s1, main, t1, t2, t3

TwoWorkers == {w1, w2}
OneSpawner == {s1}
NoTasks == {}
OneTask == {t1}
TwoTasks == {t1, t2}
InnerTask == {t3}

AllUpsets == UpsetKinds
OnlyPanic == {"panic"}
NoUpsets == {}

WorkerSymmetry == Permutations(TwoWorkers)
=============================================================================
