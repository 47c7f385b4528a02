-------------------------------- MODULE MCContext --------------------------------
(* Model values for the run of Context.                                    *)
EXTENDS Context, TLC

CONSTANTS m, w, rtA, rtB

TwoThreads == {m, w}
TwoRuntimes == {rtA, rtB}

\* w is a worker of runtime A, m is outside any runtime.
HomeOfThreads == (m :> None) @@ (w :> rtA)
=============================================================================
