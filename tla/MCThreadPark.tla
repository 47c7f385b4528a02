------------------------------ MODULE MCThreadPark ------------------------------
(* Model values for the runs of ThreadPark.                                *)
EXTENDS ThreadPark, TLC

CONSTANTS u1, u2, u3

ThreeUnparkers == {u1, u2, u3}

UnparkerSymmetry == Permutations(ThreeUnparkers)
=============================================================================
