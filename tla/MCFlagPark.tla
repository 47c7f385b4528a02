------------------------------- MODULE MCFlagPark -------------------------------
(* Model values for the run of FlagPark.                                   *)
EXTENDS FlagPark, TLC

CONSTANTS p, u1, u2

TwoUnparkers == {u1, u2}

UnparkerSymmetry == Permutations(TwoUnparkers)
=============================================================================
