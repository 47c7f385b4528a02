----------------------------- MODULE MCHandleBlockOn -----------------------------
(* Model values for the run of HandleBlockOn.                              *)
EXTENDS HandleBlockOn, TLC

CONSTANTS rtA, rtB, none
=============================================================================
