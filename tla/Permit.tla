--------------------------------- MODULE Permit ---------------------------------
(***************************************************************************)
(* What a thread parker promises: unpark() leaves a permit, park() comes   *)
(* back with it or for no reason at all, and nothing but the return of     *)
(* park() ever takes a permit away.                                        *)
(***************************************************************************)
VARIABLES permit, parked

Init == permit = FALSE /\ parked = FALSE

Park == ~parked /\ parked' = TRUE /\ UNCHANGED permit

Unpark == permit' = TRUE /\ UNCHANGED parked

Return == parked /\ parked' = FALSE /\ permit' = FALSE

Next == Park \/ Unpark \/ Return

Spec == Init /\ [][Next]_<<permit, parked>>
=============================================================================
