----------------------------- MODULE MCTimerList -----------------------------
(***************************************************************************)
(* TimerList for TLC: addresses and callback objects are model values.     *)
(* There is no symmetry, because the run checks liveness too.              *)
(***************************************************************************)
EXTENDS TimerList

CONSTANTS a1, a2, a3, o1, o2

ThreeAddr == {a1, a2, a3}
TwoOwners == {o1, o2}

=============================================================================
