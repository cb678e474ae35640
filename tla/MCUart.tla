------------------------------- MODULE MCUart -------------------------------
(* Model values and symmetry for the runs of Uart. *)
EXTENDS UartRefinement, TLC

CONSTANTS t1, t2, t3

MCThread == {t1, t2, t3}
Symmetry == Permutations(MCThread)
=============================================================================
