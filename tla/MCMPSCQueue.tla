---------------------------- MODULE MCMPSCQueue ----------------------------
(***************************************************************************)
(* Instances of MPSCQueue for TLC.                                         *)
(***************************************************************************)
EXTENDS MPSCQueue

CONSTANTS p1, p2, c

MCProducers == {p1, p2}
=============================================================================
