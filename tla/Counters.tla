------------------------------ MODULE Counters ------------------------------
(***************************************************************************)
(* The uint64_t counters of struct Statistics (core/types.hpp).  They only *)
(* grow and no property depends on how large they get, so CountTo bounds   *)
(* them: where a property counts, CountTo is above every count reached;    *)
(* where traffic is endless, CountTo is 0 and nothing is counted.          *)
(***************************************************************************)
EXTENDS Naturals

CONSTANT CountTo

ASSUME CountToAssumption == CountTo \in Nat

Plus(c, k) == IF c + k < CountTo THEN c + k ELSE CountTo

Bump(c) == Plus(c, 1)
=============================================================================
