----------------------------- MODULE MCBroadcast ----------------------------
(* Broadcast on a small instance; the bounds are in the configuration.     *)
EXTENDS Broadcast

CONSTANTS w1, w2

\* The writes differ only in which of them are registrations, which a state says.
Symmetry == Permutations(Ops)
=============================================================================
