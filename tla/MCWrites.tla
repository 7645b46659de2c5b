------------------------------ MODULE MCWrites ------------------------------
(* Writes on a small instance; the bounds are in the configuration.        *)
EXTENDS Writes

CONSTANTS w1, w2

\* Without a consensus RPC; and with one, when posts may outlive their lease.
MCModes ==
  {[rpc |-> FALSE, timely |-> TRUE, handouts |-> 3], [rpc |-> TRUE, timely |-> FALSE, handouts |-> 2]}

\* The writes differ only in which of them are registrations, which a state says.
Symmetry == Permutations(Ops)
=============================================================================
