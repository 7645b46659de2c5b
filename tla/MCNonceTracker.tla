--------------------------- MODULE MCNonceTracker ---------------------------
(* NonceTracker on a small instance; the bounds are in the configurations. *)
EXTENDS NonceTracker
=============================================================================
