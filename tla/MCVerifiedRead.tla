--------------------------- MODULE MCVerifiedRead ---------------------------
(* VerifiedRead on a chain of a few blocks; see the configuration.         *)
EXTENDS VerifiedRead
=============================================================================
