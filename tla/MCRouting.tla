------------------------------ MODULE MCRouting -----------------------------
(* Routing on a small instance: the validator lists two serving indexers   *)
(* of equal score and an inactive one of a better score, or none.          *)
EXTENDS Routing

CONSTANTS i1, i2, i3, q1, q2

Entry(i, s, on) == [did |-> i, serves |-> on, score |-> s]
MCListings == {<<>>, <<Entry(i2, 1, TRUE), Entry(i3, 3, FALSE), Entry(i1, 1, TRUE)>>}
=============================================================================
