--------------------------- MODULE MCSubscription ---------------------------
(* Subscription on a small instance: two indexers, of which the validator  *)
(* lists both, the second alone, or none.                                  *)
EXTENDS Subscription

CONSTANTS i1, i2

MCLimits == {1, 2, Forever}

Entry(i, s) == [did |-> i, serves |-> TRUE, score |-> s]
MCListings == {<<>>, <<Entry(i2, 1)>>, <<Entry(i2, 1), Entry(i1, 2)>>}
=============================================================================
