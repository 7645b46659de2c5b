------------------------------- MODULE TxNode -------------------------------
(***************************************************************************)
(* The consensus node, and the API in front of it, as the clients in       *)
(* src/willow use them for the transactions of one DID.  The node is not   *)
(* in the repository: this is what README.md ("Nonces") and the comments   *)
(* of nonces.py and client.py say of it, and what their refusal patterns   *)
(* distinguish.                                                            *)
(*                                                                         *)
(* A transaction is [op, nonce]: the write it is of and the nonce it is    *)
(* signed under.  Its bytes are those two: a copy sent again is the same   *)
(* transaction, the same write under another nonce is a different one.     *)
(***************************************************************************)
EXTENDS Integers, Sequences, SequencesExt, FiniteSets

CONSTANTS
  Ops,        \* the writes the application makes
  NodeWindow  \* how many nonces above the base CheckTx admits

VARIABLES
  mempool,    \* transactions CheckTx admitted, not yet in a block
  landed,     \* transactions in blocks, in order: each used its nonce
  net         \* copies on their way to the node after their request failed

nodeVars == <<mempool, landed, net>>

Tx(w, n) == [op |-> w, nonce |-> n]

NodeInit == mempool = {} /\ landed = << >> /\ net = {}

-----------------------------------------------------------------------------
\* The state after k transactions landed: the base advances only over used
\* nonces with no gap below them.  An answer may be of any earlier state.
UsedAfter(k) == {landed[i].nonce : i \in 1..k}
BaseAfter(k) == CHOOSE b \in 0..k : 1..b \subseteq UsedAfter(k) /\ b + 1 \notin UsedAfter(k)
AboveAfter(k) == {n \in UsedAfter(k) : n > BaseAfter(k)}
Answers == 0..Len(landed)

Landed == ToSet(landed)
NonceUsed(n) == n \in UsedAfter(Len(landed))
HeldByOther(t) == \E u \in mempool : u.nonce = t.nonce /\ u # t
PastWindow(n) == n > BaseAfter(Len(landed)) + NodeWindow

\* What CheckTx can answer of t: "ok" admits it, or finds its exact bytes in
\* the cache of what was admitted; "refused" is a rule (a balance, a subgrove
\* that must exist, the window), checked before the nonce; "held" and "used"
\* are the nonce's own refusals.
CheckTx(t) ==
  IF t \in mempool THEN {"ok"}
  ELSE {"refused"}
       \cup (IF t \in Landed THEN {"ok"} ELSE {})
       \cup (IF NonceUsed(t.nonce) THEN {"used"}
             ELSE IF HeldByOther(t) THEN {"held"}
             ELSE IF PastWindow(t.nonce) THEN {} ELSE {"ok"})

Admitted(t, answer) ==
  IF answer = "ok" /\ t \notin Landed THEN mempool \cup {t} ELSE mempool

-----------------------------------------------------------------------------
\* A transaction lands in a block: it uses its nonce, whether or not it was
\* refused there.
Land ==
  \E t \in mempool :
    /\ landed' = Append(landed, t)
    /\ mempool' = mempool \ {t}
    /\ UNCHANGED net

\* The mempool drops a transaction (a full pool, a restart, a RegisterDid
\* refused in its block, which uses no nonce).
Evict ==
  /\ \E t \in mempool : mempool' = mempool \ {t}
  /\ UNCHANGED <<landed, net>>

\* A copy whose request failed in transit arrives after all, or is lost.
Arrive ==
  \E t \in net, answer \in {"ok", "refused", "held", "used"} :
    /\ answer \in CheckTx(t)
    /\ mempool' = Admitted(t, answer)
    /\ net' = net \ {t}
    /\ UNCHANGED landed

NodeStep == Land \/ Evict \/ Arrive
=============================================================================
