---------------------------- MODULE NonceAccount ----------------------------
(***************************************************************************)
(* The record src/willow/nonces.py keeps for one signing DID (_Account),   *)
(* and what each method of NonceTracker makes of it.  The methods run      *)
(* under one lock and never await, so each is one operator: the account    *)
(* before, the arguments and the clock give the account after.  The        *)
(* modules NonceTracker, Writes and Broadcast build their actions from     *)
(* these operators.                                                        *)
(*                                                                         *)
(* A nonce is a natural number.  A hand-out id is a positive integer and   *)
(* NoHandout is Python's None; NoBase is the None of trusted_base.  The    *)
(* field `next` is the tracker's itertools.count: with one account it      *)
(* numbers this account's hand-outs.                                       *)
(***************************************************************************)
EXTENDS Integers, FiniteSets, Functions

CONSTANTS
  Window,     \* how many nonces above the base the node accepts (24)
  Lease,      \* how long a nonce handed out stays taken (120 s)
  History     \* how far below the base hand-outs are recorded (4096)

ASSUME WindowAssumption == Window \in Nat \ {0}
ASSUME LeaseAssumption == Lease \in Nat \ {0}
ASSUME HistoryAssumption == History \in Nat \ {0}

NoHandout == 0
NoBase == -1

\* What a failed submission leaves its nonce as (refusal_outcome).
Free == "free"
Held == "held"
Used == "used"
Unknown == "unknown"
Outcomes == {Free, Held, Used, Unknown}

-----------------------------------------------------------------------------
NewAccount ==
  [base |-> 0, used |-> {}, handed |-> << >>, handout |-> << >>,
   trusted |-> NoBase, next |-> 1]

\* The shapes _Account declares for its fields.
IsAccount(acc) ==
  /\ DOMAIN acc = {"base", "used", "handed", "handout", "trusted", "next"}
  /\ acc.base \in Nat
  /\ acc.used \subseteq Nat
  /\ DOMAIN acc.handed \subseteq Nat
  /\ acc.handed \in [DOMAIN acc.handed -> Nat]
  /\ DOMAIN acc.handout \subseteq Nat
  /\ acc.handout \in [DOMAIN acc.handout -> Nat \ {0}]
  /\ acc.trusted \in Nat \cup {NoBase}
  /\ acc.next \in Nat \ {0}

\* Python's d[k] = v and d.pop(k, None).
Put(f, k, v) == [x \in DOMAIN f \cup {k} |-> IF x = k THEN v ELSE f[x]]
Pop(f, k) == Restrict(f, DOMAIN f \ {k})

Larger(a, b) == IF a > b THEN a ELSE b
Smaller(a, b) == IF a < b THEN a ELSE b

\* The hand-out a nonce last went to, NoHandout without a record.
HandoutOf(acc, n) == IF n \in DOMAIN acc.handout THEN acc.handout[n] ELSE NoHandout

\* Mutant of Refresh: the base follows the answer down.
RefreshFallingBase(acc, base, now, used) ==
  LET u == {n \in acc.used \cup used : n > base}
      kept == {n \in DOMAIN acc.handed :
                 n > base /\ n \notin u /\ now - acc.handed[n] < Lease}
  IN [acc EXCEPT !.base = base, !.used = u, !.handed = Restrict(acc.handed, kept)]

\* _refresh: the base never falls here, and what it passes is forgotten
\* from used and handed, as is a lease that ran out.
Refresh(acc, base, now, used) ==
  LET b == Larger(acc.base, base)
      u == {n \in acc.used \cup used : n > b}
      kept == {n \in DOMAIN acc.handed :
                 n > b /\ n \notin u /\ now - acc.handed[n] < Lease}
      recorded == IF Cardinality(DOMAIN acc.handout) > 2 * History
                    THEN {n \in DOMAIN acc.handout : n > b - History}
                    ELSE DOMAIN acc.handout
  IN [acc EXCEPT !.base = b, !.used = u,
                 !.handed = Restrict(acc.handed, kept),
                 !.handout = Restrict(acc.handout, recorded)]

\* Mutant of HandOut: a record there is stays (dict.setdefault).
HandOutKeepingRecord(acc, n, now) ==
  [acc EXCEPT !.handed = Put(acc.handed, n, now),
              !.handout = IF n \in DOMAIN acc.handout THEN acc.handout
                          ELSE Put(acc.handout, n, acc.next),
              !.next = acc.next + 1]

\* _hand_out
HandOut(acc, n, now) ==
  [acc EXCEPT !.handed = Put(acc.handed, n, now),
              !.handout = Put(acc.handout, n, acc.next),
              !.next = acc.next + 1]

\* Mutant of TrustedBase: the latest trusted base, not the highest.
TrustedBaseLatest(acc, base) ==
  [acc EXCEPT !.trusted = base, !.base = Smaller(acc.base, base)]

\* trust_base: what the higher base purged from used and handed stays gone.
TrustedBase(acc, base) ==
  LET t == Larger(acc.trusted, base)
  IN [acc EXCEPT !.trusted = t, !.base = Smaller(acc.base, t)]

InWindow(acc, n) == acc.base < n /\ n =< acc.base + Window

\* Mutant of FreeNonces: used nonces above the base are not skipped.
FreeNoncesUsedToo(acc) ==
  {n \in (acc.base + 1)..(acc.base + Window) : n \notin DOMAIN acc.handed}

\* The nonces take() may choose from, on a refreshed account.
FreeNonces(acc) ==
  {n \in (acc.base + 1)..(acc.base + Window) :
     n \notin acc.used /\ n \notin DOMAIN acc.handed}

IsLowest(n, S) == n \in S /\ \A m \in S : n =< m

IsUsed(acc, n) == n =< acc.base \/ n \in acc.used

\* hold: a nonce fixed by its transaction; no window, used or lease check.
HoldNonce(acc, n, now) == IF n > acc.base THEN HandOut(acc, n, now) ELSE acc

\* The condition under which claim() hands out n, on a refreshed account.
Claimable(acc, n) == InWindow(acc, n) /\ n \notin acc.used /\ n \notin DOMAIN acc.handed

\* still_handed_to
StillHandedTo(acc, n, h) ==
  IF HandoutOf(acc, n) = NoHandout
    THEN n =< acc.base - History
    ELSE HandoutOf(acc, n) = h

\* reclaim: the answer, then the account left (both on a refreshed account).
ReclaimGranted(acc, n, h) == HandoutOf(acc, n) \in {NoHandout, h}

Reclaimed(acc, n, h, now) ==
  IF ~ReclaimGranted(acc, n, h) \/ IsUsed(acc, n) THEN acc
  ELSE LET recorded == HandoutOf(acc, n) # NoHandout
           id == IF h # NoHandout THEN h ELSE acc.next
       IN [acc EXCEPT
             !.handed = Put(acc.handed, n, now),
             !.handout = IF recorded THEN acc.handout ELSE Put(acc.handout, n, id),
             !.next = IF recorded \/ h # NoHandout THEN acc.next ELSE acc.next + 1]

\* Mutant of Ours: any refusal gives the nonce back.
OursAlways(acc, n, h) == TRUE

\* settle; release is Settle(acc, n, Free, h).
Ours(acc, n, h) == h = NoHandout \/ HandoutOf(acc, n) \in {NoHandout, h}

Settle(acc, n, outcome, h) ==
  CASE outcome = Free /\ Ours(acc, n, h) ->
         [acc EXCEPT !.handed = Pop(acc.handed, n), !.handout = Pop(acc.handout, n)]
    [] outcome = Used ->
         [acc EXCEPT !.handed = Pop(acc.handed, n),
                     !.used = IF n > acc.base THEN acc.used \cup {n} ELSE acc.used]
    [] OTHER -> acc
=============================================================================
