------------------------- MODULE NonceAccountProofs -------------------------
(***************************************************************************)
(* What each method of the tracker makes of an account, field by field.    *)
(* The proofs of NonceTracker, Writes and Broadcast rest on these lemmas.  *)
(***************************************************************************)
EXTENDS NonceAccount, FiniteSetTheorems, WellFoundedInduction, TLAPS

\* What _refresh leaves of account a: an account r of the same shape, whose
\* fields are these.
RefreshLeaves(r, a, b, t, u) ==
  /\ IsAccount(r)
  /\ r.base = Larger(a.base, b)
  /\ \A n : n \in r.used <=> n \in a.used \cup u /\ n > r.base
  /\ \A n : n \in DOMAIN r.handed <=>
       /\ n \in DOMAIN a.handed /\ n > r.base
       /\ n \notin r.used /\ t - a.handed[n] < Lease
  /\ \A n \in DOMAIN r.handed : r.handed[n] = a.handed[n]
  /\ DOMAIN r.handout \subseteq DOMAIN a.handout
  /\ \A n \in DOMAIN a.handout : n > r.base => n \in DOMAIN r.handout
  /\ \A n \in DOMAIN r.handout : r.handout[n] = a.handout[n]
  /\ r.trusted = a.trusted
  /\ r.next = a.next

\* _refresh raises the base to the answer and keeps every lease and record it
\* has no reason to forget.
LEMMA RefreshFacts ==
  ASSUME NEW a, IsAccount(a), NEW b \in Int, NEW t, t \in Nat, NEW u, u \subseteq Nat
  PROVE  RefreshLeaves(Refresh(a, b, t, u), a, b, t, u)
<1> DEFINE r == Refresh(a, b, t, u)
           nb == Larger(a.base, b)
           nu == {n \in a.used \cup u : n > nb}
           kept == {n \in DOMAIN a.handed :
                      n > nb /\ n \notin nu /\ t - a.handed[n] < Lease}
           recorded == IF Cardinality(DOMAIN a.handout) > 2 * History
                         THEN {n \in DOMAIN a.handout : n > nb - History}
                         ELSE DOMAIN a.handout
<1>1. /\ r.base = nb /\ r.used = nu /\ r.handed = Restrict(a.handed, kept)
      /\ r.handout = Restrict(a.handout, recorded)
      /\ r.trusted = a.trusted /\ r.next = a.next
      /\ DOMAIN r = DOMAIN a
  BY DEF Refresh, IsAccount
<1>2. nb \in Nat /\ nb >= a.base
  BY DEF Larger, IsAccount
<1>3. recorded \subseteq DOMAIN a.handout
  OBVIOUS
<1>4. \A n \in DOMAIN a.handout : n > nb => n \in recorded
  <2>1. \A n \in DOMAIN a.handout : n \in Nat
    BY DEF IsAccount
  <2>2. nb - History =< nb /\ nb - History \in Int
    BY <1>2, HistoryAssumption
  <2> QED
    BY <1>2, <2>1, <2>2
<1>5. Restrict(a.handed, kept) \in [kept -> Nat]
  BY DEF Restrict, IsAccount
<1>6. Restrict(a.handout, recorded) \in [recorded -> Nat \ {0}]
  BY <1>3 DEF Restrict, IsAccount
<1>7. IsAccount(r)
  <2>1. nu \subseteq Nat
    BY DEF IsAccount
  <2>2. kept \subseteq Nat /\ recorded \subseteq Nat
    BY <1>3 DEF IsAccount
  <2> HIDE DEF nb, nu, kept, recorded
  <2> QED
    BY <1>1, <1>2, <1>5, <1>6, <2>1, <2>2 DEF IsAccount
<1> QED
  <2>2. DOMAIN r.handed = kept /\ \A n \in kept : r.handed[n] = a.handed[n]
    BY <1>1 DEF Restrict
  <2>3. DOMAIN r.handout = recorded /\ \A n \in recorded : r.handout[n] = a.handout[n]
    BY <1>1 DEF Restrict
  <2> HIDE DEF r, recorded
  <2>4. RefreshLeaves(r, a, b, t, u)
    BY <1>1, <1>3, <1>4, <1>7, <2>2, <2>3 DEF RefreshLeaves
  <2> QED
    BY <2>4 DEF r

\* What _hand_out leaves of account a: an account r with nonce n leased at time
\* t and recorded under the next id.
HandOutLeaves(r, a, n, t) ==
  /\ IsAccount(r)
  /\ r.base = a.base /\ r.used = a.used /\ r.trusted = a.trusted
  /\ r.next = a.next + 1
  /\ DOMAIN r.handed = DOMAIN a.handed \cup {n}
  /\ r.handed[n] = t
  /\ \A m \in DOMAIN a.handed : m # n => r.handed[m] = a.handed[m]
  /\ DOMAIN r.handout = DOMAIN a.handout \cup {n}
  /\ r.handout[n] = a.next
  /\ \A m \in DOMAIN a.handout : m # n => r.handout[m] = a.handout[m]

\* _hand_out records the nonce under the time and a new hand-out.
LEMMA HandOutFacts ==
  ASSUME NEW a, IsAccount(a), NEW n, n \in Nat, NEW t, t \in Nat
  PROVE  HandOutLeaves(HandOut(a, n, t), a, n, t)
<1> DEFINE r == HandOut(a, n, t)
<1>1. /\ r.base = a.base /\ r.used = a.used /\ r.trusted = a.trusted
      /\ r.next = a.next + 1 /\ DOMAIN r = DOMAIN a
      /\ r.handed = Put(a.handed, n, t) /\ r.handout = Put(a.handout, n, a.next)
  BY DEF HandOut, IsAccount
<1>2. r.handed \in [DOMAIN a.handed \cup {n} -> Nat]
  BY <1>1 DEF Put, IsAccount
<1>3. r.handout \in [DOMAIN a.handout \cup {n} -> Nat \ {0}]
  BY <1>1 DEF Put, IsAccount
<1>4. IsAccount(r)
  <2>1. r.next \in Nat \ {0}
    BY <1>1 DEF IsAccount
  <2> HIDE DEF r
  <2> QED
    BY <1>1, <1>2, <1>3, <2>1 DEF IsAccount
<1> QED
  BY <1>1, <1>4 DEF Put, HandOutLeaves

\* trust_base lowers the base to the highest trusted one, and touches no lease.
LEMMA TrustedFacts ==
  ASSUME NEW a, IsAccount(a), NEW b \in Nat
  PROVE  LET r == TrustedBase(a, b)
         IN /\ IsAccount(r)
            /\ r.base =< a.base /\ r.base =< r.trusted
            /\ r.trusted \in Nat /\ a.trusted =< r.trusted
            /\ a.base =< a.trusted => r.base = a.base
            /\ r.used = a.used /\ r.handed = a.handed
            /\ r.handout = a.handout /\ r.next = a.next
<1> DEFINE r == TrustedBase(a, b)
           t == Larger(a.trusted, b)
<1>1. /\ r.trusted = t /\ r.base = Smaller(a.base, t)
      /\ r.used = a.used /\ r.handed = a.handed
      /\ r.handout = a.handout /\ r.next = a.next /\ DOMAIN r = DOMAIN a
  BY DEF TrustedBase, IsAccount
<1>2. t \in Nat /\ a.trusted =< t
  BY DEF Larger, IsAccount, NoBase
<1>3. r.base \in Nat /\ r.base =< a.base /\ r.base =< t
  BY <1>1, <1>2 DEF Smaller, IsAccount
<1>4. a.base =< a.trusted => r.base = a.base
  BY <1>1, <1>2 DEF Smaller, IsAccount, NoBase
<1>5. IsAccount(r)
  <2> HIDE DEF r
  <2> QED
    BY <1>1, <1>2, <1>3 DEF IsAccount
<1> QED
  BY <1>1, <1>2, <1>3, <1>4, <1>5

\* settle gives nonce n of a back, or marks it used, and touches no other: r
\* is what it leaves.
SettleLeaves(r, a, n, o, h) ==
  /\ IsAccount(r)
  /\ r.base = a.base /\ r.trusted = a.trusted /\ r.next = a.next
  /\ a.used \subseteq r.used
  /\ o # Used => r.used = a.used
  /\ o = Used /\ n > a.base => n \in r.used
  /\ r.used \subseteq a.used \cup {n}
  /\ DOMAIN r.handed \subseteq DOMAIN a.handed
  /\ \A m \in DOMAIN a.handed : m # n => m \in DOMAIN r.handed
  /\ \A m \in DOMAIN r.handed : r.handed[m] = a.handed[m]
  /\ DOMAIN r.handout \subseteq DOMAIN a.handout
  /\ \A m \in DOMAIN a.handout : m # n => m \in DOMAIN r.handout
  /\ \A m \in DOMAIN r.handout : r.handout[m] = a.handout[m]
  /\ o = Free /\ Ours(a, n, h) =>
       n \notin DOMAIN r.handed /\ n \notin DOMAIN r.handout
  /\ ~(o = Free /\ Ours(a, n, h)) => r.handout = a.handout
  /\ ~(o = Free /\ Ours(a, n, h)) /\ o # Used => r = a

\* settle gives back or marks used the one nonce it is called for.
LEMMA SettleFacts ==
  ASSUME NEW a, IsAccount(a), NEW n, n \in Nat, NEW h, h \in Nat, NEW o \in Outcomes
  PROVE  SettleLeaves(Settle(a, n, o, h), a, n, o, h)
<1> DEFINE r == Settle(a, n, o, h)
<1>1. CASE o = Free /\ Ours(a, n, h)
  <2>1. r = [a EXCEPT !.handed = Pop(a.handed, n), !.handout = Pop(a.handout, n)]
    BY <1>1 DEF Settle, Free, Used
  <2>2. /\ r.base = a.base /\ r.used = a.used /\ r.trusted = a.trusted /\ r.next = a.next
        /\ DOMAIN r = DOMAIN a
        /\ r.handed = Pop(a.handed, n) /\ r.handout = Pop(a.handout, n)
    BY <2>1 DEF IsAccount
  <2>3. r.handed \in [DOMAIN a.handed \ {n} -> Nat]
    BY <2>2 DEF Pop, Restrict, IsAccount
  <2>4. r.handout \in [DOMAIN a.handout \ {n} -> Nat \ {0}]
    BY <2>2 DEF Pop, Restrict, IsAccount
  <2>5. IsAccount(r)
    <3> HIDE DEF r
    <3> QED
      BY <2>2, <2>3, <2>4 DEF IsAccount
  <2> QED
    BY <1>1, <2>2, <2>5 DEF SettleLeaves, Pop, Restrict, Free, Used
<1>2. CASE ~(o = Free /\ Ours(a, n, h)) /\ o = Used
  <2> DEFINE u == IF n > a.base THEN a.used \cup {n} ELSE a.used
  <2>1. r = [a EXCEPT !.handed = Pop(a.handed, n), !.used = u]
    BY <1>2 DEF Settle, Free, Used
  <2>2. /\ r.base = a.base /\ r.used = u /\ r.trusted = a.trusted /\ r.next = a.next
        /\ DOMAIN r = DOMAIN a
        /\ r.handed = Pop(a.handed, n) /\ r.handout = a.handout
    BY <2>1 DEF IsAccount
  <2>3. r.handed \in [DOMAIN a.handed \ {n} -> Nat]
    BY <2>2 DEF Pop, Restrict, IsAccount
  <2>4. u \subseteq Nat
    BY DEF IsAccount
  <2>5. IsAccount(r)
    <3> HIDE DEF r, u
    <3> QED
      BY <2>2, <2>3, <2>4 DEF IsAccount
  <2> QED
    BY <1>2, <2>2, <2>5 DEF SettleLeaves, Pop, Restrict
<1>3. CASE ~(o = Free /\ Ours(a, n, h)) /\ o # Used
  <2>1. r = a
    BY <1>3 DEF Settle
  <2> QED
    BY <1>3, <2>1 DEF SettleLeaves
<1> QED
  BY <1>1, <1>2, <1>3

\* reclaim renews the lease of hand-out h, restoring its record if it was lost.
LEMMA ReclaimedFacts ==
  ASSUME NEW a, IsAccount(a), NEW n, n \in Nat, NEW h, h \in Nat \ {0}, NEW t, t \in Nat
  PROVE  LET r == Reclaimed(a, n, h, t)
         IN /\ IsAccount(r)
            /\ r.base = a.base /\ r.used = a.used /\ r.trusted = a.trusted /\ r.next = a.next
            /\ ~ReclaimGranted(a, n, h) \/ IsUsed(a, n) => r = a
            /\ ReclaimGranted(a, n, h) /\ ~IsUsed(a, n) =>
                 /\ DOMAIN r.handed = DOMAIN a.handed \cup {n}
                 /\ r.handed[n] = t
                 /\ \A m \in DOMAIN a.handed : m # n => r.handed[m] = a.handed[m]
                 /\ DOMAIN r.handout = DOMAIN a.handout \cup {n}
                 /\ r.handout[n] = h
                 /\ \A m \in DOMAIN a.handout : m # n => r.handout[m] = a.handout[m]
<1> DEFINE r == Reclaimed(a, n, h, t)
<1>1. CASE ~ReclaimGranted(a, n, h) \/ IsUsed(a, n)
  BY <1>1 DEF Reclaimed
<1>2. CASE ReclaimGranted(a, n, h) /\ ~IsUsed(a, n)
  <2> DEFINE recorded == HandoutOf(a, n) # NoHandout
             ho == IF recorded THEN a.handout ELSE Put(a.handout, n, h)
  <2>1. /\ r.base = a.base /\ r.used = a.used /\ r.trusted = a.trusted /\ r.next = a.next
        /\ DOMAIN r = DOMAIN a
        /\ r.handed = Put(a.handed, n, t) /\ r.handout = ho
    BY <1>2 DEF Reclaimed, IsAccount, NoHandout
  <2>2. r.handed \in [DOMAIN a.handed \cup {n} -> Nat]
    BY <2>1 DEF Put, IsAccount
  <2>3. CASE recorded
    <3>1. n \in DOMAIN a.handout /\ a.handout[n] = h
      BY <1>2, <2>3 DEF HandoutOf, ReclaimGranted
    <3>2. IsAccount(r)
      <4>1. r.handout = a.handout
        BY <2>1, <2>3
      <4> HIDE DEF r, ho
      <4> QED
        BY <2>1, <2>2, <4>1 DEF IsAccount
    <3> QED
      BY <1>2, <2>1, <2>3, <3>1, <3>2 DEF Put
  <2>4. CASE ~recorded
    <3>1. r.handout \in [DOMAIN a.handout \cup {n} -> Nat \ {0}]
      BY <2>1, <2>4 DEF Put, IsAccount
    <3>2. IsAccount(r)
      <4> HIDE DEF r, ho
      <4> QED
        BY <2>1, <2>2, <3>1 DEF IsAccount
    <3> QED
      BY <1>2, <2>1, <2>4, <3>2 DEF Put
  <2> QED
    BY <2>3, <2>4
<1> QED
  BY <1>1, <1>2
-----------------------------------------------------------------------------
\* Account a is account r with nonce n handed out at time t under id h.
Leased(a, r, n, h, t) ==
  /\ IsAccount(a)
  /\ a.base = r.base /\ a.used = r.used /\ a.trusted = r.trusted
  /\ \A m : m \in DOMAIN a.handed <=> m \in DOMAIN r.handed \/ m = n
  /\ \A m \in DOMAIN a.handed : a.handed[m] = IF m = n THEN t ELSE r.handed[m]
  /\ \A m : HandoutOf(a, m) = IF m = n THEN h ELSE HandoutOf(r, m)

\* Account a is account r with nonce n given back.
Returned(a, r, n) ==
  /\ IsAccount(a)
  /\ a.base = r.base /\ a.used = r.used /\ a.trusted = r.trusted
  /\ \A m : m \in DOMAIN a.handed <=> m \in DOMAIN r.handed /\ m # n
  /\ \A m \in DOMAIN a.handed : a.handed[m] = r.handed[m]
  /\ \A m : HandoutOf(a, m) = IF m = n THEN NoHandout ELSE HandoutOf(r, m)

\* _hand_out leases the nonce under the next id.
LEMMA HandOutLeases ==
  ASSUME NEW r, IsAccount(r), NEW n, n \in Nat, NEW t, t \in Nat
  PROVE  Leased(HandOut(r, n, t), r, n, r.next, t) /\ HandOut(r, n, t).next = r.next + 1
<1> DEFINE a == HandOut(r, n, t)
<1>1. HandOutLeaves(a, r, n, t)
  BY HandOutFacts
<1> HIDE DEF a
<1>2. \A m : HandoutOf(a, m) = IF m = n THEN r.next ELSE HandoutOf(r, m)
  BY <1>1 DEF HandoutOf, HandOutLeaves
<1>3. /\ \A m : m \in DOMAIN a.handed <=> m \in DOMAIN r.handed \/ m = n
      /\ \A m \in DOMAIN a.handed : a.handed[m] = IF m = n THEN t ELSE r.handed[m]
  BY <1>1 DEF HandOutLeaves
<1>4. Leased(a, r, n, r.next, t)
  BY <1>1, <1>2, <1>3 DEF Leased, HandOutLeaves
<1> QED
  BY <1>1, <1>4 DEF a, HandOutLeaves

\* A nonce handed out and given back, as when signing fails.
LEMMA UnsignedReturns ==
  ASSUME NEW r, IsAccount(r), NEW n, n \in Nat, NEW t, t \in Nat
  PROVE  LET a == Settle(HandOut(r, n, t), n, Free, NoHandout)
         IN Returned(a, r, n) /\ a.next = r.next + 1
<1> DEFINE b == HandOut(r, n, t)
           a == Settle(b, n, Free, NoHandout)
<1>1. Leased(b, r, n, r.next, t) /\ b.next = r.next + 1 /\ IsAccount(b)
  BY HandOutLeases DEF Leased
<1>2. Free \in Outcomes /\ Free # Used /\ Ours(b, n, NoHandout) /\ NoHandout \in Nat
  BY DEF Outcomes, Free, Used, Ours, NoHandout
<1> HIDE DEF b
<1>3. SettleLeaves(a, b, n, Free, NoHandout)
  BY <1>1, <1>2, SettleFacts
<1> HIDE DEF a
<1>4. \A m : HandoutOf(a, m) = IF m = n THEN NoHandout ELSE HandoutOf(b, m)
  BY <1>2, <1>3 DEF SettleLeaves, HandoutOf
<1>5. /\ IsAccount(a)
      /\ a.base = b.base /\ a.used = b.used /\ a.trusted = b.trusted /\ a.next = b.next
      /\ \A m : m \in DOMAIN a.handed <=> m \in DOMAIN b.handed /\ m # n
      /\ \A m \in DOMAIN a.handed : a.handed[m] = b.handed[m]
  BY <1>2, <1>3 DEF SettleLeaves
<1>6. Returned(a, r, n)
  BY <1>1, <1>4, <1>5 DEF Leased, Returned
<1> QED
  BY <1>1, <1>5, <1>6 DEF a, b

\* A nonce given back without a hand-out, whoever had it.
LEMMA ReleasedReturns ==
  ASSUME NEW r, IsAccount(r), NEW n, n \in Nat
  PROVE  LET a == Settle(r, n, Free, NoHandout) IN Returned(a, r, n) /\ a.next = r.next
<1> DEFINE a == Settle(r, n, Free, NoHandout)
<1>1. Free \in Outcomes /\ Free # Used /\ Ours(r, n, NoHandout) /\ NoHandout \in Nat
  BY DEF Outcomes, Free, Used, Ours, NoHandout
<1>2. SettleLeaves(a, r, n, Free, NoHandout)
  BY <1>1, SettleFacts
<1> HIDE DEF a
<1>3. \A m : HandoutOf(a, m) = IF m = n THEN NoHandout ELSE HandoutOf(r, m)
  BY <1>1, <1>2 DEF SettleLeaves, HandoutOf
<1>4. /\ IsAccount(a)
      /\ a.base = r.base /\ a.used = r.used /\ a.trusted = r.trusted /\ a.next = r.next
      /\ \A m : m \in DOMAIN a.handed <=> m \in DOMAIN r.handed /\ m # n
      /\ \A m \in DOMAIN a.handed : a.handed[m] = r.handed[m]
  BY <1>1, <1>2 DEF SettleLeaves
<1>5. Returned(a, r, n)
  BY <1>3, <1>4 DEF Returned
<1> QED
  BY <1>4, <1>5 DEF a

\* reclaim leases the nonce again under the id it was handed out under, or,
\* for a write that never had one, under the next id.
LEMMA ReclaimLeases ==
  ASSUME NEW r, IsAccount(r), NEW n, n \in Nat, NEW h, h \in Nat, NEW t, t \in Nat
  PROVE  LET a == Reclaimed(r, n, h, t)
         IN /\ ~ReclaimGranted(r, n, h) \/ IsUsed(r, n) => a = r
            /\ ReclaimGranted(r, n, h) /\ ~IsUsed(r, n) /\ h # NoHandout =>
                 Leased(a, r, n, h, t) /\ a.next = r.next
            /\ ReclaimGranted(r, n, h) /\ ~IsUsed(r, n) /\ h = NoHandout =>
                 Leased(a, r, n, r.next, t) /\ a.next = r.next + 1
<1> DEFINE a == Reclaimed(r, n, h, t)
<1>1. CASE ~ReclaimGranted(r, n, h) \/ IsUsed(r, n)
  BY <1>1 DEF Reclaimed
<1>2. CASE ReclaimGranted(r, n, h) /\ ~IsUsed(r, n) /\ h # NoHandout
  <2>1. h \in Nat \ {0}
    BY <1>2 DEF NoHandout
  <2>2. /\ IsAccount(a)
        /\ a.base = r.base /\ a.used = r.used /\ a.next = r.next
        /\ DOMAIN a.handed = DOMAIN r.handed \cup {n}
        /\ a.handed[n] = t
        /\ \A m \in DOMAIN r.handed : m # n => a.handed[m] = r.handed[m]
        /\ DOMAIN a.handout = DOMAIN r.handout \cup {n}
        /\ a.handout[n] = h
        /\ \A m \in DOMAIN r.handout : m # n => a.handout[m] = r.handout[m]
    BY <1>2, <2>1, ReclaimedFacts
  <2>3. a.trusted = r.trusted
    BY <1>2 DEF Reclaimed, IsAccount
  <2> HIDE DEF a
  <2>4. \A m : HandoutOf(a, m) = IF m = n THEN h ELSE HandoutOf(r, m)
    BY <2>2 DEF HandoutOf
  <2>5. /\ \A m : m \in DOMAIN a.handed <=> m \in DOMAIN r.handed \/ m = n
        /\ \A m \in DOMAIN a.handed : a.handed[m] = IF m = n THEN t ELSE r.handed[m]
    BY <2>2
  <2>6. Leased(a, r, n, h, t)
    BY <2>2, <2>3, <2>4, <2>5 DEF Leased
  <2> QED
    BY <1>2, <2>2, <2>6 DEF a
<1>3. CASE ReclaimGranted(r, n, h) /\ ~IsUsed(r, n) /\ h = NoHandout
  <2>1. HandoutOf(r, n) = NoHandout
    BY <1>3 DEF ReclaimGranted
  <2>2. a = HandOut(r, n, t)
    <3> DEFINE B(recorded, id) ==
                 [r EXCEPT
                    !.handed = Put(r.handed, n, t),
                    !.handout = IF recorded THEN r.handout ELSE Put(r.handout, n, id),
                    !.next = IF recorded \/ h # NoHandout THEN r.next ELSE r.next + 1]
    <3>1. a = B(HandoutOf(r, n) # NoHandout, IF h # NoHandout THEN h ELSE r.next)
      BY <1>3 DEF Reclaimed
    <3>2. a = B(FALSE, r.next)
      BY <1>3, <2>1, <3>1
    <3>3. B(FALSE, r.next) = HandOut(r, n, t)
      BY <1>3 DEF HandOut
    <3> QED
      BY <3>2, <3>3
  <2> QED
    BY <1>3, <2>2, HandOutLeases
<1> QED
  BY <1>1, <1>2, <1>3

-----------------------------------------------------------------------------
\* A node that used k nonces has a base: below the first nonce it did not use.
LEMMA BaseExists ==
  ASSUME NEW k \in Nat, NEW f
  PROVE  LET U == {f[i].nonce : i \in 1..k}
         IN \E b \in 0..k : 1..b \subseteq U /\ b + 1 \notin U
<1> DEFINE U == {f[i].nonce : i \in 1..k}
           Gaps == {m \in Nat : m + 1 \notin U}
<1>1. IsFiniteSet(U) /\ Cardinality(U) \in Nat /\ Cardinality(U) =< k
  <2> DEFINE g == [i \in 1..k |-> f[i].nonce]
  <2>1. g \in Surjection(1..k, U)
    BY DEF Surjection
  <2>2. IsFiniteSet(1..k) /\ Cardinality(1..k) = k
    BY FS_Interval
  <2>3. IsFiniteSet(U) /\ Cardinality(U) =< Cardinality(1..k)
    BY <2>1, <2>2, FS_Surjection
  <2> QED
    BY <2>2, <2>3, FS_CardinalityType
<1>2. \E m \in Gaps : m =< k
  <2> SUFFICES ASSUME \A m \in 0..k : m + 1 \in U PROVE FALSE
    OBVIOUS
  <2>1. 1..(k + 1) \subseteq U
    <3> SUFFICES ASSUME NEW j \in 1..(k + 1) PROVE j \in U
      OBVIOUS
    <3>1. j - 1 \in 0..k /\ (j - 1) + 1 = j
      OBVIOUS
    <3> QED
      BY <3>1
  <2>2. Cardinality(1..(k + 1)) = k + 1
    BY FS_Interval
  <2> HIDE DEF U
  <2>3. Cardinality(1..(k + 1)) =< Cardinality(U)
    BY <1>1, <2>1, FS_Subset
  <2> QED
    BY <1>1, <2>2, <2>3
<1>3. PICK b \in Gaps : \A m \in Gaps : ~(m < b)
  <2>1. IsWellFoundedOn(OpToRel(<, Nat), Nat)
    BY NatLessThanWellFounded
  <2>2. Gaps \subseteq Nat /\ Gaps # {}
    BY <1>2
  <2> HIDE DEF Gaps
  <2>3. \E b \in Gaps : \A m \in Gaps : ~(<<m, b>> \in OpToRel(<, Nat))
    BY <2>1, <2>2, WFMin
  <2> QED
    BY <2>2, <2>3 DEF OpToRel
<1>4. b \in 0..k /\ b + 1 \notin U
  BY <1>2, <1>3
<1>5. 1..b \subseteq U
  <2> SUFFICES ASSUME NEW j \in 1..b, j \notin U PROVE FALSE
    OBVIOUS
  <2>1. j - 1 \in Gaps /\ j - 1 < b
    BY <1>3
  <2> QED
    BY <1>3, <2>1
<1> QED
  BY <1>4, <1>5
=============================================================================
