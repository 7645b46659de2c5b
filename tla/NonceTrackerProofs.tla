------------------------- MODULE NonceTrackerProofs -------------------------
(***************************************************************************)
(* What NonceTracker keeps for every window, lease, history and bound.     *)
(***************************************************************************)
EXTENDS NonceTracker, NonceAccountProofs

-----------------------------------------------------------------------------
(* The inductive invariant, for an account a that may not be acc yet: most  *)
(* methods refresh the account first and change what that leaves.           *)

Good(a) ==
  /\ IsAccount(a)
  /\ nonceOf \in [1..(a.next - 1) -> Nat]
  /\ leasedAt \in [1..(a.next - 1) -> Nat]
  /\ ~dropped =>
       \A i \in Ids :
         i \notin back \cup over /\ now - leasedAt[i] < Lease /\ ~IsUsed(a, nonceOf[i]) =>
           /\ nonceOf[i] \in DOMAIN a.handed
           /\ a.handed[nonceOf[i]] = leasedAt[i]
           /\ HandoutOf(a, nonceOf[i]) = i
  /\ \A n \in DOMAIN a.handout :
       /\ a.handout[n] \in Ids /\ nonceOf[a.handout[n]] = n
       /\ a.handout[n] \notin readopted => \A j \in Ids : nonceOf[j] = n => j =< a.handout[n]
  /\ DOMAIN a.handed \subseteq DOMAIN a.handout

HistoryOK ==
  now \in Nat /\ back \subseteq Nat /\ over \subseteq Nat /\ readopted \subseteq Nat
    /\ dropped \in BOOLEAN

\* The invariant is a predicate of the account and one of the history.
LEMMA IInvIsGood == IInv <=> HistoryOK /\ Good(acc)
BY DEF IInv, HistoryOK, Good, TypeOK, LeaseRecorded, Live, RecordIsLatest, HandedRecorded

\* The answers a call is given are bases and sets of nonces.
LEMMA AnswersType ==
  ASSUME IsAccount(acc), NEW x \in Answers
  PROVE  x.base \in Int /\ x.used \subseteq Nat
<1>1. CASE x \in ApiAnswers
  <2>1. PICK b \in 0..MaxBase : x = [base |-> ApiBase(b), used |-> {}]
    BY <1>1 DEF ApiAnswers
  <2>2. ApiBase(b) \in Int
    BY BoundsAssumption DEF ApiBase, Smaller, IsAccount, NoBase
  <2> QED
    BY <2>1, <2>2
<1>2. CASE x \in RpcAnswers
  BY <1>2, BoundsAssumption, WindowAssumption DEF RpcAnswers
<1> QED
  BY <1>1, <1>2 DEF Answers

\* The base an answer leaves.
LEMMA RefreshedBase ==
  ASSUME IsAccount(acc), now \in Nat, NEW x \in Answers
  PROVE  Refresh(acc, x.base, now, x.used).base \in Nat
<1> DEFINE r == Refresh(acc, x.base, now, x.used)
<1>1. x.base \in Int /\ x.used \subseteq Nat
  BY AnswersType
<1>2. RefreshLeaves(r, acc, x.base, now, x.used)
  BY <1>1, RefreshFacts
<1> HIDE DEF r
<1>3. IsAccount(r)
  BY <1>2 DEF RefreshLeaves
<1>4. r.base \in Nat
  BY <1>3 DEF IsAccount
<1> QED
  BY <1>4 DEF r

\* _refresh, which every call begins with, keeps the invariant and makes no
\* hand-out.
LEMMA RefreshGood ==
  ASSUME HistoryOK, Good(acc), NEW b \in Int, NEW u, u \subseteq Nat
  PROVE  Good(Refresh(acc, b, now, u)) /\ Refresh(acc, b, now, u).next = acc.next
<1> DEFINE r == Refresh(acc, b, now, u)
<1>1. /\ IsAccount(r)
      /\ r.base = Larger(acc.base, b)
      /\ \A n : n \in r.used <=> n \in acc.used \cup u /\ n > r.base
      /\ \A n : n \in DOMAIN r.handed <=>
                   /\ n \in DOMAIN acc.handed /\ n > r.base
                   /\ n \notin r.used /\ now - acc.handed[n] < Lease
      /\ \A n \in DOMAIN r.handed : r.handed[n] = acc.handed[n]
      /\ DOMAIN r.handout \subseteq DOMAIN acc.handout
      /\ \A n \in DOMAIN acc.handout : n > r.base => n \in DOMAIN r.handout
      /\ \A n \in DOMAIN r.handout : r.handout[n] = acc.handout[n]
      /\ r.trusted = acc.trusted
      /\ r.next = acc.next
  <2>1. IsAccount(acc) /\ now \in Nat
    BY DEF HistoryOK, Good
  <2>2. RefreshLeaves(r, acc, b, now, u)
    BY <2>1, RefreshFacts
  <2> QED
    BY <2>2 DEF RefreshLeaves
<1> HIDE DEF r
<1>2. r.base \in Nat /\ r.base >= acc.base
  BY <1>1 DEF Larger, IsAccount, Good
<1>3. nonceOf \in [1..(r.next - 1) -> Nat] /\ leasedAt \in [1..(r.next - 1) -> Nat]
  BY <1>1 DEF Good
<1>4. ASSUME ~dropped, NEW i \in Ids, i \notin back \cup over,
             now - leasedAt[i] < Lease, ~IsUsed(r, nonceOf[i])
      PROVE  /\ nonceOf[i] \in DOMAIN r.handed
             /\ r.handed[nonceOf[i]] = leasedAt[i]
             /\ HandoutOf(r, nonceOf[i]) = i
  <2> DEFINE n == nonceOf[i]
  <2>0. n \in Nat /\ i # NoHandout
    BY DEF Good, Ids, NoHandout
  <2>1. n > r.base /\ n \notin r.used
    BY <1>2, <1>4, <2>0 DEF IsUsed
  <2>2. ~IsUsed(acc, n)
    BY <1>1, <1>2, <2>0, <2>1 DEF IsUsed, Good, IsAccount
  <2>3. /\ n \in DOMAIN acc.handed
        /\ acc.handed[n] = leasedAt[i]
        /\ HandoutOf(acc, n) = i
    BY <1>4, <2>2 DEF Good
  <2>4. n \in DOMAIN acc.handout /\ acc.handout[n] = i
    BY <2>0, <2>3 DEF HandoutOf
  <2>5. n \in DOMAIN r.handed /\ r.handed[n] = leasedAt[i]
    BY <1>1, <1>4, <2>1, <2>3
  <2>6. n \in DOMAIN r.handout /\ r.handout[n] = i
    BY <1>1, <2>1, <2>4
  <2> QED
    BY <2>5, <2>6 DEF HandoutOf
<1>5. \A n \in DOMAIN r.handout :
        /\ r.handout[n] \in Ids /\ nonceOf[r.handout[n]] = n
        /\ r.handout[n] \notin readopted => \A j \in Ids : nonceOf[j] = n => j =< r.handout[n]
  BY <1>1 DEF Good
<1>6. DOMAIN r.handed \subseteq DOMAIN r.handout
  BY <1>1 DEF Good
<1>7. Good(r)
  BY <1>1, <1>3, <1>4, <1>5, <1>6 DEF Good
<1> QED
  BY <1>1, <1>7 DEF r

\* Handing out a nonce that no live hand-out has, or whose hand-outs a
\* RegisterDid takes over, keeps the invariant.
LEMMA HandOutGood ==
  ASSUME HistoryOK, NEW r, Good(r), r.next = acc.next, NEW n \in Nat,
         acc' = HandOut(r, n, now), Recorded(n),
         UNCHANGED <<now, back, readopted, dropped>>, over' \subseteq Nat, over \subseteq over',
         n \in DOMAIN r.handed => {i \in Ids : nonceOf[i] = n} \subseteq over'
  PROVE  HistoryOK' /\ Good(acc)'
<1> DEFINE k == acc.next
<1>1. /\ IsAccount(acc')
      /\ acc'.base = r.base /\ acc'.used = r.used /\ acc'.trusted = r.trusted
      /\ acc'.next = k + 1
      /\ DOMAIN acc'.handed = DOMAIN r.handed \cup {n}
      /\ acc'.handed[n] = now
      /\ \A m \in DOMAIN r.handed : m # n => acc'.handed[m] = r.handed[m]
      /\ DOMAIN acc'.handout = DOMAIN r.handout \cup {n}
      /\ acc'.handout[n] = k
      /\ \A m \in DOMAIN r.handout : m # n => acc'.handout[m] = r.handout[m]
  <2> DEFINE q == HandOut(r, n, now)
  <2>1. IsAccount(r) /\ now \in Nat /\ r.next = k
    BY DEF HistoryOK, Good
  <2>2. /\ IsAccount(q)
        /\ q.base = r.base /\ q.used = r.used /\ q.trusted = r.trusted
        /\ q.next = r.next + 1
        /\ DOMAIN q.handed = DOMAIN r.handed \cup {n}
        /\ q.handed[n] = now
        /\ \A m \in DOMAIN r.handed : m # n => q.handed[m] = r.handed[m]
        /\ DOMAIN q.handout = DOMAIN r.handout \cup {n}
        /\ q.handout[n] = r.next
        /\ \A m \in DOMAIN r.handout : m # n => q.handout[m] = r.handout[m]
    <3>1. HandOutLeaves(q, r, n, now)
      BY <2>1, HandOutFacts
    <3> QED
      BY <3>1 DEF HandOutLeaves
  <2>3. acc' = q
    OBVIOUS
  <2> QED
    BY <2>1, <2>2, <2>3
<1>2. k \in Nat \ {0} /\ k \notin Ids /\ Ids = 1..(k - 1)
  BY DEF Good, Ids, IsAccount
<1>3. /\ nonceOf' \in [1..(acc'.next - 1) -> Nat] /\ leasedAt' \in [1..(acc'.next - 1) -> Nat]
      /\ Ids' = Ids \cup {k} /\ nonceOf'[k] = n /\ leasedAt'[k] = now
      /\ \A i \in Ids : nonceOf'[i] = nonceOf[i] /\ leasedAt'[i] = leasedAt[i]
  <2>1. 1..(acc'.next - 1) = Ids \cup {k}
    BY <1>1, <1>2
  <2>2. nonceOf' = Put(nonceOf, k, n) /\ leasedAt' = Put(leasedAt, k, now)
    BY DEF Recorded
  <2>3. DOMAIN leasedAt = Ids /\ DOMAIN nonceOf = Ids
    BY <1>2 DEF Good, Ids
  <2>4. nonceOf' \in [Ids \cup {k} -> Nat] /\ leasedAt' \in [Ids \cup {k} -> Nat]
    BY <2>2, <2>3 DEF Put, Good, HistoryOK
  <2> QED
    BY <1>2, <2>1, <2>2, <2>3, <2>4 DEF Put, Ids
<1>4. ASSUME ~dropped', NEW i \in Ids', i \notin (back \cup over)',
             now' - leasedAt'[i] < Lease, ~IsUsed(acc', nonceOf'[i])
      PROVE  /\ nonceOf'[i] \in DOMAIN acc'.handed
             /\ acc'.handed[nonceOf'[i]] = leasedAt'[i]
             /\ HandoutOf(acc', nonceOf'[i]) = i
  <2>1. CASE i = k
    BY <1>1, <1>3, <2>1 DEF HandoutOf
  <2>2. CASE i \in Ids
    <3> DEFINE m == nonceOf[i]
    <3>1. nonceOf'[i] = m /\ leasedAt'[i] = leasedAt[i] /\ i # NoHandout
      BY <1>2, <1>3, <2>2 DEF NoHandout
    <3>2. i \notin back \cup over /\ now - leasedAt[i] < Lease /\ ~IsUsed(r, m)
      BY <1>1, <1>4, <3>1 DEF IsUsed
    <3>3. m \in DOMAIN r.handed /\ r.handed[m] = leasedAt[i] /\ HandoutOf(r, m) = i
      BY <1>4, <2>2, <3>2 DEF Good
    <3>4. m # n
      BY <1>4, <2>2, <3>3
    <3>5. m \in DOMAIN r.handout /\ r.handout[m] = i
      BY <3>1, <3>3 DEF HandoutOf
    <3> QED
      BY <1>1, <3>1, <3>3, <3>4, <3>5 DEF HandoutOf
  <2> QED
    BY <1>3, <2>1, <2>2
<1>5. ASSUME NEW m \in DOMAIN acc'.handout
      PROVE  /\ acc'.handout[m] \in Ids' /\ nonceOf'[acc'.handout[m]] = m
             /\ acc'.handout[m] \notin readopted'
                  => \A j \in Ids' : nonceOf'[j] = m => j =< acc'.handout[m]
  <2>1. CASE m = n
    BY <1>1, <1>2, <1>3, <2>1
  <2>2. CASE m # n
    <3>1. m \in DOMAIN r.handout /\ acc'.handout[m] = r.handout[m]
      BY <1>1, <2>2
    <3>2. r.handout[m] \in Ids /\ nonceOf[r.handout[m]] = m
      BY <3>1 DEF Good
    <3>3. r.handout[m] \notin readopted => \A j \in Ids : nonceOf[j] = m => j =< r.handout[m]
      BY <3>1 DEF Good
    <3> QED
      BY <1>2, <1>3, <2>2, <3>1, <3>2, <3>3
  <2> QED
    BY <2>1, <2>2
<1>6. DOMAIN acc'.handed \subseteq DOMAIN acc'.handout
  BY <1>1 DEF Good
<1>7. Good(acc)'
  BY <1>1, <1>3, <1>4, <1>5, <1>6 DEF Good
<1> QED
  BY <1>7 DEF HistoryOK

\* settle by hand-out h of nonce n, whose record it is when it names none.
LEMMA SettleGood ==
  ASSUME HistoryOK, Good(acc), NEW i \in Ids, NEW h \in {i, NoHandout}, NEW o \in Outcomes,
         h = NoHandout => o = Free /\ HandoutOf(acc, nonceOf[i]) = i,
         acc' = Settle(acc, nonceOf[i], o, h),
         back' = IF o = Free THEN back \cup {i} ELSE back,
         UNCHANGED <<now, nonceOf, leasedAt, over, readopted, dropped>>
  PROVE  HistoryOK' /\ Good(acc)'
<1> DEFINE n == nonceOf[i]
           q == Settle(acc, n, o, h)
<1>1. n \in Nat /\ i \in Nat \ {0} /\ h \in Nat /\ IsAccount(acc)
  BY DEF Good, Ids, IsAccount, NoHandout
<1>2. /\ IsAccount(q)
      /\ q.base = acc.base /\ q.trusted = acc.trusted /\ q.next = acc.next
      /\ acc.used \subseteq q.used
      /\ o = Used /\ n > acc.base => n \in q.used
      /\ \A m \in DOMAIN acc.handed : m # n => m \in DOMAIN q.handed
      /\ DOMAIN q.handed \subseteq DOMAIN acc.handed
      /\ \A m \in DOMAIN q.handed : q.handed[m] = acc.handed[m]
      /\ DOMAIN q.handout \subseteq DOMAIN acc.handout
      /\ \A m \in DOMAIN acc.handout : m # n => m \in DOMAIN q.handout
      /\ \A m \in DOMAIN q.handout : q.handout[m] = acc.handout[m]
      /\ o = Free /\ Ours(acc, n, h) => n \notin DOMAIN q.handed /\ n \notin DOMAIN q.handout
      /\ ~(o = Free /\ Ours(acc, n, h)) => q.handout = acc.handout
      /\ ~(o = Free /\ Ours(acc, n, h)) /\ o # Used => q = acc
  <2>1. SettleLeaves(q, acc, n, o, h)
    BY <1>1, SettleFacts
  <2> QED
    BY <2>1 DEF SettleLeaves
<1>3. acc' = q
  OBVIOUS
<1> HIDE DEF q
<1>4. back \subseteq back' /\ back' \subseteq Nat
  BY <1>1 DEF HistoryOK
<1>5. ASSUME ~dropped, NEW j \in Ids, j \notin back' \cup over,
             now - leasedAt[j] < Lease, ~IsUsed(q, nonceOf[j])
      PROVE  /\ nonceOf[j] \in DOMAIN q.handed
             /\ q.handed[nonceOf[j]] = leasedAt[j]
             /\ HandoutOf(q, nonceOf[j]) = j
  <2> DEFINE m == nonceOf[j]
  <2>1. ~IsUsed(acc, m)
    BY <1>2, <1>5 DEF IsUsed
  <2>2. m \in DOMAIN acc.handed /\ acc.handed[m] = leasedAt[j] /\ HandoutOf(acc, m) = j
    BY <1>4, <1>5, <2>1 DEF Good
  <2>3. j # NoHandout /\ m \in DOMAIN acc.handout /\ acc.handout[m] = j
    BY <2>2 DEF HandoutOf, Good, Ids, NoHandout
  <2>4. CASE m # n
    BY <1>2, <2>2, <2>3, <2>4 DEF HandoutOf
  <2>5. CASE m = n
    <3>1. ~(o = Free /\ Ours(acc, n, h))
      <4> SUFFICES ASSUME o = Free, Ours(acc, n, h) PROVE FALSE
        OBVIOUS
      <4>1. i = j
        BY <2>2, <2>3, <2>5 DEF Ours, NoHandout
      <4> QED
        BY <1>5, <4>1
    <3>2. o # Used
      <4>1. m \in Nat /\ m > acc.base
        BY <1>1, <2>1, <2>5 DEF IsUsed, IsAccount
      <4> QED
        BY <1>2, <1>5, <2>5, <4>1 DEF IsUsed
    <3> QED
      BY <1>2, <2>2, <3>1, <3>2
  <2> QED
    BY <2>4, <2>5
<1>6. \A m \in DOMAIN q.handout :
        /\ q.handout[m] \in Ids /\ nonceOf[q.handout[m]] = m
        /\ q.handout[m] \notin readopted => \A j \in Ids : nonceOf[j] = m => j =< q.handout[m]
  BY <1>2 DEF Good
<1>7. DOMAIN q.handed \subseteq DOMAIN q.handout
  <2>1. DOMAIN acc.handed \subseteq DOMAIN acc.handout
    BY DEF Good
  <2> QED
    BY <1>2, <2>1
<1>8. nonceOf \in [1..(q.next - 1) -> Nat] /\ leasedAt \in [1..(q.next - 1) -> Nat]
  BY <1>2 DEF Good
<1>9. Good(acc)'
  BY <1>2, <1>3, <1>5, <1>6, <1>7, <1>8 DEF Good, Ids
<1> QED
  BY <1>4, <1>9 DEF HistoryOK

\* reclaim renews the lease of i alone, and only when no other is live.
LEMMA ReclaimGood ==
  ASSUME HistoryOK, Good(acc), NEW i \in Ids, Reclaim(i)
  PROVE  HistoryOK' /\ Good(acc)'
<1> DEFINE n == nonceOf[i]
           r == Refresh(acc, acc.base, now, {})
           q == Reclaimed(r, n, i, now)
           taken == ReclaimGranted(r, n, i) /\ ~IsUsed(r, n)
<1>1. Good(r) /\ r.next = acc.next
  <2>1. acc.base \in Int
    BY DEF Good, IsAccount
  <2> QED
    BY <2>1, RefreshGood
<1>2. n \in Nat /\ i \in Nat \ {0} /\ now \in Nat /\ IsAccount(r)
  BY <1>1 DEF Good, Ids, IsAccount, HistoryOK
<1> HIDE DEF r
<1>3. /\ IsAccount(q)
      /\ q.base = r.base /\ q.used = r.used /\ q.next = r.next
      /\ ~taken => q = r
      /\ taken =>
           /\ DOMAIN q.handed = DOMAIN r.handed \cup {n}
           /\ q.handed[n] = now
           /\ \A m \in DOMAIN r.handed : m # n => q.handed[m] = r.handed[m]
           /\ DOMAIN q.handout = DOMAIN r.handout \cup {n}
           /\ q.handout[n] = i
           /\ \A m \in DOMAIN r.handout : m # n => q.handout[m] = r.handout[m]
  BY ONLY <1>2, ReclaimedFacts
<1>4. /\ acc' = q
      /\ IF taken
           THEN /\ leasedAt' = Put(leasedAt, i, now)
                /\ over' = over \ {i}
                /\ readopted' = IF HandoutOf(r, n) = NoHandout
                                  THEN readopted \cup {i} ELSE readopted
           ELSE UNCHANGED <<leasedAt, over, readopted>>
      /\ i \notin back
      /\ UNCHANGED <<now, nonceOf, back, dropped>>
  BY DEF Reclaim, r
<1> HIDE DEF q
<1>5. CASE ~taken
  <2>1. acc' = r /\ UNCHANGED <<now, nonceOf, leasedAt, back, over, readopted, dropped>>
    BY <1>3, <1>4, <1>5
  <2> QED
    BY <1>1, <2>1 DEF Good, HistoryOK, Ids
<1>6. CASE taken
  <2>1. /\ leasedAt' \in [1..(q.next - 1) -> Nat] /\ nonceOf' \in [1..(q.next - 1) -> Nat]
        /\ Ids = 1..(q.next - 1)
        /\ leasedAt'[i] = now /\ \A j \in Ids : j # i => leasedAt'[j] = leasedAt[j]
    <3>1. leasedAt' = Put(leasedAt, i, now) /\ nonceOf' = nonceOf
      BY <1>4, <1>6
    <3>2. Ids = 1..(q.next - 1) /\ DOMAIN leasedAt = Ids
      BY <1>1, <1>3 DEF Good, Ids
    <3> QED
      BY <1>1, <1>2, <1>3, <3>1, <3>2 DEF Put, Good
  <2>2. ASSUME NEW m \in DOMAIN r.handout, m = n PROVE r.handout[m] = i
    <3>1. HandoutOf(r, n) = r.handout[n] /\ r.handout[n] # NoHandout
      BY <1>2, <2>2 DEF HandoutOf, IsAccount, NoHandout
    <3> QED
      BY <1>6, <2>2, <3>1 DEF ReclaimGranted
  <2>3. ASSUME ~dropped, NEW j \in Ids, j \notin back \cup over',
               now - leasedAt'[j] < Lease, ~IsUsed(q, nonceOf[j])
        PROVE  /\ nonceOf[j] \in DOMAIN q.handed
               /\ q.handed[nonceOf[j]] = leasedAt'[j]
               /\ HandoutOf(q, nonceOf[j]) = j
    <3>1. CASE j = i
      BY <1>3, <1>6, <2>1, <3>1 DEF HandoutOf
    <3>2. CASE j # i
      <4> DEFINE m == nonceOf[j]
      <4>1. j \notin back \cup over /\ leasedAt'[j] = leasedAt[j] /\ ~IsUsed(r, m)
        BY <1>3, <1>4, <1>6, <2>1, <2>3, <3>2 DEF IsUsed
      <4>2. m \in DOMAIN r.handed /\ r.handed[m] = leasedAt[j] /\ HandoutOf(r, m) = j
        BY <1>1, <2>3, <4>1 DEF Good
      <4>3. m \in DOMAIN r.handout /\ r.handout[m] = j
        BY <2>1, <4>2 DEF HandoutOf, NoHandout
      <4>4. m # n
        BY <2>2, <3>2, <4>3
      <4> QED
        BY <1>3, <1>6, <4>1, <4>2, <4>3, <4>4 DEF HandoutOf
    <3> QED
      BY <3>1, <3>2
  <2>4. ASSUME NEW m \in DOMAIN q.handout
        PROVE  /\ q.handout[m] \in Ids /\ nonceOf[q.handout[m]] = m
               /\ q.handout[m] \notin readopted'
                    => \A j \in Ids : nonceOf[j] = m => j =< q.handout[m]
    <3>1. m \in DOMAIN r.handout \/ m = n
      BY <1>3, <1>6
    <3>2. CASE m \in DOMAIN r.handout
      <4>1. q.handout[m] = r.handout[m]
        BY <1>3, <1>6, <2>2, <3>2
      <4>2. readopted \subseteq readopted'
        BY <1>4, <1>6
      <4>3. /\ r.handout[m] \in Ids /\ nonceOf[r.handout[m]] = m
            /\ r.handout[m] \notin readopted
                 => \A j \in Ids : nonceOf[j] = m => j =< r.handout[m]
        BY <1>1, <3>2 DEF Good
      <4> QED
        BY <4>1, <4>2, <4>3
    <3>3. CASE m = n /\ m \notin DOMAIN r.handout
      <4>1. i \in readopted'
        BY <1>4, <1>6, <3>3 DEF HandoutOf, NoHandout
      <4> QED
        BY <1>3, <1>6, <3>3, <4>1
    <3> QED
      BY <3>1, <3>2, <3>3
  <2>5. DOMAIN q.handed \subseteq DOMAIN q.handout
    <3>1. DOMAIN r.handed \subseteq DOMAIN r.handout
      BY <1>1 DEF Good
    <3> QED
      BY <1>3, <1>6, <3>1
  <2>6. Good(acc)'
    BY <1>3, <1>4, <2>1, <2>3, <2>4, <2>5 DEF Good, Ids
  <2>7. HistoryOK'
    BY <1>2, <1>4, <1>6 DEF HistoryOK
  <2> QED
    BY <2>6, <2>7
<1> QED
  BY <1>5, <1>6

-----------------------------------------------------------------------------
(* The theorems.                                                            *)

\* A tracker that has handed nothing out satisfies the invariant.
LEMMA InitIInv == Init => IInv
<1> SUFFICES ASSUME Init PROVE HistoryOK /\ Good(acc)
  BY IInvIsGood
<1>1. HistoryOK
  BY DEF Init, HistoryOK
<1>2. DOMAIN nonceOf = {} /\ nonceOf \in [1..0 -> Nat] /\ leasedAt \in [1..0 -> Nat]
  BY DEF Init
<1>3. /\ DOMAIN acc = {"base", "used", "handed", "handout", "trusted", "next"}
      /\ acc.base = 0 /\ acc.used = {} /\ acc.trusted = NoBase /\ acc.next = 1
      /\ acc.handed = << >> /\ acc.handout = << >>
  BY DEF Init, NewAccount
<1>4. DOMAIN acc.handed = {} /\ DOMAIN acc.handout = {}
  BY <1>3
<1>5. IsAccount(acc)
  BY <1>3, <1>4 DEF IsAccount, NoBase
<1>6. Good(acc)
  BY <1>2, <1>3, <1>4, <1>5 DEF Good, Ids
<1> QED
  BY <1>1, <1>6

\* Every call of the tracker, and the passing of time, keeps the invariant.
LEMMA NextIInv == IInv /\ [Next]_vars => IInv'
<1> SUFFICES ASSUME HistoryOK, Good(acc), [Next]_vars PROVE HistoryOK' /\ Good(acc)'
  BY DEF IInv, HistoryOK, Good, TypeOK, LeaseRecorded, Live, RecordIsLatest, HandedRecorded
<1>0. IsAccount(acc) /\ Ids = 1..(acc.next - 1)
  BY DEF Good, Ids
<1>1. CASE Observe
  <2>1. PICK x \in Answers : acc' = Refresh(acc, x.base, now, x.used)
    BY <1>1 DEF Observe, Answers
  <2>2. Good(Refresh(acc, x.base, now, x.used))
    BY <1>0, AnswersType, RefreshGood
  <2> QED
    BY <1>1, <2>1, <2>2 DEF Observe, history, Good, HistoryOK, Ids
<1>2. CASE TrustBase
  <2>1. PICK b \in 0..MaxBase :
          /\ acc' = TrustedBase(acc, b)
          /\ dropped' = (dropped \/ acc'.base < acc.base)
    BY <1>2 DEF TrustBase
  <2> DEFINE q == TrustedBase(acc, b)
  <2>2. /\ IsAccount(q) /\ q.base =< acc.base
        /\ q.used = acc.used /\ q.handed = acc.handed
        /\ q.handout = acc.handout /\ q.next = acc.next
    BY <1>0, BoundsAssumption, TrustedFacts
  <2>3. UNCHANGED <<now, nonceOf, leasedAt, back, over, readopted>>
    BY <1>2 DEF TrustBase
  <2> HIDE DEF q
  <2>4. dropped' \in BOOLEAN
    BY <2>1 DEF HistoryOK
  <2>5. ~dropped' => ~dropped /\ acc'.base = acc.base
    <3> DEFINE lower == acc'.base < acc.base
    <3>1. dropped' = (dropped \/ lower)
      BY <2>1
    <3>2. ~lower => acc'.base = acc.base
      BY <1>0, <2>1, <2>2 DEF IsAccount, q
    <3> HIDE DEF lower
    <3> QED
      BY <3>1, <3>2, Zenon
  <2> QED
    BY <2>1, <2>2, <2>3, <2>4, <2>5 DEF Good, HistoryOK, Ids, IsUsed, HandoutOf, q
<1>3. CASE Take
  <2>1. PICK x \in Answers : \E n \in FreeNonces(Refresh(acc, x.base, now, x.used)) :
          /\ acc' = HandOut(Refresh(acc, x.base, now, x.used), n, now)
          /\ Recorded(n)
    BY <1>3 DEF Take, Refreshed
  <2> DEFINE r == Refresh(acc, x.base, now, x.used)
  <2>2. PICK n \in FreeNonces(r) : acc' = HandOut(r, n, now) /\ Recorded(n)
    BY <2>1
  <2>3. Good(r) /\ r.next = acc.next
    BY <1>0, AnswersType, RefreshGood
  <2> HIDE DEF r
  <2>4. n \in Nat /\ n \notin DOMAIN r.handed
    BY <2>3, WindowAssumption DEF FreeNonces, Good, IsAccount
  <2>5. UNCHANGED <<now, back, over, readopted, dropped>> /\ over' \subseteq Nat
    BY <1>3 DEF Take, HistoryOK
  <2> QED
    BY <2>2, <2>3, <2>4, <2>5, HandOutGood
<1>4. CASE TakeNone
  <2>1. PICK x \in Answers : acc' = Refresh(acc, x.base, now, x.used)
    BY <1>4 DEF TakeNone, Refreshed
  <2>2. Good(Refresh(acc, x.base, now, x.used))
    BY <1>0, AnswersType, RefreshGood
  <2> QED
    BY <1>4, <2>1, <2>2 DEF TakeNone, history, Good, HistoryOK, Ids
<1>5. CASE Claim
  <2>1. PICK x \in Answers, n \in 1..(MaxBase + Window) :
          IF Claimable(Refresh(acc, x.base, now, x.used), n)
            THEN acc' = HandOut(Refresh(acc, x.base, now, x.used), n, now) /\ Recorded(n)
            ELSE /\ acc' = Refresh(acc, x.base, now, x.used)
                 /\ UNCHANGED <<nonceOf, leasedAt>>
    BY <1>5 DEF Claim, Refreshed
  <2> DEFINE r == Refresh(acc, x.base, now, x.used)
  <2>2. Good(r) /\ r.next = acc.next
    BY <1>0, AnswersType, RefreshGood
  <2>3. UNCHANGED <<now, back, over, readopted, dropped>> /\ over' \subseteq Nat
    BY <1>5 DEF Claim, HistoryOK
  <2> HIDE DEF r
  <2>4. CASE Claimable(r, n)
    <3>1. acc' = HandOut(r, n, now) /\ Recorded(n)
      BY <2>1, <2>4 DEF r
    <3>2. n \in Nat /\ n \notin DOMAIN r.handed
      BY <2>4 DEF Claimable
    <3> QED
      BY <2>2, <2>3, <3>1, <3>2, HandOutGood
  <2>5. CASE ~Claimable(r, n)
    <3>1. acc' = r /\ UNCHANGED <<nonceOf, leasedAt>>
      BY <2>1, <2>5 DEF r
    <3> QED
      BY <2>2, <2>3, <3>1 DEF Good, HistoryOK, Ids
  <2> QED
    BY <2>4, <2>5
<1>6. CASE Hold
  <2>1. CASE acc.base < 1
    <3>1. /\ acc' = HandOut(acc, 1, now) /\ Recorded(1)
          /\ over' = over \cup {i \in Ids : nonceOf[i] = 1}
          /\ UNCHANGED <<now, back, readopted, dropped>>
      BY <1>0, <1>6, <2>1 DEF Hold, HoldNonce, IsAccount
    <3>2. over' \subseteq Nat /\ over \subseteq over'
      <4>1. over \subseteq Nat
        BY DEF HistoryOK
      <4>2. \A i \in Ids : i \in Nat
        BY <1>0 DEF IsAccount
      <4> QED
        BY <3>1, <4>1, <4>2
    <3>3. {i \in Ids : nonceOf[i] = 1} \subseteq over'
      BY <3>1
    <3> QED
      BY <3>1, <3>2, <3>3, HandOutGood
  <2>2. CASE ~(acc.base < 1)
    <3>1. acc' = acc /\ UNCHANGED <<now, nonceOf, leasedAt, back, over, readopted, dropped>>
      BY <1>0, <1>6, <2>2 DEF Hold, HoldNonce, IsAccount
    <3> QED
      BY <3>1 DEF Good, HistoryOK, Ids
  <2> QED
    BY <2>1, <2>2
<1>7. ASSUME NEW i \in Ids, Reclaim(i) PROVE HistoryOK' /\ Good(acc)'
  BY <1>7, ReclaimGood
<1>8. ASSUME NEW i \in Ids, NEW outcome \in Outcomes, SettleHandout(i, outcome)
      PROVE  HistoryOK' /\ Good(acc)'
  <2>1. i # NoHandout
    BY <1>0 DEF NoHandout
  <2> QED
    BY <1>8, <2>1, SettleGood DEF SettleHandout
<1>9. CASE ReleaseUnsigned
  <2>1. PICK i \in Ids :
          /\ HandoutOf(acc, nonceOf[i]) = i
          /\ acc' = Settle(acc, nonceOf[i], Free, NoHandout)
          /\ back' = back \cup {i}
    BY <1>9 DEF ReleaseUnsigned
  <2>2. Free \in Outcomes
    BY DEF Outcomes
  <2>3. UNCHANGED <<now, nonceOf, leasedAt, over, readopted, dropped>>
    BY <1>9 DEF ReleaseUnsigned
  <2> QED
    BY <2>1, <2>2, <2>3, SettleGood
<1>10. CASE Tick
  <2>1. now' = now + 1 /\ UNCHANGED <<acc, nonceOf, leasedAt, back, over, readopted, dropped>>
    BY <1>10 DEF Tick, history
  <2>2. \A i \in Ids : leasedAt[i] \in Nat
    BY <1>0 DEF Good
  <2>3. now \in Nat /\ now' \in Nat
    BY <2>1 DEF HistoryOK
  <2>4. \A i \in Ids : now' - leasedAt[i] < Lease => now - leasedAt[i] < Lease
    BY <2>1, <2>2, <2>3, LeaseAssumption
  <2> QED
    BY <2>1, <2>3, <2>4 DEF Good, HistoryOK, Ids
<1>11. CASE UNCHANGED vars
  BY <1>11 DEF vars, Good, HistoryOK, Ids
<1> QED
  BY <1>1, <1>2, <1>3, <1>4, <1>5, <1>6, <1>7, <1>8, <1>9, <1>10, <1>11 DEF Next

\* The inductive invariant holds in every reachable state.
THEOREM Invariant == Spec => []IInv
BY InitIInv, NextIInv, PTL DEF Spec

\* Every field of the account keeps its shape, and the history its entries.
THEOREM TypeCorrect == Spec => []TypeOK
<1>1. IInv => TypeOK
  BY DEF IInv
<1> QED
  BY <1>1, Invariant, PTL

\* Two hand-outs of one nonce are never live at once: no two writes in flight
\* share a nonce, while trust_base has not lowered the base.
THEOREM LeasesAreExclusive == Spec => []LeaseExclusive
<1>1. IInv => LeaseExclusive
  BY DEF IInv, LeaseRecorded, LeaseExclusive
<1> QED
  BY <1>1, Invariant, PTL

\* The record still_handed_to and reclaim read names the latest hand-out of
\* its nonce, unless an older one was reclaimed after the record was lost.
THEOREM RecordsAreLatest == Spec => []RecordIsLatest
<1>1. IInv => RecordIsLatest
  BY DEF IInv
<1> QED
  BY <1>1, Invariant, PTL

\* Every nonce handed out has the record of who it went to.
THEOREM HandedAreRecorded == Spec => []HandedRecorded
<1>1. IInv => HandedRecorded
  BY DEF IInv
<1> QED
  BY <1>1, Invariant, PTL

-----------------------------------------------------------------------------
(* How a step moves the base: trust_base apart, up to an answer or not at   *)
(* all, and keeping every used nonce above it.                              *)

Raises(a, x) ==
  /\ a.base = Larger(acc.base, x.base)
  /\ a.trusted = acc.trusted
  /\ \A n \in acc.used : n > a.base => n \in a.used

Stays(a) ==
  /\ a.base = acc.base
  /\ a.trusted = acc.trusted
  /\ \A n \in acc.used : n > a.base => n \in a.used

\* _refresh never lowers the base nor forgets a used nonce above it.
LEMMA RefreshRaises ==
  ASSUME IsAccount(acc), now \in Nat, NEW b \in Int, NEW u, u \subseteq Nat
  PROVE  LET r == Refresh(acc, b, now, u)
         IN /\ r.base = Larger(acc.base, b) /\ r.trusted = acc.trusted
            /\ \A n \in acc.used : n > r.base => n \in r.used
<1> DEFINE r == Refresh(acc, b, now, u)
<1>1. /\ r.base = Larger(acc.base, b) /\ r.trusted = acc.trusted
      /\ \A n : n \in r.used <=> n \in acc.used \cup u /\ n > r.base
  <2>1. RefreshLeaves(r, acc, b, now, u)
    BY RefreshFacts
  <2> QED
    BY <2>1 DEF RefreshLeaves
<1> HIDE DEF r
<1>2. \A n \in acc.used : n > r.base => n \in r.used
  BY <1>1
<1> QED
  BY <1>1, <1>2 DEF r

\* Every step but trust_base takes in some answer or leaves the base alone.
LEMMA BaseMoves ==
  ASSUME IInv, [Next]_vars
  PROVE  \/ TrustBase
         \/ \E x \in Answers : Raises(acc', x)
         \/ Stays(acc')
<1>0. IsAccount(acc) /\ now \in Nat /\ Ids = 1..(acc.next - 1) /\ nonceOf \in [Ids -> Nat]
  BY DEF IInv, TypeOK, Ids
<1>1. ASSUME NEW x \in Answers, acc' = Refresh(acc, x.base, now, x.used)
      PROVE  Raises(acc', x)
  BY <1>0, <1>1, AnswersType, RefreshRaises DEF Raises
<1>2. ASSUME NEW x \in Answers, NEW n \in Nat,
             acc' = HandOut(Refresh(acc, x.base, now, x.used), n, now)
      PROVE  Raises(acc', x)
  <2> DEFINE r == Refresh(acc, x.base, now, x.used)
             q == HandOut(r, n, now)
  <2>1. Raises(r, x) /\ IsAccount(r)
    BY <1>0, AnswersType, RefreshRaises, RefreshFacts DEF Raises, RefreshLeaves
  <2> HIDE DEF r
  <2>2. q.base = r.base /\ q.used = r.used /\ q.trusted = r.trusted
    BY <2>1 DEF HandOut, IsAccount
  <2>3. acc' = q
    BY <1>2 DEF r
  <2> HIDE DEF q
  <2> QED
    BY <2>1, <2>2, <2>3 DEF Raises
<1>3. CASE Observe
  <2>1. PICK x \in Answers : acc' = Refresh(acc, x.base, now, x.used)
    BY <1>3 DEF Observe, Answers
  <2> QED
    BY <1>1, <2>1
<1>4. CASE Take
  <2>1. PICK x \in Answers : \E n \in FreeNonces(Refresh(acc, x.base, now, x.used)) :
          acc' = HandOut(Refresh(acc, x.base, now, x.used), n, now)
    BY <1>4 DEF Take, Refreshed
  <2> DEFINE r == Refresh(acc, x.base, now, x.used)
  <2>2. r.base \in Nat
    BY <1>0, AnswersType, RefreshFacts DEF RefreshLeaves, IsAccount
  <2>3. \A n \in FreeNonces(r) : n \in Nat
    BY <2>2, WindowAssumption DEF FreeNonces
  <2> QED
    BY <1>2, <2>1, <2>3
<1>5. CASE TakeNone
  <2>1. PICK x \in Answers : acc' = Refresh(acc, x.base, now, x.used)
    BY <1>5 DEF TakeNone, Refreshed
  <2> QED
    BY <1>1, <2>1
<1>6. CASE Claim
  <2>1. PICK x \in Answers, n \in 1..(MaxBase + Window) :
          \/ acc' = HandOut(Refresh(acc, x.base, now, x.used), n, now)
          \/ acc' = Refresh(acc, x.base, now, x.used)
    BY <1>6 DEF Claim, Refreshed
  <2>2. n \in Nat
    OBVIOUS
  <2> QED
    BY <1>1, <1>2, <2>1, <2>2
<1>7. CASE Hold
  <2>1. acc' = acc \/ acc' = HandOut(acc, 1, now)
    BY <1>7 DEF Hold, HoldNonce
  <2> DEFINE q == HandOut(acc, 1, now)
  <2>2. q.base = acc.base /\ q.used = acc.used /\ q.trusted = acc.trusted
    BY <1>0 DEF HandOut, IsAccount
  <2> QED
    BY <2>1, <2>2 DEF Stays
<1>8. ASSUME NEW i \in Ids, Reclaim(i)
      PROVE  Stays(acc')
  <2> DEFINE r == Refresh(acc, acc.base, now, {})
             q == Reclaimed(r, nonceOf[i], i, now)
  <2>1. acc.base \in Nat /\ acc.used \subseteq Nat
    BY <1>0 DEF IsAccount
  <2>2. r.base = Larger(acc.base, acc.base) /\ r.trusted = acc.trusted /\ IsAccount(r)
        /\ \A n : n \in r.used <=> n \in acc.used \cup {} /\ n > r.base
    <3>0. acc.base \in Int /\ {} \subseteq Nat
      BY <2>1
    <3>1. RefreshLeaves(r, acc, acc.base, now, {})
      BY <1>0, <3>0, RefreshFacts, Zenon
    <3> HIDE DEF r
    <3> QED
      BY <3>1 DEF RefreshLeaves
  <2>3. r.base = acc.base
    BY <2>1, <2>2 DEF Larger
  <2> HIDE DEF r
  <2>4. q.base = r.base /\ q.used = r.used /\ q.trusted = r.trusted
    BY <2>2 DEF Reclaimed, IsAccount
  <2>5. acc' = q
    BY <1>8 DEF Reclaim, r
  <2> QED
    BY <2>2, <2>3, <2>4, <2>5 DEF Stays
<1>9. ASSUME NEW i \in Ids, NEW h \in Nat, NEW o \in Outcomes,
             acc' = Settle(acc, nonceOf[i], o, h)
      PROVE  Stays(acc')
  <2>1. nonceOf[i] \in Nat
    BY <1>0 DEF IInv, TypeOK
  <2>2. SettleLeaves(Settle(acc, nonceOf[i], o, h), acc, nonceOf[i], o, h)
    BY <1>0, <2>1, SettleFacts
  <2> QED
    BY <1>9, <2>2 DEF SettleLeaves, Stays
<1>10. ASSUME NEW i \in Ids, NEW o \in Outcomes, SettleHandout(i, o)
       PROVE  Stays(acc')
  <2>1. i \in Nat
    BY <1>0 DEF IsAccount
  <2> QED
    BY <1>9, <1>10, <2>1 DEF SettleHandout
<1>11. CASE ReleaseUnsigned
  <2>1. NoHandout \in Nat /\ Free \in Outcomes
    BY DEF NoHandout, Outcomes
  <2> QED
    BY <1>9, <1>11, <2>1 DEF ReleaseUnsigned
<1>12. CASE Tick \/ UNCHANGED vars
  BY <1>12 DEF Tick, vars, Stays
<1> QED
  BY <1>3, <1>4, <1>5, <1>6, <1>7, <1>8, <1>10, <1>11, <1>12, <1>1 DEF Next

\* A nonce once used stays used, whatever answers come in whatever order,
\* unless trust_base lowers the base.
THEOREM UsedStays == Spec => UsedStaysUsed
<1>1. ASSUME IInv, [Next]_vars, ~dropped', NEW n \in 0..(MaxBase + Window), IsUsed(acc, n)
      PROVE  IsUsed(acc', n)
  <2>1. n \in Nat /\ acc.base \in Nat /\ IsAccount(acc)
    BY <1>1, BoundsAssumption, WindowAssumption DEF IInv, TypeOK, IsAccount
  <2>2. CASE TrustBase
    <3>1. PICK b \in 0..MaxBase :
            /\ acc' = TrustedBase(acc, b)
            /\ dropped' = (dropped \/ acc'.base < acc.base)
      BY <2>2 DEF TrustBase
    <3>2. acc'.used = acc.used /\ acc'.base \in Nat /\ acc'.base =< acc.base
      BY <2>1, <3>1, BoundsAssumption, TrustedFacts DEF IsAccount
    <3> DEFINE lower == acc'.base < acc.base
    <3>3. dropped' = (dropped \/ lower)
      BY <3>1
    <3>4. ~lower => acc'.base = acc.base
      BY <2>1, <3>2
    <3> HIDE DEF lower
    <3>5. ~lower
      BY <1>1, <3>3, Zenon
    <3> QED
      BY <1>1, <3>2, <3>4, <3>5 DEF IsUsed
  <2>3. ASSUME NEW x \in Answers, Raises(acc', x) PROVE IsUsed(acc', n)
    <3>1. acc'.base \in Int /\ acc'.base >= acc.base
      BY <2>1, <2>3, AnswersType DEF Raises, Larger
    <3> QED
      BY <1>1, <2>1, <2>3, <3>1 DEF Raises, IsUsed
  <2>4. CASE Stays(acc')
    BY <1>1, <2>1, <2>4 DEF Stays, IsUsed
  <2> QED
    BY <1>1, <2>2, <2>3, <2>4, BaseMoves
<1>2. IInv /\ [Next]_vars
        => [~dropped' => \A n \in 0..(MaxBase + Window) : IsUsed(acc, n) => IsUsed(acc', n)]_vars
  BY <1>1
<1> QED
  BY <1>2, Invariant, PTL DEF Spec, UsedStaysUsed

\* A nonce that is free on the refreshed account was not known used before it.
LEMMA FreeNotUsed ==
  ASSUME IInv, NEW x \in Answers, NEW n \in Int,
         LET r == Refresh(acc, x.base, now, x.used) IN n > r.base /\ n \notin r.used
  PROVE  ~IsUsed(acc, n)
<1> DEFINE r == Refresh(acc, x.base, now, x.used)
<1>1. IsAccount(acc) /\ now \in Nat /\ acc.base \in Nat
  BY DEF IInv, TypeOK, IsAccount
<1>2. x.base \in Int /\ x.used \subseteq Nat
  BY <1>1, AnswersType
<1>3. /\ r.base = Larger(acc.base, x.base)
      /\ \A m \in acc.used : m > r.base => m \in r.used
  BY <1>1, <1>2, RefreshRaises
<1>4. n > r.base /\ n \notin r.used
  OBVIOUS
<1> HIDE DEF r
<1>5. r.base \in Int /\ r.base >= acc.base
  BY <1>1, <1>2, <1>3 DEF Larger
<1> QED
  BY <1>1, <1>3, <1>4, <1>5 DEF IsUsed

\* take and claim never hand out a nonce known used.
THEOREM UsedAreNotHandedOut == Spec => UsedNeverHandedOut
<1>1. ASSUME IInv, [Next]_vars, ~Hold, NEW i \in DOMAIN nonceOf' \ Ids
      PROVE  ~IsUsed(acc, nonceOf'[i])
  <2>1. ASSUME NEW x \in Answers, NEW n \in Int, Recorded(n),
               LET r == Refresh(acc, x.base, now, x.used) IN n > r.base /\ n \notin r.used
        PROVE  ~IsUsed(acc, nonceOf'[i])
    <3>1. nonceOf'[i] = n
      BY <1>1, <2>1 DEF Recorded, Put, Ids
    <3> QED
      BY <1>1, <2>1, <3>1, FreeNotUsed
  <2>2. CASE nonceOf' = nonceOf
    BY <1>1, <2>2 DEF Ids
  <2>3. CASE Take
    <3>1. PICK x \in Answers :
            LET r == Refresh(acc, x.base, now, x.used)
            IN \E n \in FreeNonces(r) : Recorded(n)
      BY <2>3 DEF Take, Refreshed
    <3> DEFINE r == Refresh(acc, x.base, now, x.used)
    <3>2. PICK n \in FreeNonces(r) : Recorded(n)
      BY <3>1
    <3>3. r.base \in Nat
      BY <1>1, RefreshedBase DEF IInv, TypeOK
    <3> HIDE DEF r
    <3>4. n \in Int /\ n > r.base /\ n \notin r.used
      BY <3>2, <3>3, WindowAssumption DEF FreeNonces
    <3> QED
      BY <2>1, <3>2, <3>4 DEF r
  <2>4. CASE Claim
    <3>1. PICK x \in Answers, n \in 1..(MaxBase + Window) :
            LET r == Refresh(acc, x.base, now, x.used)
            IN (Claimable(r, n) /\ Recorded(n)) \/ nonceOf' = nonceOf
      BY <2>4 DEF Claim, Refreshed
    <3> DEFINE r == Refresh(acc, x.base, now, x.used)
    <3>2. CASE Claimable(r, n) /\ Recorded(n)
      <4>1. n \in Int
        OBVIOUS
      <4>2. n > r.base /\ n \notin r.used
        <5>1. r.base \in Nat
          BY <1>1, RefreshedBase DEF IInv, TypeOK
        <5> HIDE DEF r
        <5> QED
          BY <3>2, <4>1, <5>1 DEF Claimable, InWindow
      <4> QED
        BY <2>1, <3>2, <4>1, <4>2
    <3> QED
      BY <2>2, <3>1, <3>2
  <2> QED
    BY <1>1, <2>2, <2>3, <2>4
       DEF Next, Observe, TrustBase, TakeNone, Reclaim, SettleHandout, ReleaseUnsigned, Tick,
           history, vars
<1>2. IInv /\ [Next]_vars
        => [~Hold => \A i \in DOMAIN nonceOf' \ Ids : ~IsUsed(acc, nonceOf'[i])]_vars
  BY <1>1
<1> QED
  BY <1>2, Invariant, PTL DEF Spec, UsedNeverHandedOut

\* Without a consensus RPC nothing is ever trusted.
TrustNeedsRpc == ~Rpc => acc.trusted = NoBase

\* The base is capped by the trusted one in every reachable state.
LEMMA CapInvariant == Spec => [](TrustNeedsRpc /\ TrustedCapsBase)
<1>1. Init => TrustNeedsRpc /\ TrustedCapsBase
  BY DEF Init, NewAccount, TrustNeedsRpc, TrustedCapsBase
<1>2. ASSUME IInv, [Next]_vars, TrustNeedsRpc, TrustedCapsBase
      PROVE  (TrustNeedsRpc /\ TrustedCapsBase)'
  <2>1. IsAccount(acc)
    BY <1>2 DEF IInv, TypeOK
  <2>2. CASE TrustBase
    <3>1. PICK b \in 0..MaxBase : acc' = TrustedBase(acc, b)
      BY <2>2 DEF TrustBase
    <3>2. acc'.base =< acc'.trusted
      BY <2>1, <3>1, BoundsAssumption, TrustedFacts
    <3> QED
      BY <2>2, <3>2 DEF TrustBase, TrustNeedsRpc, TrustedCapsBase
  <2>3. ASSUME NEW x \in Answers, Raises(acc', x) PROVE (TrustNeedsRpc /\ TrustedCapsBase)'
    <3>1. acc.trusted # NoBase => x.base =< acc.trusted
      <4>1. CASE x \in ApiAnswers
        <5>1. PICK b \in 0..MaxBase : x = [base |-> ApiBase(b), used |-> {}]
          BY <4>1 DEF ApiAnswers
        <5>2. acc.trusted # NoBase => ApiBase(b) =< acc.trusted
          BY <1>2, <2>1, BoundsAssumption DEF ApiBase, TrustNeedsRpc, Smaller, IsAccount
        <5> QED
          BY <5>1, <5>2
      <4>2. CASE x \in RpcAnswers
        BY <4>2 DEF RpcAnswers
      <4> QED
        BY <4>1, <4>2 DEF Answers
    <3>2. acc'.base = Larger(acc.base, x.base) /\ acc'.trusted = acc.trusted
      BY <2>3 DEF Raises
    <3> QED
      BY <1>2, <3>1, <3>2 DEF Larger, TrustNeedsRpc, TrustedCapsBase
  <2>4. CASE Stays(acc')
    BY <1>2, <2>4 DEF Stays, TrustNeedsRpc, TrustedCapsBase
  <2> QED
    BY <1>2, <2>2, <2>3, <2>4, BaseMoves
<1> QED
  BY <1>1, <1>2, Invariant, PTL DEF Spec

\* A trusted base bounds the base nonces are handed out from.
THEOREM TrustedBaseCaps == Spec => []TrustedCapsBase
BY CapInvariant, PTL

\* Only the first trusted answer can lower the base.
THEOREM DropsOnce == Spec => DropsOnlyOnFirstTrust
<1>1. ASSUME IInv, TrustedCapsBase, [Next]_vars, acc.trusted # NoBase
      PROVE  acc'.base >= acc.base
  <2>1. IsAccount(acc) /\ acc.base \in Nat
    BY <1>1 DEF IInv, TypeOK, IsAccount
  <2>2. CASE TrustBase
    <3>1. PICK b \in 0..MaxBase : acc' = TrustedBase(acc, b)
      BY <2>2 DEF TrustBase
    <3>2. acc.base =< acc.trusted
      BY <1>1 DEF TrustedCapsBase
    <3>3. acc'.base = acc.base
      BY <2>1, <3>1, <3>2, BoundsAssumption, TrustedFacts
    <3> QED
      BY <2>1, <3>3
  <2>3. ASSUME NEW x \in Answers, Raises(acc', x) PROVE acc'.base >= acc.base
    BY <2>1, <2>3, AnswersType DEF Raises, Larger
  <2>4. CASE Stays(acc')
    BY <2>1, <2>4 DEF Stays
  <2> QED
    BY <1>1, <2>2, <2>3, <2>4, BaseMoves
<1>2. IInv /\ TrustedCapsBase /\ [Next]_vars
        => [acc.trusted # NoBase => acc'.base >= acc.base]_vars
  BY <1>1
<1> QED
  BY <1>2, Invariant, TrustedBaseCaps, PTL DEF Spec, DropsOnlyOnFirstTrust
=============================================================================
