---------------------------- MODULE WritesProofs ----------------------------
(***************************************************************************)
(* What Writes keeps for every set of writes, every window, lease and      *)
(* history, and any number of registrations.                               *)
(***************************************************************************)
EXTENDS Writes, NonceAccountProofs

Transactions == [op : Ops, nonce : Nat]

TypeOK ==
  /\ registrations \subseteq Ops
  /\ mode \in Modes
  /\ IsAccount(acc)
  /\ now \in Nat
  /\ st \in [Ops -> States]
  /\ nonce \in [Ops -> Nat]
  /\ hid \in [Ops -> Nat]
  /\ resub \in [Ops -> BOOLEAN]
  /\ reply \in [Ops -> Replies]
  /\ open \subseteq Ops
  /\ born \in [Ops -> Nat]
  /\ readopted \subseteq Ops
  /\ mempool \subseteq Transactions
  /\ net \subseteq Transactions
  /\ landed \in Seq(Transactions)

Copies == mempool \cup net \cup Landed
NoCopy(w) == \A t \in Copies : t.op # w

\* Not called yet, or with an error that carries no transaction, or posted for
\* the first time and refused or not answered yet.
Unsent(w) ==
  \/ st[w] \in {"idle", "failed"}
  \/ st[w] = "posting" /\ ~resub[w] /\ reply[w] \in {"none", "refused", "held", "never"}

\* Every copy of a write that exists anywhere is of the one transaction it is
\* signed as: a write is signed anew only when no copy of it is left.
CopiesAreSigned == \A t \in Copies : t = TxOf(t.op)

\* Such a write has no copy anywhere.
NoneLeft == \A w \in Ops : Unsent(w) => NoCopy(w)

\* The nonces of what the mempool holds are unused, and each is of one
\* transaction.
MempoolInv ==
  \A t \in mempool :
    ~NonceUsed(t.nonce) /\ \A u \in mempool : u.nonce = t.nonce => u = t

\* Below the tracker's base every nonce is used, and a write called has one
\* above 0.
BaseUsed == \A n \in 1..acc.base : NonceUsed(n)
Signed == \A w \in Ops : st[w] # "idle" => nonce[w] > 0

CopiesInv == CopiesAreSigned /\ NoneLeft /\ MempoolInv
NodeInv == TypeOK /\ BaseUsed /\ Signed /\ CopiesInv

-----------------------------------------------------------------------------
\* The base a node that answers after k transactions has.
LEMMA BaseAfterFacts ==
  ASSUME NEW k \in Nat
  PROVE  BaseAfter(k) \in 0..k /\ 1..BaseAfter(k) \subseteq UsedAfter(k)
<1>1. \E b \in 0..k : 1..b \subseteq UsedAfter(k) /\ b + 1 \notin UsedAfter(k)
  BY BaseExists DEF UsedAfter
<1> QED
  BY <1>1 DEF BaseAfter

\* What the client reads of the account: bases below which every nonce is
\* used, on an account no base of which rose and no record of which changed.
ReadIsOf(r) ==
  /\ IsAccount(r.acc) /\ r.acc.base =< acc.base
  /\ r.acc.next = acc.next /\ r.acc.handout = acc.handout
  /\ r.acc.used = acc.used /\ r.acc.handed = acc.handed
  /\ ~rpc => r.acc = acc
  /\ r.base \in Nat /\ \A n \in 1..r.base : NonceUsed(n)
  /\ r.used \subseteq Nat
  /\ r \in RpcReads => \A n \in r.used : NonceUsed(n)

\* Every answer the client reads has those properties.
LEMMA ReadsFacts ==
  ASSUME TypeOK, NEW r \in ApiReads \cup RpcReads, rpc \/ r \in ApiReads
  PROVE  ReadIsOf(r)
<1>1. ASSUME NEW k \in Answers
      PROVE  /\ BaseAfter(k) \in Nat /\ \A n \in 1..BaseAfter(k) : NonceUsed(n)
             /\ AboveAfter(k) \subseteq Nat /\ \A n \in AboveAfter(k) : NonceUsed(n)
  <2>1. Len(landed) \in Nat /\ k \in Nat /\ 1..k \subseteq 1..Len(landed)
    BY DEF TypeOK, Answers
  <2>2. UsedAfter(k) \subseteq UsedAfter(Len(landed))
    BY <2>1 DEF UsedAfter
  <2>3. UsedAfter(k) \subseteq Nat
    <3>1. \A i \in 1..k : landed[i] \in Transactions
      BY <2>1 DEF TypeOK
    <3> QED
      BY <3>1 DEF UsedAfter, Transactions
  <2>4. BaseAfter(k) \in 0..k /\ 1..BaseAfter(k) \subseteq UsedAfter(k)
    BY <2>1, BaseAfterFacts
  <2> QED
    BY <2>1, <2>2, <2>3, <2>4 DEF NonceUsed, AboveAfter
<1>2. IsAccount(acc) /\ acc.base \in Nat /\ acc.trusted \in Nat \cup {NoBase}
  BY DEF TypeOK, IsAccount
<1>3. CASE r \in RpcReads
  <2>1. PICK k \in Answers :
          r = [acc |-> TrustedBase(acc, BaseAfter(k)), base |-> BaseAfter(k),
               used |-> AboveAfter(k)]
    BY <1>3 DEF RpcReads
  <2> DEFINE a == TrustedBase(acc, BaseAfter(k))
  <2>2. /\ IsAccount(a) /\ a.base =< acc.base
        /\ a.next = acc.next /\ a.handout = acc.handout
        /\ a.used = acc.used /\ a.handed = acc.handed
    BY <1>1, <1>2, TrustedFacts
  <2> HIDE DEF a
  <2>3. r.acc = a /\ r.base = BaseAfter(k) /\ r.used = AboveAfter(k)
    BY <2>1 DEF a
  <2>4. ~rpc => r.acc = acc
    <3>1. ASSUME r \in ApiReads PROVE r.acc = acc
      BY <3>1 DEF ApiReads
    <3> QED
      BY <3>1
  <2> QED
    BY <1>1, <2>2, <2>3, <2>4 DEF ReadIsOf
<1>4. CASE r \in ApiReads /\ r \notin RpcReads
  <2>1. PICK k \in Answers :
          /\ r.acc = acc /\ r.used = {}
          /\ r.base = IF rpc /\ acc.trusted # NoBase THEN Smaller(BaseAfter(k), acc.trusted)
                      ELSE BaseAfter(k)
    BY <1>4 DEF ApiReads
  <2>2. r.base \in Nat /\ r.base =< BaseAfter(k)
    BY <1>1, <1>2, <2>1 DEF Smaller
  <2> QED
    BY <1>1, <1>2, <1>4, <2>1, <2>2 DEF ReadIsOf
<1> QED
  BY <1>3, <1>4

-----------------------------------------------------------------------------
\* What _refresh makes of the account with an answer the client reads: no
\* record but of a nonce at or below the base is lost, and none changes.
RefreshedTo(q) ==
  /\ IsAccount(q) /\ q.next = acc.next
  /\ \A n \in 1..q.base : NonceUsed(n)
  /\ \A n : HandoutOf(q, n) \in {HandoutOf(acc, n), NoHandout}
  /\ \A n \in Nat : IsUsed(q, n) \/ HandoutOf(q, n) = HandoutOf(acc, n)
  /\ \A n \in DOMAIN q.handed : n \in DOMAIN acc.handed /\ q.handed[n] = acc.handed[n]
  /\ \A n \in DOMAIN acc.handed :
       now - acc.handed[n] < Lease => IsUsed(q, n) \/ n \in DOMAIN q.handed
  /\ ~rpc => \A n \in Nat : IsUsed(acc, n) => IsUsed(q, n)

\* The account a call works on is refreshed so.
LEMMA RefreshedFacts ==
  ASSUME TypeOK, BaseUsed, NEW r, ReadIsOf(r)
  PROVE  RefreshedTo(Refresh(r.acc, r.base, now, r.used))
<1> DEFINE q == Refresh(r.acc, r.base, now, r.used)
<1>1. IsAccount(r.acc) /\ r.base \in Nat /\ now \in Nat /\ r.used \subseteq Nat
  BY DEF ReadIsOf, TypeOK
<1>2. RefreshLeaves(q, r.acc, r.base, now, r.used)
  <2>1. \A a, b, u : IsAccount(a) /\ b \in Int /\ u \subseteq Nat
                       => RefreshLeaves(Refresh(a, b, now, u), a, b, now, u)
    BY <1>1, RefreshFacts
  <2> QED
    BY <1>1, <2>1
<1> HIDE DEF q
<1>3. /\ q.base \in Nat /\ acc.base \in Nat /\ r.acc.base \in Nat
      /\ q.base = Larger(r.acc.base, r.base)
  BY <1>1, <1>2 DEF RefreshLeaves, IsAccount, TypeOK
<1>4. \A n \in 1..q.base : NonceUsed(n)
  BY <1>1, <1>3 DEF Larger, ReadIsOf, BaseUsed
<1>5. /\ \A n : n \in DOMAIN q.handout => n \in DOMAIN acc.handout
      /\ \A n : n \in DOMAIN acc.handout /\ n > q.base => n \in DOMAIN q.handout
      /\ \A n : n \in DOMAIN q.handout => q.handout[n] = acc.handout[n]
  BY <1>2 DEF RefreshLeaves, ReadIsOf
<1>6. \A n : HandoutOf(q, n) \in {HandoutOf(acc, n), NoHandout}
  BY <1>5 DEF HandoutOf
<1>7. \A n \in Nat : IsUsed(q, n) \/ HandoutOf(q, n) = HandoutOf(acc, n)
  BY <1>3, <1>5 DEF HandoutOf, IsUsed
<1>8. \A n \in DOMAIN q.handed : n \in DOMAIN acc.handed /\ q.handed[n] = acc.handed[n]
  BY <1>2 DEF RefreshLeaves, ReadIsOf
<1>9. \A n \in DOMAIN acc.handed :
        now - acc.handed[n] < Lease => IsUsed(q, n) \/ n \in DOMAIN q.handed
  <2>1. \A n \in DOMAIN acc.handed : n \in Nat
    BY DEF TypeOK, IsAccount
  <2> QED
    BY <1>2, <1>3, <2>1 DEF RefreshLeaves, ReadIsOf, IsUsed
<1>10. ASSUME ~rpc, NEW n \in Nat, IsUsed(acc, n) PROVE IsUsed(q, n)
  <2>1. q.base >= acc.base
    BY <1>3, <1>10 DEF Larger, ReadIsOf
  <2>2. n \in acc.used /\ n > q.base => n \in q.used
    BY <1>2 DEF RefreshLeaves, ReadIsOf
  <2> QED
    BY <1>3, <1>10, <2>1, <2>2 DEF IsUsed
<1>11. IsAccount(q) /\ q.next = acc.next
  BY <1>2 DEF RefreshLeaves, ReadIsOf
<1> QED
  BY <1>4, <1>6, <1>7, <1>8, <1>9, <1>10, <1>11 DEF RefreshedTo, q

\* A call hands out a nonce free on the account refreshed so, and posts or,
\* when signing fails, gives it back; or sends nothing; or is a RegisterDid.
FreeOn(r, n) == RefreshedTo(r) /\ ~IsUsed(r, n) /\ n \notin DOMAIN r.handed

Called(w) ==
  \/ RefreshedTo(acc') /\ Reread(acc')
  \/ \E r : \E n \in Nat \ {0} :
       /\ FreeOn(r, n) /\ acc'.next = r.next + 1
       /\ \/ Reread(acc') /\ Returned(acc', r, n)
          \/ Post(w, n, acc') /\ Leased(acc', r, n, r.next, now)
  \/ /\ w \in registrations /\ Post(w, 1, acc')
     /\ \/ acc.base > 0 /\ acc' = acc
        \/ acc.base = 0 /\ acc'.next = acc.next + 1 /\ Leased(acc', acc, 1, acc.next, now)

\* Each way to call a write is one of these.
LEMMA CallsFacts ==
  ASSUME TypeOK, BaseUsed, NEW w \in Ops,
         \/ Submit(w) \/ SubmitUnsigned(w) \/ RegisterDid(w)
         \/ \E n \in 1..(NodeWindow + 1) : SubmitUnder(w, n)
  PROVE  MayCall(w) /\ Called(w)
<1>1. ASSUME NEW r \in Reads
      PROVE  RefreshedTo(Refresh(r.acc, r.base, now, r.used))
  <2>1. r \in ApiReads \cup RpcReads /\ (rpc \/ r \in ApiReads)
    BY <1>1 DEF Reads
  <2> QED
    BY <2>1, ReadsFacts, RefreshedFacts
<1>2. ASSUME NEW q, RefreshedTo(q), NEW n \in FreeNonces(q)
      PROVE  n \in Nat \ {0} /\ FreeOn(q, n)
  <2>1. q.base \in Nat
    BY <1>2 DEF RefreshedTo, IsAccount
  <2> QED
    BY <1>2, <2>1, WindowAssumption DEF FreeNonces, IsUsed, FreeOn
<1>3. ASSUME NEW q, NEW n \in Nat \ {0}, FreeOn(q, n), Post(w, n, HandOut(q, n, now))
      PROVE  Called(w)
  <2>1. acc' = HandOut(q, n, now) /\ IsAccount(q) /\ now \in Nat
    BY <1>3 DEF Post, FreeOn, RefreshedTo, TypeOK
  <2>2. Leased(acc', q, n, q.next, now) /\ acc'.next = q.next + 1
    BY <2>1, HandOutLeases
  <2> QED
    BY <1>3, <2>1, <2>2 DEF Called
<1>4. CASE Submit(w)
  <2>1. PICK r \in Reads :
          LET q == Refresh(r.acc, r.base, now, r.used)
          IN \/ Reread(q)
             \/ \E n \in FreeNonces(q) : Post(w, n, HandOut(q, n, now))
    BY <1>4 DEF Submit
  <2> DEFINE q == Refresh(r.acc, r.base, now, r.used)
  <2>2. RefreshedTo(q)
    BY <1>1
  <2>3. Reread(q) \/ \E n \in FreeNonces(q) : Post(w, n, HandOut(q, n, now))
    BY <2>1
  <2> HIDE DEF q
  <2>4. ASSUME NEW n \in FreeNonces(q), Post(w, n, HandOut(q, n, now)) PROVE Called(w)
    BY <1>2, <1>3, <2>2, <2>4
  <2>5. Reread(q) => Called(w)
    BY <2>2 DEF Called, Reread
  <2> QED
    BY <1>4, <2>3, <2>4, <2>5 DEF Submit
<1>5. CASE SubmitUnsigned(w)
  <2>1. PICK r \in Reads :
          LET q == Refresh(r.acc, r.base, now, r.used)
          IN \E n \in FreeNonces(q) : Reread(Settle(HandOut(q, n, now), n, Free, NoHandout))
    BY <1>5 DEF SubmitUnsigned
  <2> DEFINE q == Refresh(r.acc, r.base, now, r.used)
  <2>2. RefreshedTo(q)
    BY <1>1
  <2>3. \E n \in FreeNonces(q) : Reread(Settle(HandOut(q, n, now), n, Free, NoHandout))
    BY <2>1
  <2> HIDE DEF q
  <2>4. ASSUME NEW n \in FreeNonces(q), Reread(Settle(HandOut(q, n, now), n, Free, NoHandout))
        PROVE  Called(w)
    <3>1. n \in Nat \ {0} /\ FreeOn(q, n)
      BY <1>2, <2>2
    <3>2. acc' = Settle(HandOut(q, n, now), n, Free, NoHandout) /\ IsAccount(q) /\ now \in Nat
      BY <2>2, <2>4 DEF Reread, RefreshedTo, TypeOK
    <3>3. Returned(acc', q, n) /\ acc'.next = q.next + 1
      BY <3>1, <3>2, UnsignedReturns
    <3> QED
      BY <2>4, <3>1, <3>2, <3>3 DEF Called
  <2> QED
    BY <1>5, <2>3, <2>4 DEF SubmitUnsigned
<1>6. ASSUME NEW n \in 1..(NodeWindow + 1), SubmitUnder(w, n)
      PROVE  MayCall(w) /\ Called(w)
  <2>1. PICK r \in Reads :
          LET q == Refresh(r.acc, r.base, now, r.used)
          IN IF Claimable(q, n) THEN Post(w, n, HandOut(q, n, now)) ELSE Reread(q)
    BY <1>6 DEF SubmitUnder
  <2> DEFINE q == Refresh(r.acc, r.base, now, r.used)
  <2>2. RefreshedTo(q)
    BY <1>1
  <2>3. IF Claimable(q, n) THEN Post(w, n, HandOut(q, n, now)) ELSE Reread(q)
    BY <2>1
  <2> HIDE DEF q
  <2>4. CASE Claimable(q, n)
    <3>1. n \in Nat \ {0} /\ FreeOn(q, n)
      <4>1. q.base \in Nat
        BY <2>2 DEF RefreshedTo, IsAccount
      <4> QED
        BY <2>2, <2>4, <4>1 DEF Claimable, InWindow, IsUsed, FreeOn
    <3>2. Called(w)
      BY <1>3, <2>3, <2>4, <3>1
    <3> QED
      BY <1>6, <3>2 DEF SubmitUnder
  <2>5. CASE ~Claimable(q, n)
    BY <1>6, <2>2, <2>3, <2>5 DEF SubmitUnder, Called, Reread
  <2> QED
    BY <2>4, <2>5
<1>7. CASE RegisterDid(w)
  <2>1. acc.base \in Nat /\ IsAccount(acc) /\ now \in Nat
    BY DEF TypeOK, IsAccount
  <2>2. w \in registrations /\ Post(w, 1, acc') /\ acc' = HoldNonce(acc, 1, now)
    BY <1>7 DEF RegisterDid, Post
  <2>3. Leased(HandOut(acc, 1, now), acc, 1, acc.next, now)
          /\ HandOut(acc, 1, now).next = acc.next + 1
    BY <2>1, HandOutLeases
  <2>4. Called(w)
    BY <2>1, <2>2, <2>3 DEF HoldNonce, Called
  <2> QED
    BY <1>7, <2>4 DEF RegisterDid
<1> QED
  BY <1>4, <1>5, <1>6, <1>7

\* Resubmit leases the nonce again unless it went to another write since, and
\* says so in the history when its record was lost.
Resubmitted(w, r) ==
  LET n == nonce[w] IN
  \/ HandoutOf(r, n) \notin {NoHandout, hid[w]} /\ acc' = r
       /\ UNCHANGED <<st, hid, resub, readopted>>
  \/ /\ HandoutOf(r, n) \in {NoHandout, hid[w]}
     /\ st' = [st EXCEPT ![w] = "posting"]
     /\ resub' = [resub EXCEPT ![w] = TRUE]
     /\ readopted' = IF HandoutOf(r, n) = NoHandout THEN readopted \cup {w} ELSE readopted
     /\ hid' = [hid EXCEPT ![w] = HandoutOf(acc', n)]
     /\ \/ IsUsed(r, n) /\ acc' = r
        \/ ~IsUsed(r, n) /\ hid[w] # NoHandout
             /\ Leased(acc', r, n, hid[w], now) /\ acc'.next = r.next
        \/ ~IsUsed(r, n) /\ hid[w] = NoHandout
             /\ Leased(acc', r, n, r.next, now) /\ acc'.next = r.next + 1

\* A resubmission refreshes the account and does one of these.
LEMMA ResubmitFacts ==
  ASSUME TypeOK, BaseUsed, NEW w \in Ops, Resubmit(w)
  PROVE  \E r : RefreshedTo(r) /\ Resubmitted(w, r)
<1> DEFINE r == Refresh(acc, acc.base, now, {})
           n == nonce[w]
<1>1. n \in Nat /\ hid[w] \in Nat /\ now \in Nat
  BY DEF TypeOK
<1>2. RefreshedTo(r)
  <2> DEFINE x == [acc |-> acc, base |-> acc.base, used |-> {}]
  <2>1. IsAccount(acc) /\ acc.base \in Nat
    BY DEF TypeOK, IsAccount
  <2>2. x \in RpcReads => \A m \in x.used : NonceUsed(m)
    OBVIOUS
  <2>3. x.acc = acc /\ x.base = acc.base /\ x.used = {}
    OBVIOUS
  <2> HIDE DEF x
  <2>4. ReadIsOf(x)
    BY <2>1, <2>2, <2>3 DEF ReadIsOf, BaseUsed
  <2>5. RefreshedTo(Refresh(x.acc, x.base, now, x.used))
    BY <2>4, RefreshedFacts
  <2> QED
    BY <2>3, <2>5
<1>3. /\ acc' = Reclaimed(r, n, hid[w], now)
      /\ IF ReclaimGranted(r, n, hid[w])
          THEN /\ st' = [st EXCEPT ![w] = "posting"]
               /\ hid' = [hid EXCEPT ![w] = HandoutOf(acc', n)]
               /\ resub' = [resub EXCEPT ![w] = TRUE]
               /\ readopted' = IF HandoutOf(r, n) = NoHandout THEN readopted \cup {w}
                               ELSE readopted
          ELSE UNCHANGED <<st, hid, resub, readopted>>
  BY DEF Resubmit
<1> HIDE DEF r, n
<1>4. /\ ~ReclaimGranted(r, n, hid[w]) \/ IsUsed(r, n) => acc' = r
      /\ ReclaimGranted(r, n, hid[w]) /\ ~IsUsed(r, n) /\ hid[w] # NoHandout =>
           Leased(acc', r, n, hid[w], now) /\ acc'.next = r.next
      /\ ReclaimGranted(r, n, hid[w]) /\ ~IsUsed(r, n) /\ hid[w] = NoHandout =>
           Leased(acc', r, n, r.next, now) /\ acc'.next = r.next + 1
  <2>1. IsAccount(r) /\ acc' = Reclaimed(r, n, hid[w], now)
    BY <1>2, <1>3 DEF RefreshedTo
  <2> QED
    BY ONLY <1>1, <2>1, ReclaimLeases
<1>5. Resubmitted(w, r)
  BY <1>3, <1>4 DEF Resubmitted, ReclaimGranted, n
<1> QED
  BY <1>2, <1>5

\* Reading an answer settles the nonce, or leaves the account alone.
LEMMA HandleFacts ==
  ASSUME TypeOK, NEW w \in Ops, Handle(w)
  PROVE  \/ acc' = acc /\ st' = [st EXCEPT ![w] = "accepted"]
         \/ \E o \in Outcomes :
              /\ SettleLeaves(acc', acc, nonce[w], o, hid[w])
              /\ st' = [st EXCEPT ![w] = After(o)]
              /\ After(o) = "failed" => Unsent(w)
<1>1. CASE reply[w] = "ok"
  BY <1>1 DEF Handle
<1>2. CASE reply[w] # "ok"
  <2> DEFINE o == OutcomeOf(reply[w], resub[w])
  <2>1. acc' = Settle(acc, nonce[w], o, hid[w]) /\ st' = [st EXCEPT ![w] = After(o)]
    BY <1>2 DEF Handle
  <2>2. o \in Outcomes
    BY DEF OutcomeOf, Outcomes
  <2>3. After(o) = "failed" => Unsent(w)
    BY DEF OutcomeOf, After, Unsent, Handle, Used, Free, Held, Unknown
  <2> HIDE DEF o
  <2>4. SettleLeaves(acc', acc, nonce[w], o, hid[w])
    BY <2>1, <2>2, SettleFacts DEF TypeOK
  <2> QED
    BY <2>1, <2>2, <2>3, <2>4
<1> QED
  BY <1>1, <1>2

\* A poll that reports the landing shows the nonce used, in an answer of the
\* node's with a consensus RPC.
LEMMA WaitFacts ==
  ASSUME TypeOK, BaseUsed, NEW w \in Ops, WaitUntilLanded(w)
  PROVE  /\ RefreshedTo(acc')
         /\ \/ st' = st
            \/ /\ st' = [st EXCEPT ![w] = "landed"] /\ StillItsNonce(w, acc')
               /\ rpc => nonce[w] = 0 \/ NonceUsed(nonce[w])
<1>1. PICK r \in Polls :
        LET a == Refresh(r.acc, r.base, now, r.used)
        IN /\ acc' = a
           /\ st' = IF StillItsNonce(w, a) /\ ShowsUsed(r, a, nonce[w])
                      THEN [st EXCEPT ![w] = "landed"] ELSE st
  BY DEF WaitUntilLanded
<1>2. r \in ApiReads \cup RpcReads /\ (rpc \/ r \in ApiReads) /\ (rpc => r \in RpcReads)
  BY DEF Polls
<1>3. ReadIsOf(r)
  BY <1>2, ReadsFacts
<1>4. /\ acc' = Refresh(r.acc, r.base, now, r.used)
      /\ st' = IF StillItsNonce(w, acc') /\ ShowsUsed(r, acc', nonce[w])
                 THEN [st EXCEPT ![w] = "landed"] ELSE st
  BY <1>1
<1>5. RefreshedTo(acc')
  BY <1>3, <1>4, RefreshedFacts
<1>6. rpc /\ ShowsUsed(r, acc', nonce[w]) => nonce[w] = 0 \/ NonceUsed(nonce[w])
  BY <1>2, <1>3 DEF ShowsUsed, ReadIsOf, TypeOK
<1> QED
  BY <1>4, <1>5, <1>6

-----------------------------------------------------------------------------
\* Nothing has happened yet.
LEMMA InitNodeInv == Init => NodeInv
<1> SUFFICES ASSUME Init PROVE NodeInv
  OBVIOUS
<1>1. IsAccount(acc) /\ acc.base = 0
  BY DEF Init, NewAccount, IsAccount, NoBase
<1>2. registrations \subseteq Ops /\ mode \in Modes
  BY DEF Init
<1>3. mempool = {} /\ net = {} /\ landed = << >> /\ Landed = {}
  BY DEF Init, NodeInit, Landed, ToSet
<1>4. TypeOK
  BY <1>1, <1>2, <1>3
     DEF Init, TypeOK, States, Replies, NoHandout
<1>5. Copies = {}
  BY <1>3 DEF Copies
<1> QED
  BY <1>1, <1>3, <1>4, <1>5
     DEF Init, NodeInv, BaseUsed, Signed, CopiesInv, CopiesAreSigned, NoneLeft, NoCopy,
         MempoolInv

\* Every copy is a transaction, and one that landed has its place in a block.
LEMMA CopiesType ==
  ASSUME TypeOK
  PROVE  /\ Copies \subseteq Transactions
         /\ Landed = {landed[i] : i \in 1..Len(landed)}
         /\ \A n : NonceUsed(n) <=> \E t \in Landed : t.nonce = n
<1>0. DOMAIN landed = 1..Len(landed)
  BY DEF TypeOK
<1>1. Landed = {landed[i] : i \in 1..Len(landed)}
  BY <1>0, Zenon DEF Landed, ToSet
<1>2. Landed \subseteq Transactions
  BY <1>1 DEF TypeOK
<1>3. \A n : NonceUsed(n) <=> \E t \in Landed : t.nonce = n
  BY <1>1 DEF NonceUsed, UsedAfter
<1> QED
  BY <1>1, <1>2, <1>3 DEF Copies, TypeOK

\* A step of the client that leaves the node alone keeps the invariant when it
\* signs anew only writes of which no copy is left.
LEMMA ClientStep ==
  ASSUME NodeInv, TypeOK', UNCHANGED nodeVars,
         \A n \in 1..acc'.base : NonceUsed(n),
         \A w \in Ops : st'[w] = "idle" \/ nonce'[w] > 0,
         \A w \in Ops : Unsent(w) \/ (nonce'[w] = nonce[w] /\ ~Unsent(w)')
  PROVE  NodeInv'
<1>1. Copies' = Copies /\ (\A n : NonceUsed(n)' <=> NonceUsed(n)) /\ mempool' = mempool
  BY DEF nodeVars, Copies, Landed, NonceUsed, UsedAfter
<1>2. BaseUsed' /\ Signed' /\ MempoolInv'
  BY <1>1 DEF NodeInv, CopiesInv, BaseUsed, Signed, MempoolInv
<1>3. \A w \in Ops : Unsent(w) => NoCopy(w)
  BY DEF NodeInv, CopiesInv, NoneLeft
<1>4. \A w \in Ops : NoCopy(w)' <=> NoCopy(w)
  BY <1>1 DEF NoCopy
<1>5. NoneLeft'
  BY <1>3, <1>4 DEF NoneLeft
<1>6. CopiesAreSigned'
  <2> SUFFICES ASSUME NEW t \in Copies PROVE t = TxOf(t.op)'
    BY <1>1 DEF CopiesAreSigned
  <2>1. t = TxOf(t.op) /\ t \in Transactions
    BY CopiesType DEF NodeInv, CopiesInv, CopiesAreSigned
  <2>2. t.op \in Ops /\ ~NoCopy(t.op)
    BY <2>1 DEF Transactions, NoCopy
  <2>3. nonce'[t.op] = nonce[t.op]
    BY <1>3, <2>2
  <2> QED
    BY <2>1, <2>3 DEF TxOf
<1> QED
  BY <1>2, <1>5, <1>6 DEF NodeInv, CopiesInv

\* A step of the node, or of a post meeting it, keeps the invariant when it
\* copies only what was sent.
LEMMA NodeKeeps ==
  ASSUME NodeInv, TypeOK', UNCHANGED <<acc, nonce>>,
         \A n : NonceUsed(n) => NonceUsed(n)',
         MempoolInv',
         \A w \in Ops : st[w] = "idle" => st'[w] = "idle",
         \A t \in Copies' : t \in Copies \/ \E w \in Ops : t = TxOf(w) /\ ~Unsent(w)',
         \A w \in Ops : Unsent(w)' => Unsent(w)
  PROVE  NodeInv'
<1>0. BaseUsed'
  BY DEF NodeInv, BaseUsed
<1>1. Signed'
  BY DEF NodeInv, Signed
<1>2. \A w : TxOf(w)' = TxOf(w) /\ TxOf(w).op = w
  BY DEF TxOf, Tx
<1>3. CopiesAreSigned'
  BY <1>2 DEF NodeInv, CopiesInv, CopiesAreSigned
<1>4. NoneLeft'
  BY <1>2 DEF NodeInv, CopiesInv, NoneLeft, NoCopy
<1> QED
  BY <1>0, <1>1, <1>3, <1>4 DEF NodeInv, CopiesInv

\* Every call of a write keeps the invariant.
LEMMA CallKeeps ==
  ASSUME NodeInv, NEW w \in Ops, MayCall(w), Called(w)
  PROVE  NodeInv'
<1>0. TypeOK /\ BaseUsed /\ Signed /\ IsAccount(acc)
  BY DEF NodeInv, TypeOK
<1>1. /\ IsAccount(acc')
      /\ \A n \in 1..acc'.base : NonceUsed(n)
      /\ Reread(acc') \/ \E n \in Nat \ {0} : Post(w, n, acc')
  <2>1. CASE RefreshedTo(acc') /\ Reread(acc')
    BY <2>1 DEF RefreshedTo
  <2>2. ASSUME NEW r, NEW n \in Nat \ {0}, FreeOn(r, n),
               \/ Reread(acc') /\ Returned(acc', r, n)
               \/ Post(w, n, acc') /\ Leased(acc', r, n, r.next, now)
        PROVE  /\ IsAccount(acc')
               /\ \A m \in 1..acc'.base : NonceUsed(m)
               /\ Reread(acc') \/ Post(w, n, acc')
    BY <2>2 DEF FreeOn, RefreshedTo, Returned, Leased
  <2>3. CASE Post(w, 1, acc') /\ (acc' = acc \/ Leased(acc', acc, 1, acc.next, now))
    BY <1>0, <2>3 DEF Leased, BaseUsed
  <2> QED
    BY <2>1, <2>2, <2>3 DEF Called
<1>2. CASE Reread(acc')
  <2>1. TypeOK'
    BY <1>0, <1>1, <1>2 DEF TypeOK, Reread, config, nodeVars
  <2> QED
    BY <1>0, <1>1, <1>2, <2>1, ClientStep DEF Reread, Signed, Unsent
<1>3. ASSUME NEW n \in Nat \ {0}, Post(w, n, acc')
      PROVE  NodeInv'
  <2>1. HandoutOf(acc', n) \in Nat
    BY <1>1 DEF HandoutOf, NoHandout, IsAccount
  <2>2. acc.next \in Nat
    BY <1>0 DEF IsAccount
  <2>3. TypeOK'
    BY <1>0, <1>1, <1>3, <2>1, <2>2 DEF TypeOK, Post, config, nodeVars, States, Replies
  <2>4. Unsent(w)
    BY DEF MayCall, Unsent
  <2>5. \A u \in Ops : st'[u] = "idle" \/ nonce'[u] > 0
    BY <1>0, <1>3 DEF TypeOK, Post, Signed
  <2>6. \A u \in Ops : Unsent(u) \/ (nonce'[u] = nonce[u] /\ ~Unsent(u)')
    BY <1>0, <1>3, <2>4 DEF TypeOK, Post, Unsent
  <2> QED
    BY <1>1, <1>3, <2>3, <2>5, <2>6, ClientStep DEF Post
<1> QED
  BY <1>1, <1>2, <1>3

\* So does reading an answer.
LEMMA HandleKeeps ==
  ASSUME NodeInv, NEW w \in Ops, Handle(w)
  PROVE  NodeInv'
<1>0. TypeOK /\ BaseUsed /\ Signed /\ IsAccount(acc)
  BY DEF NodeInv, TypeOK
<1>1. /\ st[w] = "posting" /\ reply' = [reply EXCEPT ![w] = "none"]
      /\ resub' = [resub EXCEPT ![w] = FALSE]
      /\ UNCHANGED <<config, now, nonce, hid, interrupted, open, born, readopted, nodeVars>>
  BY DEF Handle
<1>2. \/ acc' = acc /\ st' = [st EXCEPT ![w] = "accepted"]
      \/ \E o \in Outcomes :
           /\ SettleLeaves(acc', acc, nonce[w], o, hid[w])
           /\ st' = [st EXCEPT ![w] = After(o)]
           /\ After(o) = "failed" => Unsent(w)
  BY <1>0, HandleFacts
<1>3. /\ IsAccount(acc') /\ acc'.base = acc.base
      /\ \E s \in {"accepted", "kept", "failed"} :
           st' = [st EXCEPT ![w] = s] /\ (s = "failed" => Unsent(w))
  BY <1>0, <1>2 DEF SettleLeaves, After
<1>4. TypeOK'
  BY <1>0, <1>1, <1>3 DEF TypeOK, config, nodeVars, States, Replies
<1>5. \A u \in Ops : st'[u] = "idle" \/ nonce'[u] > 0
  BY <1>0, <1>1, <1>3 DEF TypeOK, Signed
<1>6. \A u \in Ops : Unsent(u) \/ (nonce'[u] = nonce[u] /\ ~Unsent(u)')
  BY <1>0, <1>1, <1>3 DEF TypeOK, Unsent
<1> QED
  BY <1>0, <1>1, <1>3, <1>4, <1>5, <1>6, ClientStep DEF BaseUsed

\* And sending a write again.
LEMMA ResubmitKeeps ==
  ASSUME NodeInv, NEW w \in Ops, Resubmit(w)
  PROVE  NodeInv'
<1>0. TypeOK /\ BaseUsed /\ Signed /\ IsAccount(acc) /\ hid[w] \in Nat
  BY DEF NodeInv, TypeOK
<1>1. PICK r : RefreshedTo(r) /\ Resubmitted(w, r)
  BY <1>0, ResubmitFacts
<1>2. /\ st[w] = "kept" /\ open' = open \ {w}
      /\ UNCHANGED <<config, now, nonce, reply, born, nodeVars>>
  BY DEF Resubmit
<1>3. IsAccount(acc') /\ acc'.base = r.base /\ \A n \in 1..acc'.base : NonceUsed(n)
  BY <1>1 DEF RefreshedTo, Resubmitted, Leased
<1>4. HandoutOf(acc', nonce[w]) \in Nat
  BY <1>3 DEF HandoutOf, NoHandout, IsAccount
<1>5. /\ st' \in [Ops -> States] /\ hid' \in [Ops -> Nat] /\ resub' \in [Ops -> BOOLEAN]
      /\ readopted' \subseteq Ops
  BY <1>0, <1>1, <1>4 DEF TypeOK, Resubmitted, States
<1>6. TypeOK'
  BY <1>0, <1>2, <1>3, <1>5 DEF TypeOK, config, nodeVars
<1>7. \A u \in Ops : st'[u] = "idle" \/ nonce'[u] > 0
  BY <1>0, <1>1, <1>2 DEF TypeOK, Signed, Resubmitted
<1>8. \A u \in Ops : Unsent(u) \/ (nonce'[u] = nonce[u] /\ ~Unsent(u)')
  BY <1>0, <1>1, <1>2 DEF TypeOK, Unsent, Resubmitted
<1> QED
  BY <1>2, <1>3, <1>6, <1>7, <1>8, ClientStep

\* And polling for its landing.
LEMMA WaitKeeps ==
  ASSUME NodeInv, NEW w \in Ops, WaitUntilLanded(w)
  PROVE  NodeInv'
<1>0. TypeOK /\ BaseUsed /\ Signed
  BY DEF NodeInv
<1>1. /\ RefreshedTo(acc')
      /\ st' = st \/ st' = [st EXCEPT ![w] = "landed"]
      /\ st[w] \in {"accepted", "kept"}
      /\ UNCHANGED <<config, now, nonce, hid, resub, reply, interrupted, open, born, readopted,
                     nodeVars>>
  BY <1>0, WaitFacts DEF WaitUntilLanded
<1>2. TypeOK'
  BY <1>0, <1>1 DEF TypeOK, config, nodeVars, States, RefreshedTo
<1>3. \A u \in Ops : st'[u] = "idle" \/ nonce'[u] > 0
  BY <1>0, <1>1 DEF TypeOK, Signed
<1>4. \A u \in Ops : Unsent(u) \/ (nonce'[u] = nonce[u] /\ ~Unsent(u)')
  BY <1>0, <1>1 DEF TypeOK, Unsent
<1> QED
  BY <1>1, <1>2, <1>3, <1>4, ClientStep DEF RefreshedTo

\* And the clock.
LEMMA TickKeeps ==
  ASSUME NodeInv, Tick
  PROVE  NodeInv'
<1>0. TypeOK /\ BaseUsed /\ Signed
  BY DEF NodeInv
<1>1. TypeOK'
  BY <1>0 DEF TypeOK, Tick, config, nodeVars
<1> QED
  BY <1>0, <1>1, ClientStep DEF Tick, BaseUsed, Signed, Unsent

-----------------------------------------------------------------------------
\* The node admits a transaction only under a nonce that is unused and that the
\* mempool holds no other transaction of.
LEMMA AdmittedKeeps ==
  ASSUME MempoolInv, NEW t, NEW answer \in CheckTx(t),
         mempool' = Admitted(t, answer), landed' = landed
  PROVE  MempoolInv'
<1>1. \A n : NonceUsed(n)' <=> NonceUsed(n)
  BY DEF NonceUsed, UsedAfter
<1>2. CASE mempool' = mempool
  BY <1>1, <1>2 DEF MempoolInv
<1>3. CASE mempool' # mempool
  <2>1. answer = "ok" /\ t \notin Landed /\ mempool' = mempool \cup {t} /\ t \notin mempool
    BY <1>3 DEF Admitted
  <2>2. ~NonceUsed(t.nonce) /\ ~HeldByOther(t)
    BY <2>1 DEF CheckTx
  <2> QED
    BY <1>1, <2>1, <2>2 DEF MempoolInv, HeldByOther
<1> QED
  BY <1>2, <1>3

\* The request meets the node.
LEMMA AnsweredKeeps ==
  ASSUME NodeInv, NEW w \in Ops, Answered(w)
  PROVE  NodeInv'
<1>0. TypeOK /\ MempoolInv
  BY DEF NodeInv, CopiesInv
<1>1. PICK answer \in CheckTx(TxOf(w)) :
        /\ reply' = [reply EXCEPT ![w] = answer]
        /\ mempool' = Admitted(TxOf(w), answer)
  BY DEF Answered
<1>2. /\ st[w] = "posting" /\ reply[w] = "none"
      /\ UNCHANGED <<config, acc, now, st, nonce, hid, resub, interrupted, open, born, readopted,
                     landed, net>>
  BY DEF Answered
<1>3. answer \in {"ok", "refused", "held", "used"}
  BY DEF CheckTx
<1>4. TxOf(w) \in Transactions
  BY <1>0 DEF TypeOK, TxOf, Tx, Transactions
<1>5. mempool' \subseteq mempool \cup {TxOf(w)}
      /\ (answer # "ok" => mempool' = mempool)
  BY <1>1 DEF Admitted
<1>6. TypeOK'
  BY <1>0, <1>1, <1>2, <1>3, <1>4, <1>5 DEF TypeOK, config, Replies
<1>7. /\ \A n : NonceUsed(n)' <=> NonceUsed(n)
      /\ Landed' = Landed
  BY <1>2 DEF NonceUsed, UsedAfter, Landed
<1>8. MempoolInv'
  BY <1>0, <1>1, <1>2, AdmittedKeeps
<1>9. \A u \in Ops : Unsent(u)' => Unsent(u)
  BY <1>0, <1>1, <1>2 DEF TypeOK, Unsent
<1>10. \A t \in Copies' : t \in Copies \/ \E u \in Ops : t = TxOf(u) /\ ~Unsent(u)'
  <2>1. answer = "ok" => ~Unsent(w)'
    BY <1>0, <1>1, <1>2 DEF TypeOK, Unsent
  <2> QED
    BY <1>2, <1>5, <1>7, <2>1 DEF Copies
<1> QED
  BY <1>2, <1>6, <1>7, <1>8, <1>9, <1>10, NodeKeeps

\* The request gets no answer of the node's, or is cancelled: a copy may be on
\* its way.
LEMMA LostKeeps ==
  ASSUME NodeInv, NEW w \in Ops, NoAnswer(w) \/ Cancel(w)
  PROVE  NodeInv'
<1>0. TypeOK /\ MempoolInv
  BY DEF NodeInv, CopiesInv
<1>1. UNCHANGED <<config, acc, now, nonce, hid, born, readopted, mempool, landed>>
  BY DEF NoAnswer, Cancel
<1>2. TxOf(w) \in Transactions
  BY <1>0 DEF TypeOK, TxOf, Tx, Transactions
<1>3. \/ net' = net
      \/ net' = net \cup {TxOf(w)} /\ ~Unsent(w)'
  BY <1>0 DEF TypeOK, NoAnswer, Cancel, Unsent
<1>4. TypeOK'
  BY <1>0, <1>1, <1>2, <1>3 DEF TypeOK, config, NoAnswer, Cancel, Replies, States
<1>5. /\ \A n : NonceUsed(n)' <=> NonceUsed(n)
      /\ Landed' = Landed
  BY <1>1 DEF NonceUsed, UsedAfter, Landed
<1>6. \A u \in Ops : Unsent(u)' => Unsent(u)
  BY <1>0 DEF TypeOK, Unsent, NoAnswer, Cancel
<1>7. \A t \in Copies' : t \in Copies \/ \E u \in Ops : t = TxOf(u) /\ ~Unsent(u)'
  BY <1>1, <1>3, <1>5 DEF Copies
<1>8. \A u \in Ops : st[u] = "idle" => st'[u] = "idle"
  BY <1>0 DEF TypeOK, NoAnswer, Cancel
<1> QED
  <2>1. MempoolInv'
    BY <1>0, <1>1, <1>5 DEF MempoolInv
  <2> QED
    BY <1>1, <1>4, <1>5, <1>6, <1>7, <1>8, <2>1, NodeKeeps

\* What a block adds: one transaction, whose nonce it uses.
LEMMA LandFacts ==
  ASSUME TypeOK, NEW t \in mempool, landed' = Append(landed, t)
  PROVE  /\ landed' \in Seq(Transactions)
         /\ Len(landed') = Len(landed) + 1
         /\ \A i \in 1..Len(landed) : landed'[i] = landed[i]
         /\ landed'[Len(landed) + 1] = t
         /\ Landed' = Landed \cup {t}
         /\ \A n : NonceUsed(n)' <=> NonceUsed(n) \/ n = t.nonce
<1>1. t \in Transactions /\ landed \in Seq(Transactions)
  BY DEF TypeOK
<1>2. /\ landed' \in Seq(Transactions)
      /\ Len(landed') = Len(landed) + 1
      /\ \A i \in 1..Len(landed) : landed'[i] = landed[i]
      /\ landed'[Len(landed) + 1] = t
  BY <1>1
<1>3. DOMAIN landed = 1..Len(landed) /\ DOMAIN landed' = 1..Len(landed') /\ Len(landed) \in Nat
  BY <1>1, <1>2
<1>4. Landed' = Landed \cup {t}
  BY <1>2, <1>3 DEF Landed, ToSet
<1>5. \A n : NonceUsed(n)' <=> NonceUsed(n) \/ n = t.nonce
  BY <1>2, <1>3 DEF NonceUsed, UsedAfter
<1> QED
  BY <1>2, <1>4, <1>5

\* The node lands, drops or receives a transaction.
LEMMA NodeStepKeeps ==
  ASSUME NodeInv, NodeStep, UNCHANGED clientVars
  PROVE  NodeInv'
<1>0. TypeOK /\ MempoolInv
  BY DEF NodeInv, CopiesInv
<1>1. UNCHANGED <<registrations, mode, acc, now, st, nonce, hid, resub, reply, interrupted, open,
                  born, readopted>>
  BY DEF clientVars, config
<1>2. \A w \in Ops : Unsent(w)' <=> Unsent(w)
  BY <1>1 DEF Unsent
<1>3. ASSUME /\ mempool' \subseteq Transactions /\ net' \subseteq Transactions
             /\ landed' \in Seq(Transactions) /\ MempoolInv' /\ Copies' \subseteq Copies
             /\ \A n : NonceUsed(n) => NonceUsed(n)'
      PROVE  NodeInv'
  <2>1. TypeOK'
    BY <1>0, <1>1, <1>3 DEF TypeOK
  <2> QED
    BY <1>1, <1>2, <1>3, <2>1, NodeKeeps
<1>4. CASE Land
  <2>1. PICK t \in mempool : /\ landed' = Append(landed, t)
                             /\ mempool' = mempool \ {t} /\ net' = net
    BY <1>4 DEF Land
  <2>2. /\ landed' \in Seq(Transactions) /\ Landed' = Landed \cup {t}
        /\ \A n : NonceUsed(n)' <=> NonceUsed(n) \/ n = t.nonce
    BY <1>0, <2>1, LandFacts
  <2>3. MempoolInv'
    BY <1>0, <2>1, <2>2 DEF MempoolInv
  <2>4. Copies' \subseteq Copies
    BY <2>1, <2>2 DEF Copies
  <2> QED
    BY <1>0, <1>3, <2>1, <2>2, <2>3, <2>4 DEF TypeOK
<1>5. CASE Evict
  <2>1. mempool' \subseteq mempool /\ landed' = landed /\ net' = net
    BY <1>5 DEF Evict
  <2>2. Landed' = Landed /\ \A n : NonceUsed(n)' <=> NonceUsed(n)
    BY <2>1 DEF Landed, NonceUsed, UsedAfter
  <2>3. MempoolInv' /\ Copies' \subseteq Copies
    BY <1>0, <2>1, <2>2 DEF MempoolInv, Copies
  <2> QED
    BY <1>0, <1>3, <2>1, <2>2, <2>3 DEF TypeOK
<1>6. CASE Arrive
  <2>1. PICK t \in net, answer \in {"ok", "refused", "held", "used"} :
          /\ answer \in CheckTx(t)
          /\ mempool' = Admitted(t, answer) /\ net' = net \ {t} /\ landed' = landed
    BY <1>6 DEF Arrive
  <2>2. Landed' = Landed /\ \A n : NonceUsed(n)' <=> NonceUsed(n)
    BY <2>1 DEF Landed, NonceUsed, UsedAfter
  <2>3. MempoolInv'
    BY <1>0, <2>1, AdmittedKeeps
  <2>4. mempool' \subseteq mempool \cup {t}
    BY <2>1 DEF Admitted
  <2>5. Copies' \subseteq Copies
    BY <2>1, <2>2, <2>4 DEF Copies
  <2> QED
    BY <1>0, <1>3, <2>1, <2>2, <2>3, <2>4, <2>5 DEF TypeOK
<1> QED
  BY <1>4, <1>5, <1>6 DEF NodeStep

\* A step is a call of a write, or one of these.
LEMMA NextCases ==
  ASSUME NodeInv, [Next]_vars
  PROVE  \/ \E w \in Ops :
              \/ MayCall(w) /\ Called(w)
              \/ Handle(w) \/ Resubmit(w) \/ WaitUntilLanded(w)
              \/ Answered(w) \/ NoAnswer(w) \/ Cancel(w)
         \/ NodeStep /\ UNCHANGED clientVars
         \/ Tick
         \/ UNCHANGED vars
<1>1. TypeOK /\ BaseUsed
  BY DEF NodeInv
<1> QED
  BY <1>1, CallsFacts DEF Next

\* Every step keeps the invariant.
LEMMA NextNodeInv == NodeInv /\ [Next]_vars => NodeInv'
<1> SUFFICES ASSUME NodeInv, [Next]_vars PROVE NodeInv'
  OBVIOUS
<1>1. CASE UNCHANGED vars
  <2>1. TypeOK'
    BY <1>1 DEF NodeInv, TypeOK, vars, clientVars, config, nodeVars
  <2> QED
    BY <1>1, <2>1, ClientStep
       DEF vars, clientVars, NodeInv, BaseUsed, Signed, Unsent
<1> QED
  BY <1>1, NextCases, CallKeeps, HandleKeeps, ResubmitKeeps, WaitKeeps, AnsweredKeeps, LostKeeps,
     NodeStepKeeps, TickKeeps

\* The copies of every write are accounted for in every reachable state.
THEOREM NodeInvariant == Spec => []NodeInv
BY InitNodeInv, NextNodeInv, PTL DEF Spec

\* The client's and the node's variables keep their shapes.
THEOREM WritesTypeCorrect == Spec => []TypeOK
<1>1. NodeInv => TypeOK
  BY DEF NodeInv
<1> QED
  BY <1>1, NodeInvariant, PTL

-----------------------------------------------------------------------------
(* Writes implements WritePromise: every step is one of the promise's       *)
(* steps, or changes neither what the application knows nor what ran.       *)

StatusNow == [w \in Ops |-> Status(w)]
RunsNow == [w \in Ops |-> RunsOf(w)]

\* A step of the client runs nothing; one that changes what the application
\* knows of one write is the promise's step of that write.
LEMMA ToFacts ==
  ASSUME NEW w \in Ops, NEW s, landed' = landed,
         Status(w)' = s, \A u \in Ops \ {w} : Status(u)' = Status(u)
  PROVE  Promise!To(w, s)
<1>1. StatusNow' = [StatusNow EXCEPT ![w] = s]
  BY DEF StatusNow
<1>2. RunsNow' = RunsNow
  BY DEF RunsNow, RunsOf
<1> QED
  BY <1>1, <1>2 DEF Promise!To, StatusNow, RunsNow

\* A write with no copy anywhere has not run.
LEMMA NotRun ==
  ASSUME TypeOK, NEW w \in Ops, \A t \in Landed : t.op # w
  PROVE  RunsOf(w) = 0
<1>1. {i \in 1..Len(landed) : landed[i].op = w} = {}
  BY CopiesType
<1> QED
  BY <1>1, FS_EmptySet DEF RunsOf

\* The node running a transaction runs its write for the first time.
LEMMA LandRuns ==
  ASSUME NodeInv, Land, UNCHANGED clientVars
  PROVE  \E w \in Ops : Promise!Run(w)
<1>0. TypeOK /\ CopiesAreSigned /\ NoneLeft /\ MempoolInv
  BY DEF NodeInv, CopiesInv
<1>1. PICK t \in mempool : landed' = Append(landed, t)
  BY DEF Land
<1>2. /\ landed' \in Seq(Transactions)
      /\ Len(landed') = Len(landed) + 1
      /\ \A i \in 1..Len(landed) : landed'[i] = landed[i]
      /\ landed'[Len(landed) + 1] = t
      /\ Len(landed) \in Nat
  BY <1>0, <1>1, LandFacts DEF TypeOK
<1>3. t \in Copies /\ t \in Transactions /\ t = TxOf(t.op)
  BY <1>0 DEF Copies, CopiesAreSigned, TypeOK
<1> DEFINE w == t.op
           Places(u) == {i \in 1..Len(landed) : landed[i].op = u}
<1>4. w \in Ops
  BY <1>3 DEF Transactions
<1>5. \A x \in Landed : x.op # w
  <2> SUFFICES ASSUME NEW x \in Landed, x.op = w PROVE FALSE
    OBVIOUS
  <2>1. x = TxOf(w)
    BY <1>0 DEF Copies, CopiesAreSigned
  <2>2. NonceUsed(t.nonce)
    BY <1>0, <1>3, <2>1, CopiesType
  <2> QED
    BY <1>0, <2>2 DEF MempoolInv
<1>6. RunsOf(w) = 0 /\ Places(w) = {}
  BY <1>0, <1>4, <1>5, NotRun, CopiesType
<1>7. RunsOf(w)' = 1
  <2>1. Places(w)' = {Len(landed) + 1}
    <3>1. \A i \in 1..Len(landed) : landed[i].op # w
      BY <1>6
    <3> QED
      BY <1>2, <3>1
  <2> QED
    BY <2>1, FS_Singleton DEF RunsOf
<1>8. \A u \in Ops \ {w} : RunsOf(u)' = RunsOf(u)
  <2> SUFFICES ASSUME NEW u \in Ops \ {w} PROVE RunsOf(u)' = RunsOf(u)
    OBVIOUS
  <2>1. Places(u)' = Places(u)
    BY <1>2
  <2> QED
    BY <2>1 DEF RunsOf
<1>9. StatusNow' = StatusNow /\ StatusNow[w] \notin {"idle", "failed"}
  <2>1. UNCHANGED <<st, resub>>
    BY DEF clientVars
  <2>2. ~NoCopy(w)
    BY <1>3 DEF NoCopy
  <2>3. st[w] \notin {"idle", "failed"}
    BY <1>0, <1>4, <2>2 DEF NoneLeft, Unsent
  <2> QED
    BY <1>4, <2>1, <2>3 DEF StatusNow, Status
<1>10. RunsNow[w] = 0 /\ RunsNow' = [RunsNow EXCEPT ![w] = 1]
  BY <1>4, <1>6, <1>7, <1>8 DEF RunsNow
<1>11. Promise!Run(w)
  BY <1>9, <1>10 DEF Promise!Run, StatusNow, RunsNow
<1> QED
  BY <1>4, <1>11

\* Every step keeps the promise.
LEMMA PromiseStep ==
  ASSUME NodeInv, [Next]_vars
  PROVE  [Promise!Next]_<<StatusNow, RunsNow>>
<1>0. TypeOK /\ NoneLeft
  BY DEF NodeInv, CopiesInv
<1>1. ASSUME landed' = landed, UNCHANGED <<st, resub>>
      PROVE  UNCHANGED <<StatusNow, RunsNow>>
  BY <1>1 DEF StatusNow, RunsNow, Status, RunsOf
<1>2. ASSUME NEW w \in Ops, MayCall(w), Called(w)
      PROVE  [Promise!Next]_<<StatusNow, RunsNow>>
  <2>1. CASE Reread(acc')
    BY <1>1, <2>1 DEF Reread, nodeVars
  <2>2. ASSUME NEW n, Post(w, n, acc')
        PROVE  Promise!Start(w)
    <3>1. Promise!To(w, "sent")
      BY <1>0, <2>2, ToFacts DEF Post, Status, TypeOK, nodeVars
    <3>2. StatusNow[w] \in {"idle", "failed"}
      BY <1>2 DEF MayCall, StatusNow, Status
    <3> QED
      BY <3>1, <3>2 DEF Promise!Start, StatusNow
  <2> QED
    BY <1>2, <2>1, <2>2 DEF Called, Promise!Next
<1>3. ASSUME NEW w \in Ops, Handle(w)
      PROVE  Promise!Next
  <2>1. /\ st[w] = "posting" /\ resub' = [resub EXCEPT ![w] = FALSE] /\ landed' = landed
        /\ StatusNow[w] \in {"sent", "resent"}
        /\ Unsent(w) => StatusNow[w] = "sent"
    BY <1>3 DEF Handle, nodeVars, StatusNow, Status, Unsent
  <2>2. PICK s \in {"accepted", "kept", "failed"} :
          st' = [st EXCEPT ![w] = s] /\ (s = "failed" => Unsent(w))
    BY <1>0, <1>3, HandleFacts DEF After
  <2>3. Promise!To(w, s)
    BY <1>0, <2>1, <2>2, ToFacts DEF Status, TypeOK
  <2>4. s = "failed" => RunsNow[w] = 0
    BY <1>0, <2>2, NotRun DEF NoneLeft, NoCopy, Copies, RunsNow
  <2>5. Promise!Accept(w) \/ Promise!Keep(w) \/ Promise!Fail(w)
    BY <2>1, <2>2, <2>3, <2>4
       DEF Promise!Accept, Promise!Keep, Promise!Fail, StatusNow, RunsNow
  <2> QED
    BY <2>5 DEF Promise!Next
<1>4. ASSUME NEW w \in Ops, Cancel(w)
      PROVE  Promise!Next
  <2>1. Promise!To(w, "kept")
    BY <1>0, <1>4, ToFacts DEF Cancel, Status, TypeOK
  <2>2. StatusNow[w] \in {"sent", "resent"}
    BY <1>4 DEF Cancel, StatusNow, Status
  <2>3. Promise!Keep(w)
    BY <2>1, <2>2 DEF Promise!Keep, StatusNow
  <2> QED
    BY <2>3 DEF Promise!Next
<1>5. ASSUME NEW w \in Ops, Resubmit(w)
      PROVE  [Promise!Next]_<<StatusNow, RunsNow>>
  <2>1. PICK r : Resubmitted(w, r)
    BY <1>0, <1>5, ResubmitFacts DEF NodeInv
  <2>2. st[w] = "kept" /\ landed' = landed
    BY <1>5 DEF Resubmit, nodeVars
  <2>3. CASE st' = [st EXCEPT ![w] = "posting"] /\ resub' = [resub EXCEPT ![w] = TRUE]
    <3>1. Promise!To(w, "resent")
      BY <1>0, <2>2, <2>3, ToFacts DEF Status, TypeOK
    <3>2. StatusNow[w] = "kept"
      BY <2>2 DEF StatusNow, Status
    <3>3. Promise!Resend(w)
      BY <3>1, <3>2 DEF Promise!Resend, StatusNow
    <3> QED
      BY <3>3 DEF Promise!Next
  <2> QED
    BY <1>1, <2>1, <2>2, <2>3 DEF Resubmitted
<1>6. ASSUME NEW w \in Ops, WaitUntilLanded(w)
      PROVE  [Promise!Next]_<<StatusNow, RunsNow>>
  <2>1. /\ st' = st \/ st' = [st EXCEPT ![w] = "landed"]
        /\ st[w] \in {"accepted", "kept"} /\ resub' = resub /\ landed' = landed
    BY <1>6, WaitFacts DEF WaitUntilLanded, nodeVars, NodeInv
  <2>2. CASE st' = [st EXCEPT ![w] = "landed"]
    <3>1. Promise!To(w, "landed")
      BY <1>0, <2>1, <2>2, ToFacts DEF Status, TypeOK
    <3>2. StatusNow[w] \in {"accepted", "kept"}
      BY <2>1 DEF StatusNow, Status
    <3>3. Promise!Settled(w)
      BY <3>1, <3>2 DEF Promise!Settled, StatusNow
    <3> QED
      BY <3>3 DEF Promise!Next
  <2> QED
    BY <1>1, <2>1, <2>2
<1>7. ASSUME NEW w \in Ops, Answered(w) \/ NoAnswer(w)
      PROVE  UNCHANGED <<StatusNow, RunsNow>>
  BY <1>1, <1>7 DEF Answered, NoAnswer
<1>8. ASSUME NodeStep, UNCHANGED clientVars
      PROVE  [Promise!Next]_<<StatusNow, RunsNow>>
  <2>1. CASE Land
    BY <1>8, <2>1, LandRuns DEF Promise!Next
  <2>2. CASE Evict \/ Arrive
    BY <1>1, <1>8, <2>2 DEF Evict, Arrive, clientVars
  <2> QED
    BY <1>8, <2>1, <2>2 DEF NodeStep
<1>9. CASE Tick \/ UNCHANGED vars
  BY <1>1, <1>9 DEF Tick, vars, clientVars, nodeVars
<1> QED
  BY <1>2, <1>3, <1>4, <1>5, <1>6, <1>7, <1>8, <1>9, NextCases

\* A write runs at most once, and one whose error carries no transaction never
\* ran and never will unless it is called again: Writes implements WritePromise.
THEOREM PromiseIsKept == Spec => KeepsPromise
<1>1. Init => Promise!Init
  <2> SUFFICES ASSUME Init PROVE Promise!Init
    OBVIOUS
  <2>1. TypeOK /\ Landed = {}
    BY InitNodeInv DEF NodeInv, Init, NodeInit, Landed, ToSet
  <2>2. \A w \in Ops : RunsOf(w) = 0
    BY <2>1, NotRun
  <2> QED
    BY <2>2 DEF Promise!Init, Init, Status
<1>2. NodeInv /\ [Next]_vars => [Promise!Next]_<<StatusNow, RunsNow>>
  BY PromiseStep
<1> QED
  BY <1>1, <1>2, NodeInvariant, PTL
     DEF Spec, KeepsPromise, Promise!Spec, StatusNow, RunsNow

-----------------------------------------------------------------------------
\* A used nonce stays used.
LEMMA UsedStable ==
  ASSUME TypeOK, [Next]_vars, NEW n, NonceUsed(n)
  PROVE  NonceUsed(n)'
<1>1. landed' = landed \/ \E t \in mempool : landed' = Append(landed, t)
  BY DEF Next, Submit, SubmitUnsigned, SubmitUnder, RegisterDid, Post, Reread, Answered, NoAnswer,
         Handle, Cancel, Resubmit, WaitUntilLanded, NodeStep, Land, Evict, Arrive, Tick, vars,
         nodeVars
<1>2. CASE landed' = landed
  BY <1>2 DEF NonceUsed, UsedAfter
<1>3. CASE \E t \in mempool : landed' = Append(landed, t)
  BY <1>3, LandFacts
<1> QED
  BY <1>1, <1>2, <1>3

\* Only a poll reports a landing, and what was signed stays signed so.
LEMMA ReportedFacts ==
  ASSUME NodeInv, [Next]_vars, NEW w \in Ops, st'[w] = "landed"
  PROVE  nonce'[w] = nonce[w] /\ mode' = mode /\ (st[w] = "landed" \/ WaitUntilLanded(w))
<1>0. TypeOK
  BY DEF NodeInv
<1>1. ASSUME NEW u \in Ops, MayCall(u), Called(u)
      PROVE  nonce'[w] = nonce[w] /\ mode' = mode /\ st[w] = "landed"
  <2>1. CASE Reread(acc')
    BY <2>1 DEF Reread, config
  <2>2. ASSUME NEW n, Post(u, n, acc')
        PROVE  nonce'[w] = nonce[w] /\ mode' = mode /\ st[w] = "landed"
    BY <1>0, <2>2 DEF Post, config, TypeOK
  <2> QED
    BY <1>1, <2>1, <2>2 DEF Called
<1>2. ASSUME NEW u \in Ops, Handle(u)
      PROVE  nonce'[w] = nonce[w] /\ mode' = mode /\ st[w] = "landed"
  <2>1. \E s \in {"accepted", "kept", "failed"} : st' = [st EXCEPT ![u] = s]
    BY <1>0, <1>2, HandleFacts DEF After
  <2> QED
    BY <1>0, <1>2, <2>1 DEF Handle, config, TypeOK
<1>3. ASSUME NEW u \in Ops, Resubmit(u)
      PROVE  nonce'[w] = nonce[w] /\ mode' = mode /\ st[w] = "landed"
  BY <1>0, <1>3 DEF Resubmit, config, TypeOK
<1>4. ASSUME NEW u \in Ops, WaitUntilLanded(u)
      PROVE  /\ nonce'[w] = nonce[w] /\ mode' = mode
             /\ st[w] = "landed" \/ WaitUntilLanded(w)
  BY <1>0, <1>4, WaitFacts DEF WaitUntilLanded, config, TypeOK, NodeInv
<1>5. ASSUME NEW u \in Ops, Answered(u) \/ NoAnswer(u) \/ Cancel(u)
      PROVE  nonce'[w] = nonce[w] /\ mode' = mode /\ st[w] = "landed"
  BY <1>0, <1>5 DEF Answered, NoAnswer, Cancel, config, TypeOK
<1>6. CASE UNCHANGED clientVars \/ Tick \/ UNCHANGED vars
  BY <1>6 DEF clientVars, Tick, vars, config
<1> QED
  BY <1>1, <1>2, <1>3, <1>4, <1>5, <1>6, NextCases

\* With a consensus RPC a write is reported landed only when a block used its
\* nonce.
THEOREM ReportsAreOfUsed == Spec => []ReportedIsUsed
<1>1. Init => ReportedIsUsed
  BY DEF Init, ReportedIsUsed
<1>2. ASSUME NodeInv, [Next]_vars, ReportedIsUsed
      PROVE  ReportedIsUsed'
  <2>0. TypeOK /\ BaseUsed /\ Signed
    BY <1>2 DEF NodeInv
  <2> SUFFICES ASSUME rpc', NEW w \in Ops, st'[w] = "landed"
               PROVE  NonceUsed(nonce[w])'
    BY DEF ReportedIsUsed
  <2>1. nonce'[w] = nonce[w] /\ mode' = mode /\ (st[w] = "landed" \/ WaitUntilLanded(w))
    BY <1>2, ReportedFacts
  <2>2. rpc
    BY <2>1 DEF rpc
  <2>3. NonceUsed(nonce[w])
    <3>1. CASE st[w] = "landed"
      BY <1>2, <2>2, <3>1 DEF ReportedIsUsed
    <3>2. CASE WaitUntilLanded(w) /\ st[w] # "landed"
      <4>1. st' = st \/ nonce[w] = 0 \/ NonceUsed(nonce[w])
        BY <2>0, <2>2, <3>2, WaitFacts
      <4>2. st[w] # "idle" /\ nonce[w] > 0 /\ nonce[w] \in Nat
        BY <2>0, <3>2 DEF WaitUntilLanded, Signed, TypeOK
      <4> QED
        BY <3>2, <4>1, <4>2
    <3> QED
      BY <2>1, <3>1, <3>2
  <2>4. \A n : NonceUsed(n) => NonceUsed(n)'
    BY <1>2, <2>0, UsedStable
  <2> QED
    BY <2>1, <2>3, <2>4 DEF NonceUsed
<1> QED
  BY <1>1, <1>2, NodeInvariant, PTL DEF Spec

-----------------------------------------------------------------------------
(* Whose landing a poll reports.  A record that names a write's hand-out    *)
(* names the latest one that can still use the nonce, so the poll that      *)
(* finds the nonce used has not missed a later write's landing.             *)

Started(w) == st[w] \notin {"idle", "failed"}

\* Hand-out ids are below the next one.
IdsBelowNext ==
  /\ \A n \in DOMAIN acc.handout : acc.handout[n] < acc.next
  /\ \A w \in Ops : hid[w] < acc.next /\ born[w] =< acc.next

\* The transaction of u used its nonce or may still use it.
Counts(u) == TxOf(u) \in Landed \/ ~NonceUsed(nonce[u])

\* A write whose hand-out its nonce's record names is the latest of the nonce,
\* unless it was resubmitted when there was no record.
RecordNamesLast ==
  \A w \in Ops \ readopted, u \in Ops :
    /\ Started(w) /\ hid[w] # NoHandout /\ HandoutOf(acc, nonce[w]) = hid[w]
    /\ Started(u) /\ nonce[u] = nonce[w] /\ Counts(u)
    => born[u] =< born[w]

\* The nonce of w was used, and by no later write.
Over(w) ==
  /\ NonceUsed(nonce[w])
  /\ \A t \in Landed : t.nonce = nonce[w] => born[t.op] =< born[w]

\* Two writes have one hand-out of a nonce only when a RegisterDid is signed
\* under a nonce that is used already.
SharedAreOver ==
  \A w, u \in Ops :
    /\ w # u /\ Started(w) /\ Started(u)
    /\ nonce[w] = nonce[u] /\ hid[w] = hid[u] /\ hid[w] # NoHandout
    => w \in readopted \/ Over(w)

LedgerInv == IdsBelowNext /\ RecordNamesLast /\ SharedAreOver

\* What a record is, and a landed transaction of.
LEMMA LedgerFacts ==
  ASSUME NodeInv, IdsBelowNext
  PROVE  /\ \A n : HandoutOf(acc, n) \in Nat /\ HandoutOf(acc, n) < acc.next
         /\ \A t \in Landed : t.op \in Ops /\ t = TxOf(t.op) /\ Started(t.op)
                                /\ t.nonce = nonce[t.op] /\ Counts(t.op)
         /\ acc.next \in Nat \ {0}
         /\ \A w \in Ops : hid[w] \in Nat /\ born[w] \in Nat
<1>1. IsAccount(acc) /\ TypeOK /\ CopiesAreSigned /\ NoneLeft
  BY DEF NodeInv, CopiesInv, TypeOK
<1>2. \A n : HandoutOf(acc, n) \in Nat /\ HandoutOf(acc, n) < acc.next
  BY <1>1 DEF HandoutOf, NoHandout, IdsBelowNext, IsAccount
<1>3. ASSUME NEW t \in Landed
      PROVE  t.op \in Ops /\ t = TxOf(t.op) /\ Started(t.op) /\ t.nonce = nonce[t.op]
               /\ Counts(t.op)
  <2>1. t \in Copies /\ t \in Transactions
    BY <1>1, CopiesType DEF Copies
  <2>2. t = TxOf(t.op) /\ t.op \in Ops
    BY <1>1, <2>1 DEF CopiesAreSigned, Transactions
  <2>3. ~Unsent(t.op)
    BY <1>1, <2>1, <2>2 DEF NoneLeft, NoCopy
  <2> QED
    BY <2>2, <2>3 DEF Started, Unsent, Counts, TxOf, Tx
<1> QED
  BY <1>1, <1>2, <1>3 DEF TypeOK, IsAccount

\* A step that signs nothing and leaves no record but what there was keeps it.
LEMMA LedgerFrame ==
  ASSUME NodeInv, LedgerInv, NodeInv',
         \A n : HandoutOf(acc', n) \in {HandoutOf(acc, n), NoHandout},
         acc'.next >= acc.next,
         UNCHANGED <<nonce, hid, born, readopted, landed>>,
         \A w \in Ops : Started(w)' => Started(w)
  PROVE  LedgerInv'
<1>1. /\ acc.next \in Nat /\ acc'.next \in Nat
      /\ \A n : HandoutOf(acc, n) \in Nat /\ HandoutOf(acc, n) < acc.next
      /\ \A w \in Ops : hid[w] \in Nat /\ born[w] \in Nat
  BY LedgerFacts DEF LedgerInv, NodeInv, TypeOK, IsAccount
<1>2. IdsBelowNext'
  <2>1. \A n \in DOMAIN acc'.handout : acc'.handout[n] < acc'.next
    <3> SUFFICES ASSUME NEW n \in DOMAIN acc'.handout PROVE acc'.handout[n] < acc'.next
      OBVIOUS
    <3>1. acc'.handout[n] = HandoutOf(acc', n) /\ acc'.handout[n] \in Nat \ {0}
      BY DEF HandoutOf, NodeInv, TypeOK, IsAccount
    <3>2. acc'.handout[n] = HandoutOf(acc, n)
      BY <3>1 DEF NoHandout
    <3> QED
      BY <1>1, <3>1, <3>2
  <2> QED
    BY <1>1, <2>1 DEF LedgerInv, IdsBelowNext
<1>3. /\ \A w : Counts(w)' <=> Counts(w)
      /\ \A w : Over(w)' <=> Over(w)
  BY DEF Counts, Over, TxOf, Landed, NonceUsed, UsedAfter
<1>4. RecordNamesLast'
  BY <1>3 DEF LedgerInv, RecordNamesLast
<1>5. SharedAreOver'
  BY <1>3 DEF LedgerInv, SharedAreOver
<1> QED
  BY <1>2, <1>4, <1>5 DEF LedgerInv

\* A write signed under a nonce handed out to it is the nonce's latest.
LEMMA LedgerPost ==
  ASSUME NodeInv, LedgerInv, NodeInv', NEW w \in Ops, MayCall(w), NEW n, Post(w, n, acc'),
         \A m : HandoutOf(acc', m) \in {HandoutOf(acc, m), NoHandout} \/ m = n,
         HandoutOf(acc', n) = acc.next, acc'.next = acc.next + 1
  PROVE  LedgerInv'
<1>1. /\ acc.next \in Nat \ {0}
      /\ \A m : HandoutOf(acc, m) \in Nat /\ HandoutOf(acc, m) < acc.next
      /\ \A u \in Ops : /\ hid[u] \in Nat /\ born[u] \in Nat
                        /\ hid[u] < acc.next /\ born[u] =< acc.next
      /\ \A t \in Landed : t.op \in Ops /\ Started(t.op)
  BY LedgerFacts DEF LedgerInv, IdsBelowNext
<1>2. /\ nonce' = [nonce EXCEPT ![w] = n] /\ hid' = [hid EXCEPT ![w] = acc.next]
      /\ born' = [born EXCEPT ![w] = acc.next] /\ st' = [st EXCEPT ![w] = "posting"]
      /\ readopted' = readopted /\ landed' = landed
  BY DEF Post, nodeVars
<1>3. /\ nonce \in [Ops -> Nat] /\ hid \in [Ops -> Nat] /\ born \in [Ops -> Nat]
      /\ st \in [Ops -> States]
  BY DEF NodeInv, TypeOK
<1>4. /\ nonce'[w] = n /\ hid'[w] = acc.next /\ born'[w] = acc.next
      /\ \A u \in Ops \ {w} : /\ nonce'[u] = nonce[u] /\ hid'[u] = hid[u]
                              /\ born'[u] = born[u] /\ (Started(u)' <=> Started(u))
  BY <1>2, <1>3 DEF Started
<1>5. Landed' = Landed /\ \A m : NonceUsed(m)' <=> NonceUsed(m)
  BY <1>2 DEF Landed, NonceUsed, UsedAfter
<1>6. IdsBelowNext'
  <2>1. \A m \in DOMAIN acc'.handout : acc'.handout[m] < acc'.next
    <3> SUFFICES ASSUME NEW m \in DOMAIN acc'.handout PROVE acc'.handout[m] < acc'.next
      OBVIOUS
    <3>1. acc'.handout[m] = HandoutOf(acc', m)
      BY DEF HandoutOf
    <3>2. HandoutOf(acc', m) =< acc.next
      BY <1>1 DEF NoHandout
    <3>3. HandoutOf(acc', m) \in Nat
      BY <1>1 DEF NoHandout
    <3> QED
      BY <1>1, <3>1, <3>2, <3>3
  <2> QED
    BY <1>1, <1>4, <2>1 DEF IdsBelowNext
<1>7. \A u \in Ops \ {w} : Counts(u)' <=> Counts(u)
  BY <1>4, <1>5 DEF Counts, TxOf, NonceUsed
<1>8. \A u \in Ops \ {w} : Over(u) => Over(u)'
  <2>1. \A t \in Landed : t.op \in Ops \ {w}
    BY <1>1 DEF MayCall, Started
  <2> QED
    BY <1>4, <1>5, <2>1 DEF Over, NonceUsed
<1>9. RecordNamesLast'
  <2> SUFFICES ASSUME NEW v \in Ops \ readopted, NEW u \in Ops,
                      Started(v)', hid'[v] # NoHandout, HandoutOf(acc', nonce'[v]) = hid'[v],
                      Started(u)', nonce'[u] = nonce'[v], Counts(u)'
               PROVE  born'[u] =< born'[v]
    BY <1>2 DEF RecordNamesLast
  <2>1. CASE v = w
    BY <1>1, <1>4, <2>1
  <2>2. CASE v # w
    <3>1. nonce[v] # n /\ u # w /\ HandoutOf(acc, nonce[v]) = hid[v]
      BY <1>1, <1>4, <2>2
    <3> QED
      BY <1>4, <1>7, <2>2, <3>1 DEF LedgerInv, RecordNamesLast
  <2> QED
    BY <2>1, <2>2
<1>10. SharedAreOver'
  <2> SUFFICES ASSUME NEW v \in Ops, NEW u \in Ops, v # u, Started(v)', Started(u)',
                      nonce'[v] = nonce'[u], hid'[v] = hid'[u], hid'[v] # NoHandout
               PROVE  v \in readopted \/ Over(v)'
    BY <1>2 DEF SharedAreOver
  <2>1. v # w /\ u # w
    BY <1>1, <1>4
  <2> QED
    BY <1>4, <1>8, <2>1 DEF LedgerInv, SharedAreOver
<1> QED
  BY <1>6, <1>9, <1>10 DEF LedgerInv

\* A RegisterDid signed under nonce 1 when that is used: it will not land, and
\* whoever the record is of, no later write used the nonce.
LEMMA LedgerRegister ==
  ASSUME NodeInv, LedgerInv, NodeInv', NEW w \in Ops, MayCall(w), Post(w, 1, acc'),
         acc' = acc, acc.base > 0
  PROVE  LedgerInv'
<1>1. /\ acc.next \in Nat \ {0}
      /\ \A m : HandoutOf(acc, m) \in Nat /\ HandoutOf(acc, m) < acc.next
      /\ \A u \in Ops : /\ hid[u] \in Nat /\ born[u] \in Nat
                        /\ hid[u] < acc.next /\ born[u] =< acc.next
      /\ \A t \in Landed : /\ t.op \in Ops /\ t = TxOf(t.op) /\ Started(t.op)
                           /\ t.nonce = nonce[t.op] /\ Counts(t.op)
  BY LedgerFacts DEF LedgerInv, IdsBelowNext
<1>2. /\ nonce' = [nonce EXCEPT ![w] = 1] /\ hid' = [hid EXCEPT ![w] = HandoutOf(acc, 1)]
      /\ born' = [born EXCEPT ![w] = acc.next] /\ st' = [st EXCEPT ![w] = "posting"]
      /\ readopted' = readopted /\ landed' = landed
  BY DEF Post, nodeVars
<1>3. /\ nonce \in [Ops -> Nat] /\ hid \in [Ops -> Nat] /\ born \in [Ops -> Nat]
      /\ st \in [Ops -> States]
  BY DEF NodeInv, TypeOK
<1>4. /\ nonce'[w] = 1 /\ hid'[w] = HandoutOf(acc, 1) /\ born'[w] = acc.next
      /\ \A u \in Ops \ {w} : /\ nonce'[u] = nonce[u] /\ hid'[u] = hid[u]
                              /\ born'[u] = born[u] /\ (Started(u)' <=> Started(u))
  BY <1>2, <1>3 DEF Started
<1>5. Landed' = Landed /\ \A m : NonceUsed(m)' <=> NonceUsed(m)
  BY <1>2 DEF Landed, NonceUsed, UsedAfter
<1>6. IdsBelowNext'
  BY <1>1, <1>4 DEF LedgerInv, IdsBelowNext
<1>7. NonceUsed(1)
  BY DEF NodeInv, BaseUsed, TypeOK, IsAccount
<1>8. \A t \in Landed : t.op \in Ops \ {w}
  BY <1>1 DEF MayCall, Started
<1>9. ~Counts(w)'
  BY <1>4, <1>5, <1>7, <1>8 DEF Counts, TxOf, Tx, NonceUsed
<1>10. \A u \in Ops \ {w} : (Counts(u)' <=> Counts(u)) /\ (Over(u) => Over(u)')
  BY <1>4, <1>5, <1>8 DEF Counts, Over, TxOf, NonceUsed
<1>11. RecordNamesLast'
  <2> SUFFICES ASSUME NEW v \in Ops \ readopted, NEW u \in Ops,
                      Started(v)', hid'[v] # NoHandout, HandoutOf(acc', nonce'[v]) = hid'[v],
                      Started(u)', nonce'[u] = nonce'[v], Counts(u)'
               PROVE  born'[u] =< born'[v]
    BY <1>2 DEF RecordNamesLast
  <2>1. u # w
    BY <1>9
  <2>2. CASE v = w
    BY <1>1, <1>4, <2>1, <2>2
  <2>3. CASE v # w
    BY <1>4, <1>10, <2>1, <2>3 DEF LedgerInv, RecordNamesLast
  <2> QED
    BY <2>2, <2>3
<1>12. Over(w)'
  <2>1. \A t \in Landed : born'[t.op] =< born'[w]
    BY <1>1, <1>4, <1>8
  <2> QED
    BY <1>4, <1>5, <1>7, <2>1 DEF Over, NonceUsed
<1>13. ASSUME NEW v \in Ops \ {w}, Started(v), nonce[v] = 1, hid[v] = HandoutOf(acc, 1),
              hid[v] # NoHandout, v \notin readopted
       PROVE  Over(v)
  <2>1. \A t \in Landed : t.nonce = 1 => born[t.op] =< born[v]
    BY <1>1, <1>13 DEF LedgerInv, RecordNamesLast
  <2> QED
    BY <1>7, <1>13, <2>1 DEF Over
<1>14. SharedAreOver'
  <2> SUFFICES ASSUME NEW v \in Ops, NEW u \in Ops, v # u, Started(v)', Started(u)',
                      nonce'[v] = nonce'[u], hid'[v] = hid'[u], hid'[v] # NoHandout
               PROVE  v \in readopted \/ Over(v)'
    BY <1>2 DEF SharedAreOver
  <2>1. CASE v = w
    BY <1>12, <2>1
  <2>2. CASE u = w
    BY <1>4, <1>10, <1>13, <2>2
  <2>3. CASE v # w /\ u # w
    BY <1>4, <1>10, <2>3 DEF LedgerInv, SharedAreOver
  <2> QED
    BY <2>1, <2>2, <2>3
<1> QED
  BY <1>6, <1>11, <1>14 DEF LedgerInv

\* A resubmission restores a record only as the history says.
LEMMA LedgerResubmit ==
  ASSUME NodeInv, LedgerInv, NodeInv', NEW w \in Ops, Resubmit(w)
  PROVE  LedgerInv'
<1>1. /\ acc.next \in Nat \ {0}
      /\ \A m : HandoutOf(acc, m) \in Nat /\ HandoutOf(acc, m) < acc.next
      /\ \A u \in Ops : /\ hid[u] \in Nat /\ born[u] \in Nat
                        /\ hid[u] < acc.next /\ born[u] =< acc.next
  BY LedgerFacts DEF LedgerInv, IdsBelowNext
<1>2. PICK r : RefreshedTo(r) /\ Resubmitted(w, r)
  BY ResubmitFacts DEF NodeInv
<1> DEFINE n == nonce[w]
<1>3. st[w] = "kept" /\ UNCHANGED <<nonce, born, landed>>
  BY DEF Resubmit, nodeVars
<1>4. r.next = acc.next /\ \A m : HandoutOf(r, m) \in {HandoutOf(acc, m), NoHandout}
  BY <1>2 DEF RefreshedTo
<1>5. hid \in [Ops -> Nat] /\ st \in [Ops -> States]
  BY DEF NodeInv, TypeOK
<1>6. \/ /\ \A m : HandoutOf(acc', m) = HandoutOf(r, m)
         /\ acc'.next = acc.next /\ hid'[w] \in {hid[w], NoHandout}
      \/ /\ \A m : HandoutOf(acc', m) = IF m = n THEN hid'[w] ELSE HandoutOf(r, m)
         /\ HandoutOf(r, n) = NoHandout
         /\ \/ hid'[w] = hid[w] /\ acc'.next = acc.next
            \/ hid'[w] = acc.next /\ acc'.next = acc.next + 1
  BY <1>2, <1>4, <1>5 DEF Resubmitted, Leased
<1>7. /\ hid'[w] = hid[w] \/ w \in readopted' \/ hid'[w] = NoHandout
      /\ \A u \in Ops \ {w} : hid'[u] = hid[u]
      /\ readopted \subseteq readopted'
      /\ HandoutOf(r, n) = NoHandout /\ HandoutOf(acc', n) # NoHandout => w \in readopted'
      /\ \A u \in Ops : Started(u)' <=> Started(u)
  BY <1>2, <1>3, <1>4, <1>5 DEF Resubmitted, Leased, Started
<1>8. /\ \A u : Counts(u)' <=> Counts(u)
      /\ \A u : Over(u)' <=> Over(u)
      /\ Started(w)
  BY <1>3 DEF Counts, Over, TxOf, Landed, NonceUsed, UsedAfter, Started
<1>9. IdsBelowNext'
  <2>1. \A m : HandoutOf(acc', m) < acc'.next /\ acc'.next >= acc.next
    <3>1. \A m : HandoutOf(r, m) \in Nat /\ HandoutOf(r, m) < acc.next
      BY <1>1, <1>4 DEF NoHandout
    <3>2. hid[w] \in Nat /\ hid[w] < acc.next
      BY <1>1
    <3> QED
      BY <1>1, <1>6, <3>1, <3>2
  <2>2. \A m \in DOMAIN acc'.handout : acc'.handout[m] < acc'.next
    BY <2>1 DEF HandoutOf
  <2>3. \A u \in Ops : hid'[u] < acc'.next /\ born'[u] =< acc'.next
    <3>1. hid'[w] < acc'.next /\ acc'.next \in Nat /\ acc'.next >= acc.next
      BY <1>1, <1>6 DEF NoHandout
    <3> QED
      BY <1>1, <1>3, <1>7, <3>1
  <2> QED
    BY <2>2, <2>3 DEF IdsBelowNext
<1>10. ASSUME NEW v \in Ops \ readopted', NEW u \in Ops,
              Started(v), hid'[v] # NoHandout, HandoutOf(acc', nonce[v]) = hid'[v],
              Started(u), nonce[u] = nonce[v], Counts(u)
       PROVE  born[u] =< born[v]
  <2>1. CASE HandoutOf(acc, nonce[v]) = hid[v] /\ hid[v] # NoHandout
    BY <1>7, <1>10, <2>1 DEF LedgerInv, RecordNamesLast
  <2>2. CASE ~(HandoutOf(acc, nonce[v]) = hid[v] /\ hid[v] # NoHandout)
    <3>1. hid'[v] = hid[v]
      BY <1>7, <1>10
    <3>2. HandoutOf(acc', nonce[v]) # HandoutOf(r, nonce[v])
      BY <1>4, <1>10, <2>2, <3>1
    <3>3. /\ nonce[v] = n /\ HandoutOf(r, n) = NoHandout
          /\ HandoutOf(acc', n) = hid'[w] /\ hid'[w] \in {hid[w], acc.next}
      BY <1>6, <3>2
    <3>4. w \in readopted' /\ v # w /\ hid[v] = hid[w]
      BY <1>1, <1>7, <1>10, <3>1, <3>3
    <3>5. Over(v)
      BY <1>7, <1>8, <1>10, <3>1, <3>3, <3>4 DEF LedgerInv, SharedAreOver
    <3>6. TxOf(u) \in Landed /\ TxOf(u).nonce = nonce[v] /\ TxOf(u).op = u
      BY <1>10, <3>5 DEF Counts, Over, TxOf, Tx
    <3> QED
      BY <3>5, <3>6 DEF Over
  <2> QED
    BY <2>1, <2>2
<1>11. RecordNamesLast'
  BY <1>3, <1>7, <1>8, <1>10 DEF RecordNamesLast
<1>12. ASSUME NEW v \in Ops, NEW u \in Ops, v # u, Started(v), Started(u),
              nonce[v] = nonce[u], hid'[v] = hid'[u], hid'[v] # NoHandout
       PROVE  v \in readopted' \/ Over(v)
  <2>1. CASE hid[v] = hid[u]
    BY <1>7, <1>12, <2>1 DEF LedgerInv, SharedAreOver
  <2>2. CASE hid[v] # hid[u]
    BY <1>1, <1>6, <1>7, <1>12, <2>2
  <2> QED
    BY <2>1, <2>2
<1>13. SharedAreOver'
  BY <1>3, <1>7, <1>8, <1>12 DEF SharedAreOver
<1> QED
  BY <1>9, <1>11, <1>13 DEF LedgerInv

\* A transaction that lands could have, and nothing else used its nonce.
LEMMA LedgerLand ==
  ASSUME NodeInv, LedgerInv, Land, UNCHANGED clientVars
  PROVE  LedgerInv'
<1>0. TypeOK /\ MempoolInv /\ CopiesAreSigned
  BY DEF NodeInv, CopiesInv
<1>1. PICK t \in mempool : landed' = Append(landed, t)
  BY DEF Land
<1>2. /\ Landed' = Landed \cup {t}
      /\ \A n : NonceUsed(n)' <=> NonceUsed(n) \/ n = t.nonce
  BY <1>0, <1>1, LandFacts
<1>3. ~NonceUsed(t.nonce) /\ t = TxOf(t.op)
  BY <1>0 DEF MempoolInv, CopiesAreSigned, Copies
<1>4. UNCHANGED <<acc, st, nonce, hid, born, readopted>>
  BY DEF clientVars
<1>5. ASSUME NEW u \in Ops, Counts(u)' PROVE Counts(u)
  <2>1. CASE TxOf(u) = t
    BY <1>3, <2>1 DEF Counts, TxOf, Tx
  <2>2. CASE TxOf(u) # t
    BY <1>2, <1>4, <1>5, <2>2 DEF Counts, TxOf, NonceUsed
  <2> QED
    BY <2>1, <2>2
<1>6. ASSUME NEW u \in Ops, Over(u) PROVE Over(u)'
  <2>1. NonceUsed(nonce[u]) /\ t.nonce # nonce[u]
    BY <1>3, <1>6 DEF Over
  <2> QED
    BY <1>2, <1>4, <1>6, <2>1 DEF Over, NonceUsed
<1>7. IdsBelowNext' /\ \A u : Started(u)' <=> Started(u)
  BY <1>4 DEF LedgerInv, IdsBelowNext, Started
<1>8. RecordNamesLast'
  BY <1>4, <1>5, <1>7 DEF LedgerInv, RecordNamesLast
<1>9. SharedAreOver'
  BY <1>4, <1>6, <1>7 DEF LedgerInv, SharedAreOver
<1> QED
  BY <1>7, <1>8, <1>9 DEF LedgerInv

\* Every step keeps the ledger.
LEMMA LedgerStep ==
  ASSUME NodeInv, LedgerInv, [Next]_vars
  PROVE  LedgerInv'
<1>0. TypeOK /\ IsAccount(acc) /\ acc.next \in Nat /\ NodeInv'
  BY NextNodeInv DEF NodeInv, TypeOK, IsAccount
<1>1. ASSUME NEW w \in Ops, MayCall(w), Called(w)
      PROVE  LedgerInv'
  <2>1. CASE RefreshedTo(acc') /\ Reread(acc')
    <3>1. \A n : HandoutOf(acc', n) \in {HandoutOf(acc, n), NoHandout}
      BY <2>1 DEF RefreshedTo
    <3>2. acc'.next >= acc.next
      BY <1>0, <2>1 DEF RefreshedTo
    <3> QED
      BY <1>0, <2>1, <3>1, <3>2, LedgerFrame DEF Reread, nodeVars, Started
  <2>2. ASSUME NEW r, NEW n \in Nat \ {0}, RefreshedTo(r), acc'.next = r.next + 1,
               Reread(acc'), Returned(acc', r, n)
        PROVE  LedgerInv'
    <3>1. \A m : HandoutOf(acc', m) \in {HandoutOf(acc, m), NoHandout}
      BY <2>2 DEF RefreshedTo, Returned
    <3>2. acc'.next >= acc.next
      BY <1>0, <2>2 DEF RefreshedTo
    <3> QED
      BY <1>0, <2>2, <3>1, <3>2, LedgerFrame DEF Reread, nodeVars, Started
  <2>3. ASSUME NEW r, NEW n \in Nat \ {0}, RefreshedTo(r), acc'.next = r.next + 1,
               Post(w, n, acc'), Leased(acc', r, n, r.next, now)
        PROVE  LedgerInv'
    <3>1. /\ \A m : HandoutOf(acc', m) \in {HandoutOf(acc, m), NoHandout} \/ m = n
          /\ HandoutOf(acc', n) = acc.next /\ acc'.next = acc.next + 1
      BY <2>3 DEF RefreshedTo, Leased
    <3> QED
      BY <1>0, <1>1, <2>3, <3>1, LedgerPost
  <2>4. CASE Post(w, 1, acc') /\ acc.base > 0 /\ acc' = acc
    BY <1>0, <1>1, <2>4, LedgerRegister
  <2>5. CASE /\ Post(w, 1, acc') /\ acc'.next = acc.next + 1
             /\ Leased(acc', acc, 1, acc.next, now)
    <3>1. /\ \A m : HandoutOf(acc', m) \in {HandoutOf(acc, m), NoHandout} \/ m = 1
          /\ HandoutOf(acc', 1) = acc.next
      BY <2>5 DEF Leased
    <3> QED
      BY <1>0, <1>1, <2>5, <3>1, LedgerPost
  <2> QED
    BY <1>1, <2>1, <2>2, <2>3, <2>4, <2>5 DEF Called, FreeOn
<1>2. ASSUME NEW w \in Ops, Handle(w)
      PROVE  LedgerInv'
  <2>1. UNCHANGED <<nonce, hid, born, readopted, landed>> /\ st[w] = "posting"
    BY <1>2 DEF Handle, nodeVars
  <2>2. /\ \A n : HandoutOf(acc', n) \in {HandoutOf(acc, n), NoHandout}
        /\ acc'.next = acc.next
    <3>1. ASSUME NEW o \in Outcomes, SettleLeaves(acc', acc, nonce[w], o, hid[w])
          PROVE  /\ \A n : HandoutOf(acc', n) \in {HandoutOf(acc, n), NoHandout}
                 /\ acc'.next = acc.next
      <4>1. acc'.next = acc.next
        BY <3>1 DEF SettleLeaves
      <4>2. /\ DOMAIN acc'.handout \subseteq DOMAIN acc.handout
            /\ \A m \in DOMAIN acc'.handout : acc'.handout[m] = acc.handout[m]
        BY <3>1 DEF SettleLeaves
      <4> QED
        BY <4>1, <4>2 DEF HandoutOf
    <3> QED
      BY <1>0, <1>2, <3>1, HandleFacts
  <2>4. \E s \in {"accepted", "kept", "failed"} : st' = [st EXCEPT ![w] = s]
    BY <1>0, <1>2, HandleFacts DEF After
  <2>3. \A u \in Ops : Started(u)' => Started(u)
    BY <1>0, <2>1, <2>4 DEF Started, TypeOK
  <2> QED
    BY <1>0, <2>1, <2>2, <2>3, LedgerFrame
<1>3. ASSUME NEW w \in Ops, Resubmit(w)
      PROVE  LedgerInv'
  BY <1>0, <1>3, LedgerResubmit
<1>4. ASSUME NEW w \in Ops, WaitUntilLanded(w)
      PROVE  LedgerInv'
  <2>1. /\ UNCHANGED <<nonce, hid, born, readopted, landed>> /\ st[w] \in {"accepted", "kept"}
        /\ RefreshedTo(acc') /\ (st' = st \/ st' = [st EXCEPT ![w] = "landed"])
    BY <1>0, <1>4, WaitFacts DEF WaitUntilLanded, nodeVars, NodeInv
  <2>2. /\ \A n : HandoutOf(acc', n) \in {HandoutOf(acc, n), NoHandout}
        /\ acc'.next >= acc.next
    BY <1>0, <2>1 DEF RefreshedTo
  <2>3. \A u \in Ops : Started(u)' => Started(u)
    BY <1>0, <2>1 DEF Started, TypeOK
  <2> QED
    BY <1>0, <2>1, <2>2, <2>3, LedgerFrame
<1>5. ASSUME UNCHANGED <<acc, nonce, hid, born, readopted, landed>>,
             \A u \in Ops : Started(u)' => Started(u)
      PROVE  LedgerInv'
  BY <1>0, <1>5, LedgerFrame
<1>6. ASSUME NEW w \in Ops, Answered(w) \/ NoAnswer(w) \/ Cancel(w)
      PROVE  LedgerInv'
  <2>1. UNCHANGED <<acc, nonce, hid, born, readopted, landed>>
    BY <1>6 DEF Answered, NoAnswer, Cancel
  <2>2. \A u \in Ops : Started(u)' => Started(u)
    BY <1>0, <1>6 DEF Answered, NoAnswer, Cancel, Started, TypeOK
  <2> QED
    BY <1>5, <2>1, <2>2
<1>7. ASSUME NodeStep, UNCHANGED clientVars
      PROVE  LedgerInv'
  <2>1. CASE Land
    BY <1>7, <2>1, LedgerLand
  <2>2. CASE Evict \/ Arrive
    BY <1>5, <1>7, <2>2 DEF Evict, Arrive, clientVars, Started
  <2> QED
    BY <1>7, <2>1, <2>2 DEF NodeStep
<1>8. CASE Tick \/ UNCHANGED vars
  BY <1>5, <1>8 DEF Tick, vars, clientVars, nodeVars, Started
<1> QED
  BY <1>1, <1>2, <1>3, <1>4, <1>6, <1>7, <1>8, NextCases

\* The ledger holds in every reachable state.
LEMMA LedgerInvariant == Spec => []LedgerInv
<1>1. Init => LedgerInv
  BY DEF Init, LedgerInv, IdsBelowNext, RecordNamesLast, SharedAreOver, Started, NewAccount,
         NoHandout
<1>2. NodeInv /\ LedgerInv /\ [Next]_vars => LedgerInv'
  BY LedgerStep
<1> QED
  BY <1>1, <1>2, NodeInvariant, PTL DEF Spec

\* A poll never reports a later write's landing as the write's own, while the
\* nonce's record is kept.
THEOREM LandingsAreOwn == Spec => NeverReportsLaterWrite
<1>1. ASSUME NodeInv, LedgerInv, [Next]_vars, NEW w \in Ops \ readopted,
             st'[w] = "landed", st[w] # "landed", nonce[w] > acc'.base - History,
             NEW i \in 1..Len(landed), landed[i].nonce = nonce[w]
      PROVE  born[landed[i].op] =< born[w]
  <2>0. TypeOK /\ BaseUsed /\ WaitUntilLanded(w)
    BY <1>1, ReportedFacts DEF NodeInv
  <2>1. RefreshedTo(acc') /\ StillItsNonce(w, acc') /\ st[w] \in {"accepted", "kept"}
    BY <1>1, <2>0, WaitFacts DEF WaitUntilLanded
  <2>2. HandoutOf(acc', nonce[w]) = hid[w] /\ hid[w] # NoHandout
    <3>1. acc'.base \in Nat /\ nonce[w] \in Nat
      BY <2>0, <2>1 DEF RefreshedTo, IsAccount, TypeOK
    <3>2. ~(nonce[w] =< acc'.base - History)
      BY <1>1, <3>1, HistoryAssumption
    <3> QED
      BY <2>1, <3>2 DEF StillItsNonce, StillHandedTo
  <2>3. HandoutOf(acc, nonce[w]) = hid[w]
    BY <2>1, <2>2 DEF RefreshedTo
  <2>4. landed[i] \in Landed
    BY <2>0, CopiesType
  <2> DEFINE u == landed[i].op
  <2>5. u \in Ops /\ Started(u) /\ nonce[u] = nonce[w] /\ Counts(u)
    BY <1>1, <2>4, LedgerFacts DEF LedgerInv
  <2> QED
    BY <1>1, <2>1, <2>2, <2>3, <2>5 DEF LedgerInv, RecordNamesLast, Started
<1>2. NodeInv /\ LedgerInv /\ [Next]_vars
        => [\A w \in Ops \ readopted :
              st'[w] = "landed" /\ st[w] # "landed" /\ nonce[w] > acc'.base - History
                => \A i \in 1..Len(landed) :
                     landed[i].nonce = nonce[w] => born[landed[i].op] =< born[w]]_vars
  BY <1>1
<1> QED
  BY <1>2, NodeInvariant, LedgerInvariant, PTL DEF Spec, NeverReportsLaterWrite

-----------------------------------------------------------------------------
(* Cancelled writes.  While posts end within their lease, nothing is        *)
(* registered and no trusted answer lowers the base, a write in flight      *)
(* holds its nonce until the nonce is used, so no other write in flight can *)
(* take its place in interrupted_writes.                                    *)

Quiet == timely /\ registrations = {} /\ ~rpc

OwnIds == \A w, u \in Ops : hid[w] = hid[u] /\ hid[w] # NoHandout => w = u

\* On account a the nonce of w is used, or leased and recorded under w's own id.
Holds(a, w) ==
  LET n == nonce[w] IN
  /\ IsUsed(a, n) \/ (n \in DOMAIN a.handed /\ now - a.handed[n] < Lease)
  /\ IF HandoutOf(a, n) = NoHandout THEN IsUsed(a, n) ELSE HandoutOf(a, n) = hid[w]

PostsHold == \A w \in Ops : st[w] = "posting" => Holds(acc, w)

\* A cancelled write whose nonce is still its own is listed.
OpenListed ==
  \A w \in open :
    /\ st[w] \in {"kept", "landed"}
    /\ hid[w] # NoHandout /\ HandoutOf(acc, nonce[w]) = hid[w] =>
         nonce[w] \in DOMAIN interrupted /\ interrupted[nonce[w]] = w

QuietInv == OwnIds /\ PostsHold /\ OpenListed

\* Refreshing the account, and leasing or giving back another nonce, leave a
\* nonce held.
LEMMA HoldsFacts ==
  ASSUME TypeOK, ~rpc, NEW r, RefreshedTo(r), NEW w \in Ops, Holds(acc, w)
  PROVE  /\ Holds(r, w)
         /\ \A a, n, h : Leased(a, r, n, h, now) /\ n # nonce[w] => Holds(a, w)
         /\ \A a, n : Returned(a, r, n) /\ n # nonce[w] => Holds(a, w)
<1> DEFINE m == nonce[w]
<1>1. m \in Nat
  BY DEF TypeOK
<1>2. /\ IsUsed(acc, m) => IsUsed(r, m)
      /\ IsUsed(r, m) \/ HandoutOf(r, m) = HandoutOf(acc, m)
      /\ HandoutOf(r, m) \in {HandoutOf(acc, m), NoHandout}
      /\ m \in DOMAIN r.handed => m \in DOMAIN acc.handed /\ r.handed[m] = acc.handed[m]
      /\ m \in DOMAIN acc.handed /\ now - acc.handed[m] < Lease
           => IsUsed(r, m) \/ m \in DOMAIN r.handed
  BY <1>1 DEF RefreshedTo
<1>3. Holds(r, w)
  BY <1>2 DEF Holds
<1>4. ASSUME NEW a, a.base = r.base, a.used = r.used, HandoutOf(a, m) = HandoutOf(r, m),
             m \in DOMAIN a.handed <=> m \in DOMAIN r.handed,
             m \in DOMAIN r.handed => a.handed[m] = r.handed[m]
      PROVE  Holds(a, w)
  BY <1>3, <1>4 DEF Holds, IsUsed
<1>5. ASSUME NEW a, NEW n, NEW h, Leased(a, r, n, h, now), n # m PROVE Holds(a, w)
  BY <1>4, <1>5 DEF Leased
<1>6. ASSUME NEW a, NEW n, Returned(a, r, n), n # m PROVE Holds(a, w)
  BY <1>4, <1>6 DEF Returned
<1> QED
  BY <1>3, <1>5, <1>6

\* A nonce a write in flight holds is not free.
LEMMA HeldNotFree ==
  ASSUME TypeOK, ~rpc, NEW r, NEW n, FreeOn(r, n), NEW w \in Ops, Holds(acc, w)
  PROVE  nonce[w] # n
<1>1. Holds(r, w)
  BY HoldsFacts DEF FreeOn
<1> QED
  BY <1>1 DEF Holds, FreeOn

\* A step that lists nothing and leaves no record but what there was keeps what
\* is listed.
LEMMA ListedFrame ==
  ASSUME OpenListed, UNCHANGED <<nonce, hid, interrupted, open>>,
         \A n : HandoutOf(acc', n) \in {HandoutOf(acc, n), NoHandout},
         \A w \in open : st'[w] \in {"kept", "landed"}
  PROVE  OpenListed'
BY DEF OpenListed

\* Every call keeps the invariant.
LEMMA QuietCall ==
  ASSUME NodeInv, LedgerInv, Quiet, QuietInv, NEW w \in Ops, MayCall(w), Called(w)
  PROVE  QuietInv'
<1>0. TypeOK /\ ~rpc /\ OwnIds /\ PostsHold /\ OpenListed /\ w \notin registrations
  BY DEF NodeInv, Quiet, QuietInv
<1>1. /\ acc.next \in Nat \ {0}
      /\ \A n : HandoutOf(acc, n) \in Nat /\ HandoutOf(acc, n) < acc.next
      /\ \A u \in Ops : hid[u] \in Nat /\ hid[u] < acc.next
  BY LedgerFacts DEF LedgerInv, IdsBelowNext
<1>2. ASSUME Reread(acc'), \A u \in Ops : st[u] = "posting" => Holds(acc', u),
             \A n : HandoutOf(acc', n) \in {HandoutOf(acc, n), NoHandout}
      PROVE  QuietInv'
  <2>1. UNCHANGED <<nonce, hid, interrupted, open, st, now>>
    BY <1>2 DEF Reread
  <2>2. OpenListed'
    BY <1>0, <1>2, <2>1, ListedFrame DEF OpenListed
  <2>3. OwnIds' /\ PostsHold'
    BY <1>0, <1>2, <2>1 DEF OwnIds, PostsHold, Holds
  <2> QED
    BY <2>2, <2>3 DEF QuietInv
<1>3. CASE RefreshedTo(acc') /\ Reread(acc')
  <2>1. \A u \in Ops : st[u] = "posting" => Holds(acc', u)
    BY <1>0, <1>3, HoldsFacts DEF PostsHold
  <2> QED
    BY <1>2, <1>3, <2>1 DEF RefreshedTo
<1>4. ASSUME NEW r, NEW n \in Nat \ {0}, FreeOn(r, n), Reread(acc'), Returned(acc', r, n)
      PROVE  QuietInv'
  <2>1. \A u \in Ops : st[u] = "posting" => Holds(acc', u)
    BY <1>0, <1>4, HoldsFacts, HeldNotFree DEF PostsHold, FreeOn
  <2>2. \A m : HandoutOf(acc', m) \in {HandoutOf(acc, m), NoHandout}
    BY <1>4 DEF FreeOn, RefreshedTo, Returned
  <2> QED
    BY <1>2, <1>4, <2>1, <2>2
<1>5. ASSUME NEW r, NEW n \in Nat \ {0}, FreeOn(r, n), Post(w, n, acc'),
             Leased(acc', r, n, r.next, now)
      PROVE  QuietInv'
  <2>1. r.next = acc.next /\ \A m : HandoutOf(r, m) \in {HandoutOf(acc, m), NoHandout}
    BY <1>5 DEF FreeOn, RefreshedTo
  <2>2. /\ HandoutOf(acc', n) = acc.next
        /\ \A m : m # n => HandoutOf(acc', m) \in {HandoutOf(acc, m), NoHandout}
        /\ n \in DOMAIN acc'.handed /\ acc'.handed[n] = now
    BY <1>5, <2>1 DEF Leased
  <2>3. /\ nonce' = [nonce EXCEPT ![w] = n] /\ hid' = [hid EXCEPT ![w] = acc.next]
        /\ st' = [st EXCEPT ![w] = "posting"]
        /\ now' = now /\ interrupted' = interrupted /\ open' = open
    BY <1>5, <2>2 DEF Post
  <2>4. /\ nonce'[w] = n /\ hid'[w] = acc.next
        /\ \A u \in Ops \ {w} : nonce'[u] = nonce[u] /\ hid'[u] = hid[u] /\ st'[u] = st[u]
    BY <1>0, <2>3 DEF TypeOK
  <2>5. OwnIds'
    BY <1>0, <1>1, <2>4 DEF OwnIds
  <2>6. Holds(acc, w)' /\ w \notin open
    <3>1. now - now < Lease
      BY <1>0, LeaseAssumption DEF TypeOK
    <3>2. acc.next # NoHandout
      BY <1>1 DEF NoHandout
    <3>3. w \notin open
      BY <1>0 DEF MayCall, OpenListed
    <3> QED
      BY <2>2, <2>3, <2>4, <3>1, <3>2, <3>3 DEF Holds
  <2>7. PostsHold'
    <3> SUFFICES ASSUME NEW u \in Ops \ {w}, st'[u] = "posting" PROVE Holds(acc, u)'
      BY <2>6 DEF PostsHold
    <3>1. Holds(acc, u)
      BY <1>0, <2>4 DEF PostsHold
    <3>2. Holds(acc', u)
      BY <1>0, <1>5, <3>1, HoldsFacts, HeldNotFree DEF FreeOn
    <3> QED
      BY <2>3, <2>4, <3>2 DEF Holds
  <2>8. OpenListed'
    <3> SUFFICES ASSUME NEW u \in open
                 PROVE  /\ st'[u] \in {"kept", "landed"}
                        /\ hid'[u] # NoHandout /\ HandoutOf(acc', nonce'[u]) = hid'[u] =>
                             nonce'[u] \in DOMAIN interrupted /\ interrupted[nonce'[u]] = u
      BY <2>3 DEF OpenListed
    <3>1. u \in Ops \ {w}
      BY <1>0, <2>6 DEF TypeOK
    <3> QED
      BY <1>0, <1>1, <2>2, <2>4, <3>1 DEF OpenListed
  <2> QED
    BY <2>5, <2>7, <2>8 DEF QuietInv
<1> QED
  BY <1>0, <1>3, <1>4, <1>5 DEF Called

\* An answer settles no nonce but that of its own write.
LEMMA QuietHandle ==
  ASSUME NodeInv, Quiet, QuietInv, NEW w \in Ops, Handle(w)
  PROVE  QuietInv'
<1>0. TypeOK /\ IsAccount(acc) /\ OwnIds /\ PostsHold /\ OpenListed
  BY DEF NodeInv, TypeOK, QuietInv
<1>1. st[w] = "posting" /\ UNCHANGED <<now, nonce, hid, interrupted, open>>
  BY DEF Handle
<1>2. \E s \in {"accepted", "kept", "failed"} : st' = [st EXCEPT ![w] = s]
  BY <1>0, HandleFacts DEF After
<1>3. st'[w] # "posting" /\ \A u \in Ops \ {w} : st'[u] = st[u]
  BY <1>0, <1>2 DEF TypeOK
<1>4. acc' = acc \/ \E o \in Outcomes : SettleLeaves(acc', acc, nonce[w], o, hid[w])
  BY <1>0, HandleFacts
<1>5. /\ \A n : HandoutOf(acc', n) \in {HandoutOf(acc, n), NoHandout}
      /\ \A n \in Nat : IsUsed(acc, n) => IsUsed(acc', n)
      /\ \A n : n # nonce[w] => /\ HandoutOf(acc', n) = HandoutOf(acc, n)
                                /\ n \in DOMAIN acc.handed => n \in DOMAIN acc'.handed
      /\ \A n \in DOMAIN acc'.handed : acc'.handed[n] = acc.handed[n]
  <2>1. ASSUME NEW o \in Outcomes, SettleLeaves(acc', acc, nonce[w], o, hid[w])
        PROVE  /\ \A n : HandoutOf(acc', n) \in {HandoutOf(acc, n), NoHandout}
               /\ \A n \in Nat : IsUsed(acc, n) => IsUsed(acc', n)
               /\ \A n : n # nonce[w] =>
                    /\ HandoutOf(acc', n) = HandoutOf(acc, n)
                    /\ n \in DOMAIN acc.handed => n \in DOMAIN acc'.handed
               /\ \A n \in DOMAIN acc'.handed : acc'.handed[n] = acc.handed[n]
    <3>1. /\ acc'.base = acc.base /\ acc.used \subseteq acc'.used
          /\ \A m \in DOMAIN acc.handed : m # nonce[w] => m \in DOMAIN acc'.handed
          /\ \A m \in DOMAIN acc'.handed : acc'.handed[m] = acc.handed[m]
          /\ DOMAIN acc'.handout \subseteq DOMAIN acc.handout
          /\ \A m \in DOMAIN acc.handout : m # nonce[w] => m \in DOMAIN acc'.handout
          /\ \A m \in DOMAIN acc'.handout : acc'.handout[m] = acc.handout[m]
      BY <2>1 DEF SettleLeaves
    <3> QED
      BY <3>1 DEF HandoutOf, IsUsed
  <2> QED
    BY <1>4, <2>1
<1>6. ASSUME NEW u \in Ops, st'[u] = "posting"
      PROVE  Holds(acc, u)'
  <2>1. u # w /\ Holds(acc, u) /\ Holds(acc, w) /\ nonce[u] \in Nat
    BY <1>0, <1>1, <1>3, <1>6 DEF PostsHold, TypeOK
  <2>2. CASE nonce[u] # nonce[w]
    BY <1>1, <1>5, <2>1, <2>2 DEF Holds
  <2>3. CASE nonce[u] = nonce[w]
    <3>1. HandoutOf(acc, nonce[u]) = NoHandout
      BY <1>0, <2>1, <2>3 DEF Holds, OwnIds
    <3>2. IsUsed(acc', nonce[u]) /\ HandoutOf(acc', nonce[u]) = NoHandout
      BY <1>5, <2>1, <3>1 DEF Holds
    <3> QED
      BY <1>1, <3>2 DEF Holds
  <2> QED
    BY <2>2, <2>3
<1>7. \A u \in open : st'[u] \in {"kept", "landed"}
  BY <1>0, <1>1, <1>3 DEF OpenListed, TypeOK
<1>8. OpenListed'
  BY <1>0, <1>1, <1>5, <1>7, ListedFrame
<1> QED
  BY <1>0, <1>1, <1>6, <1>8 DEF QuietInv, PostsHold, OwnIds

\* A resubmission takes no nonce from a write in flight, and takes only its own
\* write off the list.
LEMMA QuietResubmit ==
  ASSUME NodeInv, LedgerInv, Quiet, QuietInv, NEW w \in Ops, Resubmit(w)
  PROVE  QuietInv'
<1>0. TypeOK /\ BaseUsed /\ ~rpc /\ OwnIds /\ PostsHold /\ OpenListed
  BY DEF NodeInv, Quiet, QuietInv
<1>1. /\ acc.next \in Nat \ {0}
      /\ \A n : HandoutOf(acc, n) \in Nat /\ HandoutOf(acc, n) < acc.next
      /\ \A u \in Ops : hid[u] \in Nat /\ hid[u] < acc.next
  BY LedgerFacts DEF LedgerInv, IdsBelowNext
<1>2. PICK r : RefreshedTo(r) /\ Resubmitted(w, r)
  BY <1>0, ResubmitFacts
<1> DEFINE n == nonce[w]
<1>3. /\ st[w] = "kept" /\ nonce' = nonce /\ now' = now
      /\ interrupted' = Uninterrupted(w) /\ open' = open \ {w}
  BY DEF Resubmit
<1>4. r.next = acc.next /\ \A m : HandoutOf(r, m) \in {HandoutOf(acc, m), NoHandout}
  BY <1>2 DEF RefreshedTo
<1>5. hid \in [Ops -> Nat] /\ st \in [Ops -> States]
  BY <1>0 DEF TypeOK
<1>6. \/ acc' = r /\ (hid'[w] = HandoutOf(r, n) \/ st'[w] # "posting")
           /\ (hid'[w] = hid[w] \/ hid'[w] = NoHandout)
           /\ (st'[w] = "posting" => IsUsed(r, n))
      \/ /\ ~IsUsed(r, n) /\ HandoutOf(r, n) \in {NoHandout, hid[w]}
         /\ Leased(acc', r, n, hid'[w], now) /\ hid'[w] # NoHandout
         /\ hid'[w] \in {hid[w], acc.next}
  BY <1>1, <1>2, <1>3, <1>4, <1>5 DEF Resubmitted, Leased, NoHandout
<1>7. /\ \A u \in Ops \ {w} : hid'[u] = hid[u] /\ st'[u] = st[u]
      /\ st'[w] \in {"kept", "posting"}
  BY <1>2, <1>3, <1>5 DEF Resubmitted
<1>8. OwnIds'
  <2>1. hid'[w] \in {hid[w], acc.next, NoHandout}
    BY <1>6
  <2> QED
    BY <1>0, <1>1, <1>7, <2>1 DEF OwnIds
<1>9. ASSUME NEW u \in Ops, u # w, st'[u] = "posting"
      PROVE  Holds(acc, u)'
  <2>1. Holds(acc, u) /\ Holds(r, u)
    BY <1>0, <1>2, <1>7, <1>9, HoldsFacts DEF PostsHold
  <2>2. Holds(acc', u)
    <3>1. CASE acc' = r
      BY <2>1, <3>1
    <3>2. CASE ~IsUsed(r, n) /\ HandoutOf(r, n) \in {NoHandout, hid[w]}
                 /\ Leased(acc', r, n, hid'[w], now)
      <4>1. nonce[u] # n
        BY <1>0, <1>9, <2>1, <3>2 DEF Holds, OwnIds
      <4> QED
        BY <1>0, <1>2, <2>1, <3>2, <4>1, HoldsFacts
    <3> QED
      BY <1>6, <3>1, <3>2
  <2> QED
    BY <1>3, <1>7, <1>9, <2>2 DEF Holds
<1>10. ASSUME st'[w] = "posting"
       PROVE  Holds(acc, w)'
  <2>1. CASE acc' = r /\ hid'[w] = HandoutOf(r, n) /\ IsUsed(r, n)
    <3>1. HandoutOf(acc', n) = hid'[w] /\ IsUsed(acc', n)
      BY <2>1
    <3> QED
      BY <1>3, <3>1 DEF Holds
  <2>2. CASE Leased(acc', r, n, hid'[w], now) /\ hid'[w] # NoHandout
    <3>1. now - now < Lease
      BY <1>0, LeaseAssumption DEF TypeOK
    <3>2. n \in DOMAIN acc'.handed /\ acc'.handed[n] = now /\ HandoutOf(acc', n) = hid'[w]
      BY <2>2 DEF Leased
    <3> QED
      BY <1>3, <2>2, <3>1, <3>2 DEF Holds
  <2> QED
    BY <1>6, <1>10, <2>1, <2>2
<1>11. ASSUME NEW u \in open, u # w, hid[u] # NoHandout, HandoutOf(acc', nonce[u]) = hid[u]
       PROVE  nonce[u] \in DOMAIN interrupted' /\ interrupted'[nonce[u]] = u
  <2>1. u \in Ops
    BY <1>0 DEF TypeOK
  <2>2. HandoutOf(acc, nonce[u]) = hid[u]
    <3>1. CASE acc' = r
      BY <1>4, <1>11, <3>1
    <3>2. CASE Leased(acc', r, n, hid'[w], now) /\ hid'[w] \in {hid[w], acc.next}
      <4>1. nonce[u] # n
        BY <1>0, <1>1, <1>11, <2>1, <3>2 DEF Leased, OwnIds
      <4> QED
        BY <1>4, <1>11, <3>2, <4>1 DEF Leased
    <3> QED
      BY <1>6, <3>1, <3>2
  <2>3. nonce[u] \in DOMAIN interrupted /\ interrupted[nonce[u]] = u
    BY <1>0, <1>11, <2>2 DEF OpenListed
  <2> QED
    BY <1>3, <1>11, <2>3 DEF Uninterrupted, Pop, Restrict
<1>12. OpenListed'
  <2>1. \A u \in open' : u \in open /\ u # w /\ u \in Ops
    BY <1>0, <1>3 DEF TypeOK
  <2>2. \A u \in open' : st'[u] \in {"kept", "landed"} /\ hid'[u] = hid[u]
    BY <1>0, <1>7, <2>1 DEF OpenListed
  <2> QED
    BY <1>3, <1>11, <2>1, <2>2 DEF OpenListed
<1>13. PostsHold'
  BY <1>9, <1>10 DEF PostsHold
<1> QED
  BY <1>8, <1>12, <1>13 DEF QuietInv

\* A poll only refreshes the account.
LEMMA QuietWait ==
  ASSUME NodeInv, Quiet, QuietInv, NEW w \in Ops, WaitUntilLanded(w)
  PROVE  QuietInv'
<1>0. TypeOK /\ BaseUsed /\ ~rpc /\ OwnIds /\ PostsHold /\ OpenListed
  BY DEF NodeInv, Quiet, QuietInv
<1>1. /\ RefreshedTo(acc') /\ (st' = st \/ st' = [st EXCEPT ![w] = "landed"])
      /\ UNCHANGED <<now, nonce, hid, interrupted, open>>
  BY <1>0, WaitFacts DEF WaitUntilLanded
<1>2. ASSUME NEW u \in Ops, st'[u] = "posting" PROVE Holds(acc, u)'
  <2>1. st[u] = "posting"
    BY <1>0, <1>1, <1>2 DEF TypeOK
  <2>2. Holds(acc', u)
    BY <1>0, <1>1, <2>1, HoldsFacts DEF PostsHold
  <2> QED
    BY <1>1, <2>2 DEF Holds
<1>3. OpenListed'
  <2>1. \A u \in open : st'[u] \in {"kept", "landed"}
    BY <1>0, <1>1 DEF OpenListed, TypeOK
  <2> QED
    BY <1>0, <1>1, <2>1, ListedFrame DEF RefreshedTo
<1> QED
  BY <1>0, <1>1, <1>2, <1>3 DEF QuietInv, PostsHold, OwnIds

\* A cancelled write is listed, and takes the place of none still listed there.
LEMMA QuietCancel ==
  ASSUME NodeInv, Quiet, QuietInv, NEW w \in Ops, Cancel(w)
  PROVE  QuietInv'
<1>0. TypeOK /\ OwnIds /\ PostsHold /\ OpenListed
  BY DEF NodeInv, QuietInv
<1>1. /\ st[w] = "posting" /\ st' = [st EXCEPT ![w] = "kept"]
      /\ interrupted' = Put(interrupted, nonce[w], w)
      /\ open' = open \cup {w}
      /\ UNCHANGED <<acc, now, nonce, hid>>
  BY DEF Cancel
<1>2. Holds(acc, w) /\ st'[w] = "kept" /\ \A u \in Ops \ {w} : st'[u] = st[u]
  BY <1>0, <1>1 DEF PostsHold, TypeOK
<1>3. PostsHold' /\ OwnIds'
  BY <1>0, <1>1, <1>2 DEF PostsHold, OwnIds, Holds
<1>4. ASSUME NEW u \in open, u # w, hid[u] # NoHandout, HandoutOf(acc, nonce[u]) = hid[u]
      PROVE  nonce[u] \in DOMAIN interrupted' /\ interrupted'[nonce[u]] = u
  <2>1. nonce[u] # nonce[w]
    BY <1>0, <1>2, <1>4 DEF Holds, OwnIds, TypeOK
  <2> QED
    BY <1>0, <1>1, <1>4, <2>1 DEF OpenListed, Put
<1>5. OpenListed'
  <2> SUFFICES ASSUME NEW u \in open'
               PROVE  /\ st'[u] \in {"kept", "landed"}
                      /\ hid[u] # NoHandout /\ HandoutOf(acc, nonce[u]) = hid[u] =>
                           nonce[u] \in DOMAIN interrupted' /\ interrupted'[nonce[u]] = u
    BY <1>1 DEF OpenListed
  <2>1. CASE u = w
    BY <1>1, <1>2, <2>1 DEF Put
  <2>2. CASE u # w
    BY <1>0, <1>1, <1>2, <1>4, <2>2 DEF OpenListed, TypeOK
  <2> QED
    BY <2>1, <2>2
<1> QED
  BY <1>3, <1>5 DEF QuietInv

\* Every step keeps the invariant: only timely posts hold their lease when the
\* clock moves.
LEMMA QuietStep ==
  ASSUME NodeInv, LedgerInv, Quiet, QuietInv, [Next]_vars
  PROVE  QuietInv'
<1>0. TypeOK /\ OwnIds /\ PostsHold /\ OpenListed
  BY DEF NodeInv, QuietInv
<1>1. ASSUME UNCHANGED <<acc, now, nonce, hid, interrupted, open, st>>
      PROVE  QuietInv'
  BY <1>0, <1>1 DEF QuietInv, OwnIds, PostsHold, OpenListed, Holds
<1>2. CASE Tick
  <2>1. /\ \A w \in Ops : st[w] = "posting" => InLease(w)
        /\ now' = now + 1 /\ UNCHANGED <<acc, nonce, hid, interrupted, open, st>>
    BY <1>2 DEF Tick, Quiet
  <2>2. OwnIds' /\ OpenListed'
    BY <1>0, <2>1 DEF OwnIds, OpenListed
  <2>3. ASSUME NEW w \in Ops, st[w] = "posting" PROVE Holds(acc, w)'
    <3>1. Holds(acc, w) /\ InLease(w)
      BY <1>0, <2>1, <2>3 DEF PostsHold
    <3>2. /\ nonce' = nonce /\ hid' = hid /\ acc' = acc /\ now' = now + 1
      BY <2>1
    <3>3. /\ now \in Nat
          /\ \A n \in DOMAIN acc.handed : acc.handed[n] \in Nat
      BY <1>0 DEF TypeOK, IsAccount
    <3>4. nonce[w] \in DOMAIN acc.handed => now' - acc.handed[nonce[w]] < Lease
      BY <3>1, <3>2, <3>3, LeaseAssumption DEF InLease
    <3> QED
      BY <3>1, <3>2, <3>4 DEF Holds
  <2> QED
    BY <2>1, <2>2, <2>3 DEF QuietInv, PostsHold
<1>3. CASE \E w \in Ops : Answered(w) \/ NoAnswer(w)
  BY <1>1, <1>3 DEF Answered, NoAnswer
<1>4. CASE (NodeStep /\ UNCHANGED clientVars) \/ UNCHANGED vars
  BY <1>1, <1>4 DEF vars, clientVars
<1> QED
  BY <1>2, <1>3, <1>4, QuietCall, QuietHandle, QuietResubmit, QuietWait, QuietCancel, NextCases

\* What the client is configured with never changes.
LEMMA ConfigFixed == [Next]_vars => (Quiet' <=> Quiet)
<1>1. ASSUME [Next]_vars PROVE UNCHANGED config
  BY <1>1
     DEF Next, vars, clientVars, Submit, SubmitUnsigned, SubmitUnder, RegisterDid, Post, Reread,
         Answered, NoAnswer, Handle, Cancel, Resubmit, WaitUntilLanded, Tick
<1>2. UNCHANGED config => (Quiet' <=> Quiet)
  BY DEF config, Quiet, timely, rpc
<1> QED
  BY <1>1, <1>2

\* A cancelled write stays in interrupted_writes until it is resubmitted or its
\* nonce goes to another write, whatever the others do meanwhile.
THEOREM InterruptedAreKept == Spec => []InterruptedKept
<1>1. Init => (Quiet => QuietInv)
  BY DEF Init, QuietInv, OwnIds, PostsHold, OpenListed, NoHandout
<1>2. NodeInv /\ LedgerInv /\ (Quiet => QuietInv) /\ [Next]_vars => (Quiet => QuietInv)'
  BY QuietStep, ConfigFixed
<1>3. NodeInv /\ (Quiet => QuietInv) => InterruptedKept
  <2> SUFFICES ASSUME NodeInv, QuietInv, NEW w \in open,
                      StillItsNonce(w, acc), nonce[w] > acc.base - History
               PROVE  nonce[w] \in DOMAIN interrupted /\ interrupted[nonce[w]] = w
    BY DEF InterruptedKept, Quiet
  <2>1. acc.base \in Nat /\ nonce[w] \in Nat
    BY DEF NodeInv, TypeOK, IsAccount
  <2>2. ~(nonce[w] =< acc.base - History)
    BY <2>1, HistoryAssumption
  <2>3. HandoutOf(acc, nonce[w]) = hid[w] /\ hid[w] # NoHandout
    BY <2>2 DEF StillItsNonce, StillHandedTo
  <2> QED
    BY <2>3 DEF QuietInv, OpenListed
<1> QED
  BY <1>1, <1>2, <1>3, NodeInvariant, LedgerInvariant, PTL DEF Spec
=============================================================================
