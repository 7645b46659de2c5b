-------------------------- MODULE BroadcastProofs ---------------------------
(***************************************************************************)
(* What Broadcast keeps for every set of writes, every number of retries,  *)
(* every window, lease and history.                                        *)
(***************************************************************************)
EXTENDS Broadcast, NonceAccountProofs

Transactions == [op : Ops, nonce : Nat]

TypeOK ==
  /\ registrations \subseteq Ops
  /\ timely \in BOOLEAN
  /\ IsAccount(acc)
  /\ now \in Nat
  /\ st \in [Ops -> States]
  /\ nonce \in [Ops -> Nat]
  /\ hid \in [Ops -> Nat]
  /\ again \in [Ops -> BOOLEAN]
  /\ attempt \in [Ops -> Nat]
  /\ maybeSent \in [Ops -> BOOLEAN]
  /\ since \in [Ops -> Nat]
  /\ reply \in [Ops -> Replies]
  /\ mempool \subseteq Transactions
  /\ net \subseteq Transactions
  /\ landed \in Seq(Transactions)

-----------------------------------------------------------------------------
\* What _refresh makes of account a at time t with a base the node answered.
RefreshedFrom(q, a, t) ==
  /\ IsAccount(q) /\ q.next = a.next
  /\ \A n : HandoutOf(q, n) \in {HandoutOf(a, n), NoHandout}
  /\ \A n \in Nat : IsUsed(q, n) \/ HandoutOf(q, n) = HandoutOf(a, n)
  /\ \A n \in DOMAIN q.handed : n \in DOMAIN a.handed /\ q.handed[n] = a.handed[n]
  /\ \A n \in DOMAIN a.handed : t - a.handed[n] < Lease => IsUsed(q, n) \/ n \in DOMAIN q.handed
  /\ \A n \in Nat : IsUsed(a, n) => IsUsed(q, n)

\* A refresh does that.
LEMMA RefreshedFacts ==
  ASSUME NEW a, IsAccount(a), NEW b \in Nat, NEW t \in Nat
  PROVE  RefreshedFrom(Refresh(a, b, t, {}), a, t)
<1> DEFINE q == Refresh(a, b, t, {})
<1>1. RefreshLeaves(q, a, b, t, {})
  <2>1. b \in Int
    OBVIOUS
  <2>2. \A u : u \subseteq Nat => RefreshLeaves(Refresh(a, b, t, u), a, b, t, u)
    BY ONLY IsAccount(a), t \in Nat, <2>1, RefreshFacts
  <2> QED
    BY <2>2
<1> HIDE DEF q
<1>2. a.base \in Nat /\ q.base \in Nat /\ q.base >= a.base /\ \A n \in DOMAIN a.handed : n \in Nat
  BY <1>1 DEF RefreshLeaves, IsAccount, Larger
<1>3. /\ \A n : HandoutOf(q, n) \in {HandoutOf(a, n), NoHandout}
      /\ \A n \in Nat : IsUsed(q, n) \/ HandoutOf(q, n) = HandoutOf(a, n)
  BY <1>1, <1>2 DEF RefreshLeaves, HandoutOf, IsUsed
<1>4. /\ \A n \in DOMAIN q.handed : n \in DOMAIN a.handed /\ q.handed[n] = a.handed[n]
      /\ \A n \in DOMAIN a.handed :
           t - a.handed[n] < Lease => IsUsed(q, n) \/ n \in DOMAIN q.handed
  BY <1>1, <1>2 DEF RefreshLeaves, IsUsed
<1>5. \A n \in Nat : IsUsed(a, n) => IsUsed(q, n)
  BY <1>1, <1>2 DEF RefreshLeaves, IsUsed
<1>6. IsAccount(q) /\ q.next = a.next
  BY <1>1 DEF RefreshLeaves
<1> QED
  BY <1>3, <1>4, <1>5, <1>6 DEF RefreshedFrom, q

\* Leaving an account alone does so too.
LEMMA RefreshedSelf ==
  ASSUME NEW a, IsAccount(a), NEW t
  PROVE  RefreshedFrom(a, a, t)
BY DEF RefreshedFrom

\* An answer of the node's is a base.
LEMMA ReadsFacts ==
  ASSUME TypeOK, NEW r \in Reads
  PROVE  RefreshedFrom(r, acc, now)
<1>1. PICK k \in Answers : r = Refresh(acc, BaseAfter(k), now, {})
  BY DEF Reads
<1>2. k \in Nat
  BY DEF TypeOK, Answers
<1>3. \E b \in 0..k : 1..b \subseteq UsedAfter(k) /\ b + 1 \notin UsedAfter(k)
  BY <1>2, BaseExists DEF UsedAfter
<1>4. BaseAfter(k) \in Nat
  BY <1>2, <1>3 DEF BaseAfter
<1> QED
  BY <1>1, <1>4, RefreshedFacts DEF TypeOK

\* A broadcast begins on the account refreshed once more.
LEMMA BeginFacts ==
  ASSUME TypeOK, NEW w, NEW n, NEW a, IsAccount(a), NEW b, Begin(w, n, a, b)
  PROVE  RefreshedFrom(acc', a, now)
<1>1. acc' = Refresh(a, a.base, now, {}) /\ a.base \in Nat /\ now \in Nat
  BY DEF Begin, IsAccount, TypeOK
<1> QED
  BY <1>1, RefreshedFacts

-----------------------------------------------------------------------------
\* A call begins a broadcast under a nonce free on the account it read, or
\* gives the nonce back when signing fails, or sends nothing; or is a
\* RegisterDid, which does so with nonce 1 whether free or not.
FreeOn(r, n) == RefreshedFrom(r, acc, now) /\ ~IsUsed(r, n) /\ n \notin DOMAIN r.handed

Called(w) ==
  \/ RefreshedFrom(acc', acc, now) /\ Reread(acc')
  \/ \E r : \E n \in Nat :
       /\ FreeOn(r, n)
       /\ \/ Reread(acc') /\ Returned(acc', r, n) /\ acc'.next = r.next + 1
          \/ \E a : /\ Leased(a, r, n, r.next, now) /\ a.next = r.next + 1
                    /\ Begin(w, n, a, FALSE)
  \/ /\ w \in registrations
     /\ \/ \E a : /\ Begin(w, 1, a, FALSE)
                  /\ \/ a = acc
                     \/ Leased(a, acc, 1, acc.next, now) /\ a.next = acc.next + 1
        \/ Reread(acc') /\ Returned(acc', acc, 1) /\ acc'.next >= acc.next

\* Each way to call a write is one of these.
LEMMA CallsFacts ==
  ASSUME TypeOK, NEW w \in Ops, SignAndBroadcast(w) \/ RegisterDid(w)
  PROVE  Called(w)
<1>1. CASE SignAndBroadcast(w)
  <2>1. PICK r \in Reads :
          IF FreeNonces(r) = {} THEN Reread(r)
          ELSE \E n \in FreeNonces(r) :
                 \/ Begin(w, n, HandOut(r, n, now), FALSE)
                 \/ Reread(Settle(HandOut(r, n, now), n, Free, NoHandout))
    BY <1>1 DEF SignAndBroadcast
  <2>2. RefreshedFrom(r, acc, now) /\ IsAccount(r) /\ now \in Nat
    BY ReadsFacts DEF RefreshedFrom, TypeOK
  <2>3. CASE Reread(r)
    BY <2>2, <2>3 DEF Called, Reread
  <2>4. ASSUME NEW n \in FreeNonces(r)
        PROVE  n \in Nat /\ FreeOn(r, n)
    BY <2>2, <2>4, WindowAssumption DEF FreeNonces, FreeOn, IsUsed, IsAccount
  <2>5. ASSUME NEW n \in FreeNonces(r), Begin(w, n, HandOut(r, n, now), FALSE)
        PROVE  Called(w)
    <3>1. Leased(HandOut(r, n, now), r, n, r.next, now) /\ HandOut(r, n, now).next = r.next + 1
      BY <2>2, <2>4, HandOutLeases
    <3> QED
      BY <2>4, <2>5, <3>1 DEF Called
  <2>6. ASSUME NEW n \in FreeNonces(r), Reread(Settle(HandOut(r, n, now), n, Free, NoHandout))
        PROVE  Called(w)
    <3>1. /\ acc' = Settle(HandOut(r, n, now), n, Free, NoHandout) /\ n \in Nat
          /\ Reread(acc')
      BY <2>4, <2>6 DEF Reread
    <3>2. Returned(acc', r, n) /\ acc'.next = r.next + 1
      BY <2>2, <3>1, UnsignedReturns
    <3> QED
      BY <2>4, <3>1, <3>2 DEF Called
  <2> QED
    BY <2>1, <2>3, <2>5, <2>6
<1>2. CASE RegisterDid(w)
  <2>1. acc.base \in Nat /\ IsAccount(acc) /\ now \in Nat
    BY DEF TypeOK, IsAccount
  <2>2. /\ w \in registrations
        /\ \/ Begin(w, 1, HoldNonce(acc, 1, now), FALSE)
           \/ Reread(Settle(HoldNonce(acc, 1, now), 1, Free, NoHandout))
    BY <1>2 DEF RegisterDid
  <2>3. Leased(HandOut(acc, 1, now), acc, 1, acc.next, now)
          /\ HandOut(acc, 1, now).next = acc.next + 1
    BY <2>1, HandOutLeases
  <2>4. HoldNonce(acc, 1, now) = acc \/ HoldNonce(acc, 1, now) = HandOut(acc, 1, now)
    BY DEF HoldNonce
  <2>5. CASE Reread(Settle(HoldNonce(acc, 1, now), 1, Free, NoHandout))
    <3>1. acc' = Settle(HoldNonce(acc, 1, now), 1, Free, NoHandout) /\ Reread(acc')
      BY <2>5 DEF Reread
    <3>2. Returned(acc', acc, 1) /\ acc'.next >= acc.next
      <4>1. acc.next \in Nat
        BY <2>1 DEF IsAccount
      <4>2. LET a == Settle(acc, 1, Free, NoHandout) IN Returned(a, acc, 1) /\ a.next = acc.next
        BY <2>1, ReleasedReturns
      <4>3. LET a == Settle(HandOut(acc, 1, now), 1, Free, NoHandout)
            IN Returned(a, acc, 1) /\ a.next = acc.next + 1
        BY <2>1, UnsignedReturns
      <4> QED
        BY <2>4, <3>1, <4>1, <4>2, <4>3
    <3> QED
      BY <2>2, <3>1, <3>2 DEF Called
  <2> QED
    BY <2>2, <2>3, <2>4, <2>5 DEF Called
<1> QED
  BY <1>1, <1>2

\* What a reclaimed nonce leaves of the account, when it did not go to another
\* write.
Relet(b, a, n, h) ==
  \/ IsUsed(a, n) /\ b = a
  \/ ~IsUsed(a, n) /\ h # NoHandout /\ Leased(b, a, n, h, now) /\ b.next = a.next
  \/ ~IsUsed(a, n) /\ h = NoHandout /\ Leased(b, a, n, a.next, now) /\ b.next = a.next + 1

\* A reclaim does that.
LEMMA ReletFacts ==
  ASSUME TypeOK, NEW a, IsAccount(a), NEW n, n \in Nat, NEW h, h \in Nat, ReclaimGranted(a, n, h)
  PROVE  Relet(Reclaimed(a, n, h, now), a, n, h)
<1> DEFINE b == Reclaimed(a, n, h, now)
<1>1. now \in Nat
  BY DEF TypeOK
<1>2. /\ IsUsed(a, n) => b = a
      /\ ReclaimGranted(a, n, h) /\ ~IsUsed(a, n) /\ h # NoHandout =>
           Leased(b, a, n, h, now) /\ b.next = a.next
      /\ ReclaimGranted(a, n, h) /\ ~IsUsed(a, n) /\ h = NoHandout =>
           Leased(b, a, n, a.next, now) /\ b.next = a.next + 1
  BY <1>1, ReclaimLeases
<1> QED
  BY <1>2 DEF Relet

\* A resubmission begins a broadcast under the same nonce, unless that went to
\* another write.
Resubmitted(w, a) ==
  \/ /\ acc' = a
     /\ UNCHANGED <<config, now, st, nonce, hid, again, attempt, maybeSent, since, reply,
                    nodeVars>>
  \/ \E b : /\ HandoutOf(a, nonce[w]) \in {NoHandout, hid[w]}
            /\ Relet(b, a, nonce[w], hid[w])
            /\ Begin(w, nonce[w], b, TRUE)

\* Each does one of these.
LEMMA ResubmitFacts ==
  ASSUME TypeOK, NEW w \in Ops, Resubmit(w)
  PROVE  st[w] = "kept" /\ \E a : RefreshedFrom(a, acc, now) /\ Resubmitted(w, a)
<1>1. PICK a : a = Refresh(acc, acc.base, now, {})
  OBVIOUS
<1>2. PICK b : b = Reclaimed(a, nonce[w], hid[w], now)
  OBVIOUS
<1>3. RefreshedFrom(a, acc, now) /\ IsAccount(a)
  <2>1. IsAccount(acc) /\ acc.base \in Nat /\ now \in Nat
    BY DEF TypeOK, IsAccount
  <2>2. RefreshedFrom(a, acc, now)
    BY <1>1, <2>1, RefreshedFacts
  <2> QED
    BY <2>2 DEF RefreshedFrom
<1>4. /\ st[w] = "kept"
      /\ ReclaimGranted(a, nonce[w], hid[w]) => Begin(w, nonce[w], b, TRUE)
      /\ ~ReclaimGranted(a, nonce[w], hid[w]) =>
           /\ acc' = a
           /\ UNCHANGED <<config, now, st, nonce, hid, again, attempt, maybeSent, since,
                          reply, nodeVars>>
  BY <1>1, <1>2 DEF Resubmit, Begin
<1>5. ReclaimGranted(a, nonce[w], hid[w]) => Relet(b, a, nonce[w], hid[w])
  BY <1>2, <1>3, ReletFacts DEF TypeOK
<1>6. Resubmitted(w, a)
  BY <1>4, <1>5 DEF Resubmitted, ReclaimGranted, Begin
<1> QED
  BY <1>3, <1>4, <1>6

-----------------------------------------------------------------------------
\* Not called yet, or with an error that carries no transaction, or broadcast
\* for the first time with no attempt that may have reached the node.
Unsent(w) ==
  \/ st[w] \in {"idle", "failed"}
  \/ /\ st[w] = "posting" /\ ~again[w] /\ ~maybeSent[w]
     /\ reply[w] \in {"none", "refused", "held", "never"}

\* What reading an answer, or giving up, leaves: the broadcast ended in s, its
\* error or result carries h, and the account is a, or a with the nonce
\* settled.
EndsWith(w, s, h, a) ==
  /\ Ends(w, s) /\ hid' = [hid EXCEPT ![w] = h]
  /\ h \in {NoHandout, hid[w], HandoutOf(acc', nonce[w])}
  /\ s \in {"accepted", "kept", "used", "failed"}
  /\ s = "failed" => Unsent(w)
  /\ acc' = a \/ \E o \in Outcomes : SettleLeaves(acc', a, nonce[w], o, hid[w])

\* The client reads an answer.
LEMMA HandleFacts ==
  ASSUME TypeOK, NEW w \in Ops, Handle(w)
  PROVE  \E s : \E h : EndsWith(w, s, h, acc)
<1> DEFINE o == OutcomeOf(reply[w], maybeSent[w] \/ again[w])
           left == Settle(acc, nonce[w], o, hid[w])
<1>1. /\ st[w] = "posting" /\ reply[w] \notin {"none", "never", "lost"}
      /\ acc' = IF reply[w] = "ok" THEN acc ELSE left
      /\ \/ reply[w] = "ok" /\ Told(w, "accepted")
         \/ o = Used /\ Told(w, "used")
         \/ o = Used /\ acc' = left /\ Kept(w, HandoutOf(left, nonce[w]))
         \/ o \in {Used, Unknown} /\ Kept(w, hid[w])
         \/ reply[w] # "ok" /\ o \notin {Used, Unknown} /\ Told(w, "failed")
  BY DEF Handle, Told, Kept
<1>2. o \in Outcomes
  BY DEF OutcomeOf, Outcomes
<1>3. SettleLeaves(left, acc, nonce[w], o, hid[w])
  <2>1. IsAccount(acc) /\ nonce[w] \in Nat /\ hid[w] \in Nat
    BY DEF TypeOK
  <2> QED
    BY <1>2, <2>1, SettleFacts
<1>4. reply[w] # "ok" /\ o \notin {Used, Unknown} => Unsent(w)
  <2> SUFFICES ASSUME reply[w] # "ok", o \notin {Used, Unknown} PROVE Unsent(w)
    OBVIOUS
  <2>1. reply[w] \in {"refused", "held", "used", "gateway"} /\ st[w] = "posting"
    <3>1. reply[w] \in Replies
      BY DEF TypeOK
    <3>2. reply[w] \notin {"none", "never", "lost"} /\ st[w] = "posting"
      BY <1>1
    <3> QED
      BY <3>1, <3>2 DEF Replies
  <2>2. ~(maybeSent[w] \/ again[w])
    BY DEF OutcomeOf
  <2>3. reply[w] # "used" /\ reply[w] # "gateway"
    BY DEF OutcomeOf
  <2> HIDE DEF o, left
  <2> QED
    BY <2>1, <2>2, <2>3 DEF Unsent
<1> HIDE DEF o, left
<1>5. acc' = acc \/ \E oo \in Outcomes : SettleLeaves(acc', acc, nonce[w], oo, hid[w])
  BY <1>1, <1>2, <1>3
<1>6. CASE Told(w, "accepted") \/ Told(w, "used")
  <2>1. EndsWith(w, "accepted", NoHandout, acc) \/ EndsWith(w, "used", NoHandout, acc)
    BY <1>5, <1>6 DEF EndsWith, Told
  <2> QED
    BY <2>1
<1>7. CASE Kept(w, HandoutOf(left, nonce[w])) /\ acc' = left
  <2>1. PICK h : h = HandoutOf(acc', nonce[w])
    OBVIOUS
  <2>2. EndsWith(w, "kept", h, acc)
    BY <1>5, <1>7, <2>1 DEF EndsWith, Kept
  <2> QED
    BY <2>2
<1>8. CASE Kept(w, hid[w])
  <2>1. PICK h : h = hid[w]
    OBVIOUS
  <2>2. EndsWith(w, "kept", h, acc)
    BY <1>5, <1>8, <2>1 DEF EndsWith, Kept
  <2> QED
    BY <2>2
<1>9. CASE reply[w] # "ok" /\ o \notin {Used, Unknown} /\ Told(w, "failed")
  <2>1. EndsWith(w, "failed", NoHandout, acc)
    BY <1>4, <1>5, <1>9 DEF EndsWith, Told
  <2> QED
    BY <2>1
<1> QED
  BY <1>1, <1>6, <1>7, <1>8, <1>9

\* An attempt failed in transit: the nonce is leased anew, or the broadcast
\* ends.
Renews(w, a) ==
  /\ HandoutOf(a, nonce[w]) \in {NoHandout, hid[w]}
  /\ Relet(acc', a, nonce[w], hid[w])
  /\ maybeSent' = [maybeSent EXCEPT ![w] = MaybeSent(w)]
  /\ since' = [since EXCEPT ![w] = now]
  /\ reply' = [reply EXCEPT ![w] = "none"]
  /\ attempt' = [attempt EXCEPT ![w] = @ + 1]
  /\ UNCHANGED <<st, hid, again>>

\* Either way the client has read how an attempt of w ended.
Attempted(w) ==
  /\ st[w] = "posting" /\ UNCHANGED <<config, now, nonce, interrupted, nodeVars>>
  /\ \E a : /\ RefreshedFrom(a, acc, now)
           /\ \/ reply[w] \in {"never", "lost"} /\ Renews(w, a)
              \/ \E s : \E h : EndsWith(w, s, h, a)

\* Giving up gives the nonce back when nothing can have left.
LEMMA GivesUpFacts ==
  ASSUME TypeOK, NEW w \in Ops, st[w] = "posting", reply[w] \in {"never", "lost"},
         NEW a, IsAccount(a), GivesUp(w, a)
  PROVE  \E s : \E h : EndsWith(w, s, h, a)
<1>1. CASE MaybeSent(w) \/ again[w]
  <2>1. EndsWith(w, "kept", hid[w], a)
    BY <1>1 DEF GivesUp, Kept, EndsWith
  <2> QED
    BY <2>1
<1>2. CASE ~(MaybeSent(w) \/ again[w])
  <2>1. acc' = Settle(a, nonce[w], Free, hid[w]) /\ Told(w, "failed")
    BY <1>2 DEF GivesUp
  <2>2. nonce[w] \in Nat /\ hid[w] \in Nat /\ Free \in Outcomes
    BY DEF TypeOK, Outcomes
  <2>3. SettleLeaves(acc', a, nonce[w], Free, hid[w])
    BY <2>1, <2>2, SettleFacts
  <2>4. Unsent(w)
    BY <1>2 DEF MaybeSent, Unsent
  <2>5. EndsWith(w, "failed", NoHandout, a)
    BY <2>1, <2>2, <2>3, <2>4 DEF EndsWith, Told
  <2> QED
    BY <2>5
<1> QED
  BY <1>1, <1>2

\* A retry does one or the other, on the account refreshed.
LEMMA RetryFacts ==
  ASSUME TypeOK, NEW w \in Ops, Retry(w)
  PROVE  Attempted(w)
<1>1. PICK a : a = Refresh(acc, acc.base, now, {})
  OBVIOUS
<1>2. IsAccount(acc) /\ acc.base \in Nat /\ now \in Nat
  BY DEF TypeOK, IsAccount
<1>3. RefreshedFrom(a, acc, now) /\ RefreshedFrom(acc, acc, now)
  BY <1>1, <1>2, RefreshedFacts, RefreshedSelf
<1>4. IsAccount(a)
  BY <1>3 DEF RefreshedFrom
<1>5. /\ st[w] = "posting" /\ reply[w] \in {"never", "lost"}
      /\ UNCHANGED <<config, now, nonce, interrupted, nodeVars>>
      /\ \/ GivesUp(w, acc)
         \/ GivesUp(w, a)
         \/ /\ ReclaimGranted(a, nonce[w], hid[w])
            /\ acc' = Reclaimed(a, nonce[w], hid[w], now)
            /\ maybeSent' = [maybeSent EXCEPT ![w] = MaybeSent(w)]
            /\ since' = [since EXCEPT ![w] = now]
            /\ reply' = [reply EXCEPT ![w] = "none"]
            /\ attempt' = [attempt EXCEPT ![w] = @ + 1]
            /\ UNCHANGED <<st, hid, again>>
  BY <1>1 DEF Retry, Renewed
<1>6. CASE GivesUp(w, acc)
  <2>1. \E s : \E h : EndsWith(w, s, h, acc)
    BY <1>2, <1>5, <1>6, GivesUpFacts
  <2> QED
    BY <1>3, <1>5, <2>1 DEF Attempted
<1>7. CASE GivesUp(w, a)
  <2>1. \E s : \E h : EndsWith(w, s, h, a)
    BY <1>4, <1>5, <1>7, GivesUpFacts
  <2> QED
    BY <1>3, <1>5, <2>1 DEF Attempted
<1>8. CASE /\ ReclaimGranted(a, nonce[w], hid[w])
           /\ acc' = Reclaimed(a, nonce[w], hid[w], now)
           /\ maybeSent' = [maybeSent EXCEPT ![w] = MaybeSent(w)]
           /\ since' = [since EXCEPT ![w] = now]
           /\ reply' = [reply EXCEPT ![w] = "none"]
           /\ attempt' = [attempt EXCEPT ![w] = @ + 1]
           /\ UNCHANGED <<st, hid, again>>
  <2>1. Relet(Reclaimed(a, nonce[w], hid[w], now), a, nonce[w], hid[w])
    BY <1>4, <1>8, ReletFacts DEF TypeOK
  <2>2. Renews(w, a)
    BY <1>8, <2>1 DEF Renews, ReclaimGranted
  <2> QED
    BY <1>3, <1>5, <2>2 DEF Attempted
<1> QED
  BY <1>5, <1>6, <1>7, <1>8

-----------------------------------------------------------------------------
Copies == mempool \cup net \cup Landed
NoCopy(w) == \A t \in Copies : t.op # w

\* Every copy of a write that exists anywhere is of the one transaction it is
\* signed as: a write is signed anew only when no copy of it is left.
CopiesAreSigned == \A t \in Copies : t = TxOf(t.op)

\* Such a write has no copy anywhere.
NoneLeft == \A w \in Ops : Unsent(w) => NoCopy(w)

\* The nonces of what the mempool holds are unused, and each is of one
\* transaction.
MempoolInv ==
  \A t \in mempool :
    ~NonceUsed(t.nonce) /\ \A u \in mempool : u.nonce = t.nonce => u = t

CopiesInv == CopiesAreSigned /\ NoneLeft /\ MempoolInv
NodeInv == TypeOK /\ CopiesInv

\* Every copy is a transaction, and one that landed has its place in a block.
LEMMA CopiesType ==
  ASSUME TypeOK
  PROVE  /\ Copies \subseteq Transactions
         /\ Landed = {landed[i] : i \in 1..Len(landed)}
         /\ \A n : NonceUsed(n) <=> \E t \in Landed : t.nonce = n
<1>0. DOMAIN landed = 1..Len(landed)
  BY DEF TypeOK
<1>1. Landed = {landed[i] : i \in 1..Len(landed)}
  BY <1>0, Zenon DEF Landed, ToSet
<1>2. Landed \subseteq Transactions
  BY <1>1 DEF TypeOK
<1>3. \A n : NonceUsed(n) <=> \E t \in Landed : t.nonce = n
  BY <1>1 DEF NonceUsed, UsedAfter
<1> QED
  BY <1>1, <1>2, <1>3 DEF Copies, TypeOK

\* Nothing has happened yet.
LEMMA InitNodeInv == Init => NodeInv
<1> SUFFICES ASSUME Init PROVE NodeInv
  OBVIOUS
<1>1. IsAccount(acc)
  BY DEF Init, NewAccount, IsAccount, NoBase
<1>2. registrations \subseteq Ops /\ timely \in BOOLEAN
  BY TimelyAssumption DEF Init
<1>3. mempool = {} /\ net = {} /\ landed = << >> /\ Landed = {}
  BY DEF Init, NodeInit, Landed, ToSet
<1>4. TypeOK
  BY <1>1, <1>2, <1>3
     DEF Init, TypeOK, States, Replies, NoHandout
<1>5. Copies = {}
  BY <1>3 DEF Copies
<1> QED
  BY <1>3, <1>4, <1>5
     DEF NodeInv, CopiesInv, CopiesAreSigned, NoneLeft, NoCopy, MempoolInv

\* A step of the client that leaves the node alone keeps the invariant when it
\* signs anew only writes of which no copy is left.
LEMMA ClientStep ==
  ASSUME NodeInv, TypeOK', UNCHANGED nodeVars,
         \A w \in Ops : Unsent(w) \/ (nonce'[w] = nonce[w] /\ ~Unsent(w)')
  PROVE  NodeInv'
<1>1. Copies' = Copies /\ (\A n : NonceUsed(n)' <=> NonceUsed(n)) /\ mempool' = mempool
  BY DEF nodeVars, Copies, Landed, NonceUsed, UsedAfter
<1>2. MempoolInv'
  BY <1>1 DEF NodeInv, CopiesInv, MempoolInv
<1>3. \A w \in Ops : Unsent(w) => NoCopy(w)
  BY DEF NodeInv, CopiesInv, NoneLeft
<1>4. \A w \in Ops : NoCopy(w)' <=> NoCopy(w)
  BY <1>1 DEF NoCopy
<1>5. NoneLeft'
  BY <1>3, <1>4 DEF NoneLeft
<1>6. CopiesAreSigned'
  <2> SUFFICES ASSUME NEW t \in Copies PROVE t = TxOf(t.op)'
    BY <1>1 DEF CopiesAreSigned
  <2>1. t = TxOf(t.op) /\ t \in Transactions
    BY CopiesType DEF NodeInv, CopiesInv, CopiesAreSigned
  <2>2. t.op \in Ops /\ ~NoCopy(t.op)
    BY <2>1 DEF Transactions, NoCopy
  <2>3. nonce'[t.op] = nonce[t.op]
    BY <1>3, <2>2
  <2> QED
    BY <2>1, <2>3 DEF TxOf
<1> QED
  BY <1>2, <1>5, <1>6 DEF NodeInv, CopiesInv

\* A step of the node, or of an attempt meeting it, keeps the invariant when it
\* copies only what was sent.
LEMMA NodeKeeps ==
  ASSUME NodeInv, TypeOK', UNCHANGED nonce, MempoolInv',
         \A t \in Copies' : t \in Copies \/ \E w \in Ops : t = TxOf(w) /\ ~Unsent(w)',
         \A w \in Ops : Unsent(w)' => Unsent(w)
  PROVE  NodeInv'
<1>1. \A w : TxOf(w)' = TxOf(w) /\ TxOf(w).op = w
  BY DEF TxOf, Tx
<1>2. CopiesAreSigned'
  BY <1>1 DEF NodeInv, CopiesInv, CopiesAreSigned
<1>3. NoneLeft'
  BY <1>1 DEF NodeInv, CopiesInv, NoneLeft, NoCopy
<1> QED
  BY <1>2, <1>3 DEF NodeInv, CopiesInv

-----------------------------------------------------------------------------
\* A broadcast that begins signs w under n, and leaves every other write alone.
LEMMA BeginKeeps ==
  ASSUME TypeOK, NEW w \in Ops, NEW n \in Nat, NEW a, IsAccount(a), NEW b \in BOOLEAN,
         Begin(w, n, a, b)
  PROVE  TypeOK'
<1>1. IsAccount(acc')
  BY BeginFacts DEF RefreshedFrom
<1>2. HandoutOf(a, n) \in Nat
  BY DEF HandoutOf, NoHandout, IsAccount
<1> QED
  BY <1>1, <1>2 DEF TypeOK, Begin, config, nodeVars, States, Replies

\* What a reclaimed nonce is leased on is an account again.
LEMMA ReletAccount ==
  ASSUME NEW a, IsAccount(a), NEW b, NEW n, NEW h, Relet(b, a, n, h)
  PROVE  IsAccount(b)
BY DEF Relet, Leased

\* Every call of a write keeps the invariant.
LEMMA CallKeeps ==
  ASSUME NodeInv, NEW w \in Ops, MayCall(w), Called(w)
  PROVE  NodeInv'
<1>0. TypeOK /\ IsAccount(acc) /\ Unsent(w)
  BY DEF NodeInv, TypeOK, MayCall, Unsent
<1>1. ASSUME Reread(acc'), IsAccount(acc') PROVE NodeInv'
  <2>1. TypeOK'
    BY <1>0, <1>1 DEF TypeOK, Reread, config, nodeVars
  <2> QED
    BY <1>0, <1>1, <2>1, ClientStep DEF Reread, Unsent
<1>2. ASSUME NEW n \in Nat, NEW a, IsAccount(a), Begin(w, n, a, FALSE) PROVE NodeInv'
  <2>1. TypeOK'
    BY <1>0, <1>2, BeginKeeps
  <2>2. \A u \in Ops : Unsent(u) \/ (nonce'[u] = nonce[u] /\ ~Unsent(u)')
    BY <1>0, <1>2 DEF TypeOK, Begin, Unsent
  <2> QED
    BY <1>2, <2>1, <2>2, ClientStep DEF Begin
<1>3. CASE RefreshedFrom(acc', acc, now) /\ Reread(acc')
  BY <1>1, <1>3 DEF RefreshedFrom
<1>4. ASSUME NEW r, NEW n \in Nat,
             \/ Reread(acc') /\ Returned(acc', r, n)
             \/ \E a : Leased(a, r, n, r.next, now) /\ Begin(w, n, a, FALSE)
      PROVE  NodeInv'
  BY <1>1, <1>2, <1>4 DEF Returned, Leased
<1>5. ASSUME NEW a, Begin(w, 1, a, FALSE), a = acc \/ Leased(a, acc, 1, acc.next, now)
      PROVE  NodeInv'
  BY <1>0, <1>2, <1>5 DEF Leased
<1>6. CASE Reread(acc') /\ Returned(acc', acc, 1)
  BY <1>1, <1>6 DEF Returned
<1> QED
  BY <1>3, <1>4, <1>5, <1>6 DEF Called

\* So does the end of a broadcast.
LEMMA EndKeeps ==
  ASSUME NodeInv, NEW w \in Ops, st[w] = "posting", NEW a, IsAccount(a), NEW s, NEW h,
         EndsWith(w, s, h, a), UNCHANGED <<config, now, nonce, nodeVars>>
  PROVE  NodeInv'
<1>0. TypeOK
  BY DEF NodeInv
<1>1. IsAccount(acc')
  BY DEF EndsWith, SettleLeaves
<1>2. h \in Nat
  BY <1>0, <1>1 DEF EndsWith, TypeOK, HandoutOf, NoHandout, IsAccount
<1>3. TypeOK'
  BY <1>0, <1>1, <1>2 DEF TypeOK, EndsWith, Ends, config, nodeVars, States, Replies
<1>4. \A u \in Ops : Unsent(u) \/ (nonce'[u] = nonce[u] /\ ~Unsent(u)')
  BY <1>0 DEF TypeOK, EndsWith, Ends, Unsent
<1> QED
  BY <1>3, <1>4, ClientStep

\* And an attempt made again.
LEMMA RenewKeeps ==
  ASSUME NodeInv, NEW w \in Ops, st[w] = "posting", reply[w] \in {"never", "lost"},
         NEW a, IsAccount(a), Renews(w, a), UNCHANGED <<config, now, nonce, nodeVars>>
  PROVE  NodeInv'
<1>0. TypeOK
  BY DEF NodeInv
<1>1. IsAccount(acc')
  BY ReletAccount DEF Renews
<1>2. MaybeSent(w) \in BOOLEAN
  BY DEF MaybeSent
<1>3. TypeOK'
  BY <1>0, <1>1, <1>2 DEF TypeOK, Renews, config, nodeVars, Replies
<1>4. \A u \in Ops : Unsent(u) \/ (nonce'[u] = nonce[u] /\ ~Unsent(u)')
  <2>1. MaybeSent(w) <=> maybeSent[w] \/ reply[w] = "lost"
    BY DEF MaybeSent
  <2> QED
    BY <1>0, <2>1 DEF TypeOK, Renews, Unsent
<1> QED
  BY <1>3, <1>4, ClientStep

\* And a resubmission.
LEMMA ResubmitKeeps ==
  ASSUME NodeInv, NEW w \in Ops, Resubmit(w)
  PROVE  NodeInv'
<1>0. TypeOK
  BY DEF NodeInv
<1>1. PICK a : RefreshedFrom(a, acc, now) /\ Resubmitted(w, a)
  BY <1>0, ResubmitFacts
<1>2. st[w] = "kept" /\ IsAccount(a) /\ nonce[w] \in Nat
  BY <1>0, <1>1, ResubmitFacts DEF RefreshedFrom, TypeOK
<1>3. CASE acc' = a /\ UNCHANGED <<config, now, st, nonce, hid, again, attempt, maybeSent, since,
                                   reply, nodeVars>>
  <2>1. TypeOK'
    BY <1>0, <1>2, <1>3 DEF TypeOK, config, nodeVars
  <2> QED
    BY <1>3, <2>1, ClientStep DEF Unsent
<1>4. ASSUME NEW b, Relet(b, a, nonce[w], hid[w]), Begin(w, nonce[w], b, TRUE)
      PROVE  NodeInv'
  <2>1. TypeOK'
    BY <1>0, <1>2, <1>4, ReletAccount, BeginKeeps
  <2>2. \A u \in Ops : Unsent(u) \/ (nonce'[u] = nonce[u] /\ ~Unsent(u)')
    BY <1>0, <1>2, <1>4 DEF TypeOK, Begin, Unsent
  <2> QED
    BY <1>4, <2>1, <2>2, ClientStep DEF Begin
<1> QED
  BY <1>1, <1>3, <1>4 DEF Resubmitted

\* And the clock.
LEMMA TickKeeps ==
  ASSUME NodeInv, Tick
  PROVE  NodeInv'
<1>1. TypeOK'
  BY DEF NodeInv, TypeOK, Tick, config, nodeVars
<1> QED
  BY <1>1, ClientStep DEF Tick, Unsent

-----------------------------------------------------------------------------
\* The node admits a transaction only under a nonce that is unused and that the
\* mempool holds no other transaction of.
LEMMA AdmittedKeeps ==
  ASSUME MempoolInv, NEW t, NEW answer \in CheckTx(t),
         mempool' = Admitted(t, answer), landed' = landed
  PROVE  MempoolInv'
<1>1. \A n : NonceUsed(n)' <=> NonceUsed(n)
  BY DEF NonceUsed, UsedAfter
<1>2. CASE mempool' = mempool
  BY <1>1, <1>2 DEF MempoolInv
<1>3. CASE mempool' # mempool
  <2>1. answer = "ok" /\ t \notin Landed /\ mempool' = mempool \cup {t} /\ t \notin mempool
    BY <1>3 DEF Admitted
  <2>2. ~NonceUsed(t.nonce) /\ ~HeldByOther(t)
    BY <2>1 DEF CheckTx
  <2> QED
    BY <1>1, <2>1, <2>2 DEF MempoolInv, HeldByOther
<1> QED
  BY <1>2, <1>3

\* A request meets the node.
LEMMA AnsweredKeeps ==
  ASSUME NodeInv, NEW w \in Ops, Answered(w)
  PROVE  NodeInv'
<1>0. TypeOK /\ MempoolInv
  BY DEF NodeInv, CopiesInv
<1>1. PICK answer \in CheckTx(TxOf(w)) :
        /\ reply' = [reply EXCEPT ![w] = answer]
        /\ mempool' = Admitted(TxOf(w), answer)
  BY DEF Answered
<1>2. /\ st[w] = "posting" /\ reply[w] = "none"
      /\ UNCHANGED <<config, acc, now, st, nonce, hid, again, attempt, maybeSent, since,
                     interrupted, landed, net>>
  BY DEF Answered
<1>3. answer \in {"ok", "refused", "held", "used"}
  BY DEF CheckTx
<1>4. TxOf(w) \in Transactions
  BY <1>0 DEF TypeOK, TxOf, Tx, Transactions
<1>5. mempool' \subseteq mempool \cup {TxOf(w)} /\ (answer # "ok" => mempool' = mempool)
  BY <1>1 DEF Admitted
<1>6. TypeOK'
  BY <1>0, <1>1, <1>2, <1>3, <1>4, <1>5 DEF TypeOK, config, Replies
<1>7. MempoolInv'
  BY <1>0, <1>1, <1>2, AdmittedKeeps
<1>8. \A u \in Ops : Unsent(u)' => Unsent(u)
  BY <1>0, <1>1, <1>2 DEF TypeOK, Unsent
<1>9. \A t \in Copies' : t \in Copies \/ \E u \in Ops : t = TxOf(u) /\ ~Unsent(u)'
  <2>1. answer = "ok" => ~Unsent(w)'
    BY <1>0, <1>1, <1>2 DEF TypeOK, Unsent
  <2> QED
    BY <1>2, <1>5, <2>1 DEF Copies, Landed
<1> QED
  BY <1>2, <1>6, <1>7, <1>8, <1>9, NodeKeeps

\* A request gets no answer of the node's, or is cancelled: a copy may be on
\* its way.
LEMMA LostKeeps ==
  ASSUME NodeInv, NEW w \in Ops, NoAnswer(w) \/ Cancel(w)
  PROVE  NodeInv'
<1>0. TypeOK /\ MempoolInv
  BY DEF NodeInv, CopiesInv
<1>1. UNCHANGED <<config, acc, now, nonce, mempool, landed>>
  BY DEF NoAnswer, Cancel
<1>2. TxOf(w) \in Transactions
  BY <1>0 DEF TypeOK, TxOf, Tx, Transactions
<1>3. \/ net' = net
      \/ net' = net \cup {TxOf(w)} /\ ~Unsent(w)'
  BY <1>0 DEF TypeOK, NoAnswer, Cancel, Kept, Ends, Unsent
<1>4. TypeOK'
  <2>1. /\ st' \in [Ops -> States] /\ hid' \in [Ops -> Nat] /\ again' \in [Ops -> BOOLEAN]
        /\ attempt' \in [Ops -> Nat] /\ maybeSent' \in [Ops -> BOOLEAN]
        /\ since' \in [Ops -> Nat] /\ reply' \in [Ops -> Replies]
    <3>1. CASE NoAnswer(w)
      BY <1>0, <3>1 DEF TypeOK, NoAnswer, Replies
    <3>2. CASE Cancel(w)
      BY <1>0, <3>2 DEF TypeOK, Cancel, Kept, Ends, Replies, States
    <3> QED
      BY <3>1, <3>2
  <2> QED
    BY <1>0, <1>1, <1>2, <1>3, <2>1 DEF TypeOK, config
<1>5. \A u \in Ops : Unsent(u)' => Unsent(u)
  BY <1>0 DEF TypeOK, Unsent, NoAnswer, Cancel, Kept, Ends
<1>6. \A t \in Copies' : t \in Copies \/ \E u \in Ops : t = TxOf(u) /\ ~Unsent(u)'
  BY <1>1, <1>3 DEF Copies, Landed
<1>7. MempoolInv'
  BY <1>0, <1>1 DEF MempoolInv, NonceUsed, UsedAfter
<1> QED
  BY <1>1, <1>4, <1>5, <1>6, <1>7, NodeKeeps

\* What a block adds: one transaction, whose nonce it uses.
LEMMA LandFacts ==
  ASSUME TypeOK, NEW t \in mempool, landed' = Append(landed, t)
  PROVE  /\ landed' \in Seq(Transactions)
         /\ Len(landed') = Len(landed) + 1
         /\ \A i \in 1..Len(landed) : landed'[i] = landed[i]
         /\ landed'[Len(landed) + 1] = t
         /\ Landed' = Landed \cup {t}
         /\ \A n : NonceUsed(n)' <=> NonceUsed(n) \/ n = t.nonce
<1>1. t \in Transactions /\ landed \in Seq(Transactions)
  BY DEF TypeOK
<1>2. /\ landed' \in Seq(Transactions)
      /\ Len(landed') = Len(landed) + 1
      /\ \A i \in 1..Len(landed) : landed'[i] = landed[i]
      /\ landed'[Len(landed) + 1] = t
  BY <1>1
<1>3. DOMAIN landed = 1..Len(landed) /\ DOMAIN landed' = 1..Len(landed') /\ Len(landed) \in Nat
  BY <1>1, <1>2
<1>4. Landed' = Landed \cup {t}
  BY <1>2, <1>3 DEF Landed, ToSet
<1>5. \A n : NonceUsed(n)' <=> NonceUsed(n) \/ n = t.nonce
  BY <1>2, <1>3 DEF NonceUsed, UsedAfter
<1> QED
  BY <1>2, <1>4, <1>5

\* The node lands, drops or receives a transaction.
LEMMA NodeStepKeeps ==
  ASSUME NodeInv, NodeStep, UNCHANGED clientVars
  PROVE  NodeInv'
<1>0. TypeOK /\ MempoolInv
  BY DEF NodeInv, CopiesInv
<1>1. UNCHANGED <<registrations, timely, acc, now, st, nonce, hid, again, attempt, maybeSent,
                  since, reply>>
  BY DEF clientVars, config
<1>2. \A w \in Ops : Unsent(w)' <=> Unsent(w)
  BY <1>1 DEF Unsent
<1>3. ASSUME /\ mempool' \subseteq Transactions /\ net' \subseteq Transactions
             /\ landed' \in Seq(Transactions) /\ MempoolInv' /\ Copies' \subseteq Copies
      PROVE  NodeInv'
  <2>1. TypeOK'
    BY <1>0, <1>1, <1>3 DEF TypeOK
  <2> QED
    BY <1>1, <1>2, <1>3, <2>1, NodeKeeps
<1>4. CASE Land
  <2>1. PICK t \in mempool : /\ landed' = Append(landed, t)
                             /\ mempool' = mempool \ {t} /\ net' = net
    BY <1>4 DEF Land
  <2>2. /\ landed' \in Seq(Transactions) /\ Landed' = Landed \cup {t}
        /\ \A n : NonceUsed(n)' <=> NonceUsed(n) \/ n = t.nonce
    BY <1>0, <2>1, LandFacts
  <2>3. MempoolInv'
    BY <1>0, <2>1, <2>2 DEF MempoolInv
  <2>4. Copies' \subseteq Copies
    BY <2>1, <2>2 DEF Copies
  <2> QED
    BY <1>0, <1>3, <2>1, <2>2, <2>3, <2>4 DEF TypeOK
<1>5. CASE Evict
  <2>1. mempool' \subseteq mempool /\ landed' = landed /\ net' = net
    BY <1>5 DEF Evict
  <2>2. Landed' = Landed /\ \A n : NonceUsed(n)' <=> NonceUsed(n)
    BY <2>1 DEF Landed, NonceUsed, UsedAfter
  <2>3. MempoolInv' /\ Copies' \subseteq Copies
    BY <1>0, <2>1, <2>2 DEF MempoolInv, Copies
  <2> QED
    BY <1>0, <1>3, <2>1, <2>2, <2>3 DEF TypeOK
<1>6. CASE Arrive
  <2>1. PICK t \in net, answer \in {"ok", "refused", "held", "used"} :
          /\ answer \in CheckTx(t)
          /\ mempool' = Admitted(t, answer) /\ net' = net \ {t} /\ landed' = landed
    BY <1>6 DEF Arrive
  <2>2. Landed' = Landed /\ \A n : NonceUsed(n)' <=> NonceUsed(n)
    BY <2>1 DEF Landed, NonceUsed, UsedAfter
  <2>3. MempoolInv'
    BY <1>0, <2>1, AdmittedKeeps
  <2>4. mempool' \subseteq mempool \cup {t}
    BY <2>1 DEF Admitted
  <2>5. Copies' \subseteq Copies
    BY <2>1, <2>2, <2>4 DEF Copies
  <2> QED
    BY <1>0, <1>3, <2>1, <2>2, <2>3, <2>4, <2>5 DEF TypeOK
<1> QED
  BY <1>4, <1>5, <1>6 DEF NodeStep

\* A step is one of these.
LEMMA NextCases ==
  ASSUME NodeInv, [Next]_vars
  PROVE  \/ \E w \in Ops :
              \/ MayCall(w) /\ Called(w)
              \/ Attempted(w)
              \/ Answered(w) \/ NoAnswer(w) \/ Cancel(w) \/ Resubmit(w)
         \/ NodeStep /\ UNCHANGED clientVars
         \/ Tick
         \/ UNCHANGED vars
<1>1. TypeOK /\ RefreshedFrom(acc, acc, now)
  BY RefreshedSelf DEF NodeInv, TypeOK
<1>2. ASSUME NEW w \in Ops, SignAndBroadcast(w) \/ RegisterDid(w)
      PROVE  MayCall(w) /\ Called(w)
  BY <1>1, <1>2, CallsFacts DEF SignAndBroadcast, RegisterDid
<1>3. ASSUME NEW w \in Ops, Handle(w)
      PROVE  Attempted(w)
  <2>1. \E s : \E h : EndsWith(w, s, h, acc)
    BY <1>1, <1>3, HandleFacts
  <2>2. st[w] = "posting" /\ UNCHANGED <<config, now, nonce, interrupted, nodeVars>>
    BY <1>3 DEF Handle
  <2> QED
    BY <1>1, <2>1, <2>2 DEF Attempted
<1>4. \A w \in Ops : Retry(w) => Attempted(w)
  BY <1>1, RetryFacts
<1> QED
  BY <1>2, <1>3, <1>4 DEF Next

\* Every step keeps the invariant.
LEMMA NextNodeInv == NodeInv /\ [Next]_vars => NodeInv'
<1> SUFFICES ASSUME NodeInv, [Next]_vars PROVE NodeInv'
  OBVIOUS
<1>1. CASE UNCHANGED vars
  <2>1. TypeOK'
    BY <1>1 DEF NodeInv, TypeOK, vars, clientVars, config, nodeVars
  <2> QED
    BY <1>1, <2>1, ClientStep DEF vars, clientVars, Unsent
<1>2. ASSUME NEW w \in Ops, Attempted(w)
      PROVE  NodeInv'
  <2>1. st[w] = "posting" /\ UNCHANGED <<config, now, nonce, interrupted, nodeVars>>
    BY <1>2 DEF Attempted
  <2>2. PICK a : /\ RefreshedFrom(a, acc, now)
                 /\ \/ reply[w] \in {"never", "lost"} /\ Renews(w, a)
                    \/ \E s : \E h : EndsWith(w, s, h, a)
    BY <1>2 DEF Attempted
  <2>3. IsAccount(a)
    BY <2>2 DEF RefreshedFrom
  <2> QED
    BY <2>1, <2>2, <2>3, EndKeeps, RenewKeeps
<1> QED
  BY <1>1, <1>2, NextCases, CallKeeps, ResubmitKeeps, AnsweredKeeps, LostKeeps, NodeStepKeeps,
     TickKeeps

\* The copies of every write are accounted for in every reachable state.
THEOREM BroadcastInvariant == Spec => []NodeInv
BY InitNodeInv, NextNodeInv, PTL DEF Spec

\* The client's and the node's variables keep their shapes.
THEOREM BroadcastTypeCorrect == Spec => []TypeOK
<1>1. NodeInv => TypeOK
  BY DEF NodeInv
<1> QED
  BY <1>1, BroadcastInvariant, PTL

-----------------------------------------------------------------------------
(* Broadcast implements WritePromise: every step is one of the promise's    *)
(* steps, or changes neither what the application knows nor what ran.       *)

StatusNow == [w \in Ops |-> Status(w)]
RunsNow == [w \in Ops |-> RunsOf(w)]

\* A step of the client runs nothing; one that changes what the application
\* knows of one write is the promise's step of that write.
LEMMA ToFacts ==
  ASSUME NEW w \in Ops, NEW s, landed' = landed,
         Status(w)' = s, \A u \in Ops \ {w} : Status(u)' = Status(u)
  PROVE  Promise!To(w, s)
<1>1. StatusNow' = [StatusNow EXCEPT ![w] = s]
  BY DEF StatusNow
<1>2. RunsNow' = RunsNow
  BY DEF RunsNow, RunsOf
<1> QED
  BY <1>1, <1>2 DEF Promise!To, StatusNow, RunsNow

\* A write with no copy anywhere has not run.
LEMMA NotRun ==
  ASSUME TypeOK, NEW w \in Ops, \A t \in Landed : t.op # w
  PROVE  RunsOf(w) = 0
<1>1. {i \in 1..Len(landed) : landed[i].op = w} = {}
  BY CopiesType
<1> QED
  BY <1>1, FS_EmptySet DEF RunsOf

\* The node running a transaction runs its write for the first time.
LEMMA LandRuns ==
  ASSUME NodeInv, Land, UNCHANGED clientVars
  PROVE  \E w \in Ops : Promise!Run(w)
<1>0. TypeOK /\ CopiesAreSigned /\ NoneLeft /\ MempoolInv
  BY DEF NodeInv, CopiesInv
<1>1. PICK t \in mempool : landed' = Append(landed, t)
  BY DEF Land
<1>2. /\ landed' \in Seq(Transactions)
      /\ Len(landed') = Len(landed) + 1
      /\ \A i \in 1..Len(landed) : landed'[i] = landed[i]
      /\ landed'[Len(landed) + 1] = t
      /\ Len(landed) \in Nat
  BY <1>0, <1>1, LandFacts DEF TypeOK
<1>3. t \in Copies /\ t \in Transactions /\ t = TxOf(t.op)
  BY <1>0 DEF Copies, CopiesAreSigned, TypeOK
<1> DEFINE w == t.op
           Places(u) == {i \in 1..Len(landed) : landed[i].op = u}
<1>4. w \in Ops
  BY <1>3 DEF Transactions
<1>5. \A x \in Landed : x.op # w
  <2> SUFFICES ASSUME NEW x \in Landed, x.op = w PROVE FALSE
    OBVIOUS
  <2>1. x = TxOf(w)
    BY <1>0 DEF Copies, CopiesAreSigned
  <2>2. NonceUsed(t.nonce)
    BY <1>0, <1>3, <2>1, CopiesType
  <2> QED
    BY <1>0, <2>2 DEF MempoolInv
<1>6. RunsOf(w) = 0 /\ Places(w) = {}
  BY <1>0, <1>4, <1>5, NotRun, CopiesType
<1>7. RunsOf(w)' = 1
  <2>1. Places(w)' = {Len(landed) + 1}
    <3>1. \A i \in 1..Len(landed) : landed[i].op # w
      BY <1>6
    <3> QED
      BY <1>2, <3>1
  <2> QED
    BY <2>1, FS_Singleton DEF RunsOf
<1>8. \A u \in Ops \ {w} : RunsOf(u)' = RunsOf(u)
  <2> SUFFICES ASSUME NEW u \in Ops \ {w} PROVE RunsOf(u)' = RunsOf(u)
    OBVIOUS
  <2>1. Places(u)' = Places(u)
    BY <1>2
  <2> QED
    BY <2>1 DEF RunsOf
<1>9. StatusNow' = StatusNow /\ StatusNow[w] \notin {"idle", "failed"}
  <2>1. UNCHANGED <<st, again>>
    BY DEF clientVars
  <2>2. ~NoCopy(w)
    BY <1>3 DEF NoCopy
  <2>3. st[w] \notin {"idle", "failed"}
    BY <1>0, <1>4, <2>2 DEF NoneLeft, Unsent
  <2> QED
    BY <1>4, <2>1, <2>3 DEF StatusNow, Status
<1>10. RunsNow[w] = 0 /\ RunsNow' = [RunsNow EXCEPT ![w] = 1]
  BY <1>4, <1>6, <1>7, <1>8 DEF RunsNow
<1>11. Promise!Run(w)
  BY <1>9, <1>10 DEF Promise!Run, StatusNow, RunsNow
<1> QED
  BY <1>4, <1>11

\* Every step keeps the promise.
LEMMA PromiseStep ==
  ASSUME NodeInv, [Next]_vars
  PROVE  [Promise!Next]_<<StatusNow, RunsNow>>
<1>0. TypeOK /\ NoneLeft
  BY DEF NodeInv, CopiesInv
<1>1. ASSUME landed' = landed, UNCHANGED <<st, again>>
      PROVE  UNCHANGED <<StatusNow, RunsNow>>
  BY <1>1 DEF StatusNow, RunsNow, Status, RunsOf
<1>2. ASSUME NEW w \in Ops, MayCall(w), Called(w)
      PROVE  [Promise!Next]_<<StatusNow, RunsNow>>
  <2>1. CASE Reread(acc')
    BY <1>1, <2>1 DEF Reread, nodeVars
  <2>2. ASSUME NEW n, NEW a, Begin(w, n, a, FALSE)
        PROVE  Promise!Next
    <3>1. Promise!To(w, "sent")
      BY <1>0, <2>2, ToFacts DEF Begin, Status, TypeOK, nodeVars
    <3>2. StatusNow[w] \in {"idle", "failed"}
      BY <1>2 DEF MayCall, StatusNow, Status
    <3>3. Promise!Start(w)
      BY <3>1, <3>2 DEF Promise!Start, StatusNow
    <3> QED
      BY <3>3 DEF Promise!Next
  <2> QED
    BY <1>2, <2>1, <2>2 DEF Called
<1>3. ASSUME NEW w \in Ops, st[w] = "posting", UNCHANGED nodeVars,
             NEW s, NEW h, NEW a, EndsWith(w, s, h, a)
      PROVE  Promise!Next
  <2>1. /\ st' = [st EXCEPT ![w] = s] /\ again' = [again EXCEPT ![w] = FALSE]
        /\ s \in {"accepted", "kept", "used", "failed"} /\ (s = "failed" => Unsent(w))
        /\ landed' = landed
        /\ StatusNow[w] \in {"sent", "resent"}
        /\ Unsent(w) => StatusNow[w] = "sent"
    BY <1>3 DEF EndsWith, Ends, nodeVars, StatusNow, Status, Unsent
  <2>2. \E q \in {"accepted", "kept", "failed"} :
          /\ q = IF s = "used" THEN "kept" ELSE s
          /\ Promise!To(w, q)
    BY <1>0, <2>1, ToFacts DEF Status, TypeOK
  <2>3. s = "failed" => RunsNow[w] = 0
    BY <1>0, <2>1, NotRun DEF NoneLeft, NoCopy, Copies, RunsNow
  <2>4. Promise!Accept(w) \/ Promise!Keep(w) \/ Promise!Fail(w)
    BY <2>1, <2>2, <2>3
       DEF Promise!Accept, Promise!Keep, Promise!Fail, StatusNow, RunsNow
  <2> QED
    BY <2>4 DEF Promise!Next
<1>4. ASSUME NEW w \in Ops, Attempted(w)
      PROVE  [Promise!Next]_<<StatusNow, RunsNow>>
  <2>1. st[w] = "posting" /\ UNCHANGED nodeVars
    BY <1>4 DEF Attempted
  <2>2. PICK a : \/ Renews(w, a)
                 \/ \E s : \E h : EndsWith(w, s, h, a)
    BY <1>4 DEF Attempted
  <2>3. CASE Renews(w, a)
    BY <1>1, <2>1, <2>3 DEF Renews, nodeVars
  <2> QED
    BY <1>3, <2>1, <2>2, <2>3
<1>5. ASSUME NEW w \in Ops, Cancel(w)
      PROVE  Promise!Next
  <2>1. Promise!To(w, "kept")
    BY <1>0, <1>5, ToFacts DEF Cancel, Kept, Ends, Status, TypeOK
  <2>2. StatusNow[w] \in {"sent", "resent"}
    BY <1>5 DEF Cancel, StatusNow, Status
  <2>3. Promise!Keep(w)
    BY <2>1, <2>2 DEF Promise!Keep, StatusNow
  <2> QED
    BY <2>3 DEF Promise!Next
<1>6. ASSUME NEW w \in Ops, Resubmit(w)
      PROVE  [Promise!Next]_<<StatusNow, RunsNow>>
  <2>1. st[w] = "kept" /\ \E a : Resubmitted(w, a)
    BY <1>0, <1>6, ResubmitFacts
  <2>2. CASE UNCHANGED <<st, again, nodeVars>>
    BY <1>1, <2>2 DEF nodeVars
  <2>3. ASSUME NEW b, Begin(w, nonce[w], b, TRUE)
        PROVE  Promise!Next
    <3>1. Promise!To(w, "resent")
      BY <1>0, <2>3, ToFacts DEF Begin, Status, TypeOK, nodeVars
    <3>2. StatusNow[w] = "kept"
      BY <2>1 DEF StatusNow, Status
    <3>3. Promise!Resend(w)
      BY <3>1, <3>2 DEF Promise!Resend, StatusNow
    <3> QED
      BY <3>3 DEF Promise!Next
  <2> QED
    BY <2>1, <2>2, <2>3 DEF Resubmitted
<1>7. ASSUME NEW w \in Ops, Answered(w) \/ NoAnswer(w)
      PROVE  UNCHANGED <<StatusNow, RunsNow>>
  BY <1>1, <1>7 DEF Answered, NoAnswer
<1>8. ASSUME NodeStep, UNCHANGED clientVars
      PROVE  [Promise!Next]_<<StatusNow, RunsNow>>
  <2>1. CASE Land
    BY <1>8, <2>1, LandRuns DEF Promise!Next
  <2>2. CASE Evict \/ Arrive
    BY <1>1, <1>8, <2>2 DEF Evict, Arrive, clientVars
  <2> QED
    BY <1>8, <2>1, <2>2 DEF NodeStep
<1>9. CASE Tick \/ UNCHANGED vars
  BY <1>1, <1>9 DEF Tick, vars, clientVars, nodeVars
<1> QED
  BY <1>2, <1>4, <1>5, <1>6, <1>7, <1>8, <1>9, NextCases

\* A write runs at most once, however many attempts it makes, and one whose
\* error carries no transaction never ran and never will unless it is called
\* again: Broadcast implements WritePromise.
THEOREM BroadcastKeepsPromise == Spec => KeepsPromise
<1>1. Init => Promise!Init
  <2> SUFFICES ASSUME Init PROVE Promise!Init
    OBVIOUS
  <2>1. TypeOK /\ Landed = {}
    BY InitNodeInv DEF NodeInv, Init, NodeInit, Landed, ToSet
  <2>2. \A w \in Ops : RunsOf(w) = 0
    BY <2>1, NotRun
  <2> QED
    BY <2>2 DEF Promise!Init, Init, Status
<1>2. NodeInv /\ [Next]_vars => [Promise!Next]_<<StatusNow, RunsNow>>
  BY PromiseStep
<1> QED
  BY <1>1, <1>2, BroadcastInvariant, PTL
     DEF Spec, KeepsPromise, Promise!Spec, StatusNow, RunsNow

-----------------------------------------------------------------------------
(* One write in flight under a nonce.  While attempts end within a lease, a *)
(* write in flight holds its nonce until that is used: its lease runs, and  *)
(* the nonce's record carries its own id.                                   *)

\* A RegisterDid may take this nonce from whoever holds it.
Shared(n) == n = 1 /\ registrations # {}

IdsBelowNext ==
  /\ \A n : HandoutOf(acc, n) < acc.next
  /\ \A w \in Ops : hid[w] < acc.next

\* An id is of one nonce, and of one write.
RecordsDistinct ==
  \A m, n : HandoutOf(acc, m) = HandoutOf(acc, n) /\ HandoutOf(acc, m) # NoHandout => m = n
IdsOfNonce ==
  \A w \in Ops : \A n : HandoutOf(acc, n) = hid[w] /\ hid[w] # NoHandout => n = nonce[w]
OwnIds ==
  \A u, w \in Ops :
    hid[u] = hid[w] /\ hid[u] # NoHandout => u = w \/ (Shared(nonce[u]) /\ Shared(nonce[w]))

IdsInv == IdsBelowNext /\ RecordsDistinct /\ IdsOfNonce /\ OwnIds

\* On account a the nonce of w is used, or leased since its last attempt and
\* recorded under its own id.
Holds(a, w) ==
  LET n == nonce[w] IN
  /\ HandoutOf(a, n) \in {NoHandout, hid[w]}
  /\ IsUsed(a, n) \/ /\ n \in DOMAIN a.handed /\ a.handed[n] = since[w]
                     /\ HandoutOf(a, n) # NoHandout

PostsHold ==
  \A w \in Ops : st[w] = "posting" =>
    now - since[w] < Lease /\ (Shared(nonce[w]) \/ Holds(acc, w))

FlightInv == IdsInv /\ PostsHold

\* Id h, new or the nonce's or the write's own, is all a step records, for
\* nonce n, and the id it gives w, if it gives w one.
Records(w, n, h) ==
  /\ \/ h \in {acc.next, NoHandout}
     \/ h = hid[w] /\ n = nonce[w]
     \/ h = HandoutOf(acc, n) /\ Shared(n)
  /\ registrations' = registrations
  /\ acc.next =< acc'.next /\ h < acc'.next
  /\ \A m : m # n => HandoutOf(acc', m) \in {HandoutOf(acc, m), NoHandout}
  /\ HandoutOf(acc', n) \in {HandoutOf(acc, n), NoHandout, h}
  /\ nonce'[w] = n /\ hid'[w] \in {NoHandout, h}
  /\ \A u \in Ops \ {w} : nonce'[u] = nonce[u] /\ hid'[u] = hid[u]

\* Such a step keeps the ids apart.
LEMMA IdsKeep ==
  ASSUME TypeOK, TypeOK', IdsInv, NEW w \in Ops, NEW n, NEW h \in Nat, Records(w, n, h)
  PROVE  IdsInv'
<1> USE DEF Records
<1>0. /\ acc.next \in Nat \ {0} /\ acc'.next \in Nat
      /\ \A m : HandoutOf(acc, m) \in Nat /\ HandoutOf(acc, m) < acc.next
      /\ \A u \in Ops : hid[u] \in Nat /\ hid[u] < acc.next
  BY DEF TypeOK, IsAccount, IdsInv, IdsBelowNext, HandoutOf, NoHandout
<1>1. nonce'[w] = n /\ \A u \in Ops \ {w} : nonce'[u] = nonce[u]
  OBVIOUS
<1>2. IdsBelowNext'
  BY <1>0 DEF IdsBelowNext, NoHandout
<1>3. \A m : m # n /\ h # NoHandout => HandoutOf(acc, m) # h
  BY <1>0 DEF IdsInv, RecordsDistinct, IdsOfNonce
<1>4. RecordsDistinct'
  BY <1>3 DEF RecordsDistinct, IdsInv
<1>5. \A u \in Ops \ {w} : hid[u] = h /\ h # NoHandout => nonce[u] = n /\ Shared(n)
  <2> SUFFICES ASSUME NEW u \in Ops \ {w}, hid[u] = h, h # NoHandout
               PROVE  nonce[u] = n /\ Shared(n)
    OBVIOUS
  <2>1. h # acc.next
    BY <1>0
  <2>2. CASE h = hid[w] /\ n = nonce[w]
    BY <2>2 DEF IdsInv, OwnIds, Shared
  <2>3. CASE h = HandoutOf(acc, n) /\ Shared(n)
    BY <2>3 DEF IdsInv, IdsOfNonce
  <2> QED
    BY <2>1, <2>2, <2>3
<1>6. IdsOfNonce'
  BY <1>1, <1>3, <1>5 DEF IdsInv, IdsOfNonce
<1>7. OwnIds'
  <2>1. \A m : Shared(m)' <=> Shared(m)
    BY DEF Shared
  <2>2. ASSUME NEW u \in Ops, NEW v \in Ops, u # w, v # w, hid'[u] = hid'[v],
               hid'[u] # NoHandout, u # v
        PROVE  Shared(nonce'[u]) /\ Shared(nonce'[v])
    BY <1>1, <2>2 DEF IdsInv, OwnIds
  <2>3. ASSUME NEW u \in Ops \ {w}, hid'[u] = hid'[w], hid'[u] # NoHandout
        PROVE  Shared(nonce'[u]) /\ Shared(nonce'[w])
    BY <1>1, <1>5, <2>3
  <2> QED
    BY <2>1, <2>2, <2>3 DEF OwnIds
<1> QED
  BY <1>2, <1>4, <1>6, <1>7 DEF IdsInv

\* A refresh within the lease leaves a nonce held.
LEMMA HoldsRefreshed ==
  ASSUME TypeOK, NEW u \in Ops, NEW a, NEW q, Holds(a, u), now - since[u] < Lease,
         RefreshedFrom(q, a, now)
  PROVE  Holds(q, u)
<1>1. nonce[u] \in Nat
  BY DEF TypeOK
<1> QED
  BY <1>1 DEF Holds, RefreshedFrom

\* So do leasing or giving back another nonce,
LEMMA HoldsOther ==
  ASSUME NEW u \in Ops, NEW r, NEW a, NEW n, NEW h, Holds(r, u), nonce[u] # n,
         Leased(a, r, n, h, now) \/ Returned(a, r, n)
  PROVE  Holds(a, u)
BY DEF Holds, Leased, Returned, IsUsed

\* and settling another nonce, or one that is used.
LEMMA HoldsSettled ==
  ASSUME TypeOK, NEW u \in Ops, NEW a, NEW q, NEW n, NEW o, NEW h, Holds(a, u),
         SettleLeaves(q, a, n, o, h), nonce[u] # n \/ IsUsed(a, nonce[u])
  PROVE  Holds(q, u)
<1>1. /\ HandoutOf(q, nonce[u]) \in {HandoutOf(a, nonce[u]), NoHandout}
      /\ IsUsed(a, nonce[u]) => IsUsed(q, nonce[u])
  BY DEF SettleLeaves, HandoutOf, IsUsed
<1>2. nonce[u] # n => HandoutOf(q, nonce[u]) = HandoutOf(a, nonce[u])
  BY DEF SettleLeaves, HandoutOf
<1>3. nonce[u] # n /\ nonce[u] \in DOMAIN a.handed =>
        nonce[u] \in DOMAIN q.handed /\ q.handed[nonce[u]] = a.handed[nonce[u]]
  BY DEF SettleLeaves
<1> QED
  BY <1>1, <1>2, <1>3 DEF Holds

\* A step of one write that leaves the others what they hold.
LEMMA PostsFrame ==
  ASSUME PostsHold, NEW w \in Ops, UNCHANGED <<now, registrations>>,
         \A u \in Ops \ {w} : /\ st'[u] = st[u] /\ nonce'[u] = nonce[u]
                               /\ hid'[u] = hid[u] /\ since'[u] = since[u],
         \A u \in Ops \ {w} :
           st[u] = "posting" /\ now - since[u] < Lease /\ ~Shared(nonce[u]) /\ Holds(acc, u)
             => Holds(acc', u),
         st'[w] = "posting" => now - since'[w] < Lease /\ (Shared(nonce'[w]) \/ Holds(acc, w)')
  PROVE  PostsHold'
<1>1. \A n : Shared(n)' <=> Shared(n)
  BY DEF Shared
<1> SUFFICES ASSUME NEW u \in Ops \ {w}, st[u] = "posting"
             PROVE  now - since[u] < Lease /\ (Shared(nonce[u]) \/ Holds(acc, u)')
  BY <1>1 DEF PostsHold
<1>2. now - since[u] < Lease /\ (Shared(nonce[u]) \/ Holds(acc', u))
  BY DEF PostsHold
<1> QED
  BY <1>2 DEF Holds

\* Two writes that hold one unused nonce on the account are one.
LEMMA HeldByOne ==
  ASSUME IdsInv, NEW u \in Ops, NEW w \in Ops, nonce[u] = nonce[w], ~Shared(nonce[u]),
         NEW a, Holds(a, u), ~IsUsed(a, nonce[u]),
         HandoutOf(a, nonce[u]) \in {NoHandout, hid[w]}
  PROVE  u = w
<1>1. HandoutOf(a, nonce[u]) = hid[u] /\ hid[u] # NoHandout
  BY DEF Holds
<1> QED
  BY <1>1 DEF IdsInv, OwnIds

\* A refresh keeps what the writes in flight hold and the ids apart; so does
\* giving back a nonce that was free, or that a RegisterDid may take anyway.
LEMMA FlightReread ==
  ASSUME NodeInv, NodeInv', FlightInv, UNCHANGED <<registrations, now, st, nonce, hid, since>>,
         \/ RefreshedFrom(acc', acc, now)
         \/ \E r : \E n : FreeOn(r, n) /\ Returned(acc', r, n) /\ acc'.next = r.next + 1
         \/ \E n : Shared(n) /\ Returned(acc', acc, n) /\ acc'.next >= acc.next
  PROVE  FlightInv'
<1>0. TypeOK /\ TypeOK' /\ IdsInv /\ PostsHold
  BY DEF NodeInv, FlightInv
<1>1. UNCHANGED <<registrations, now, st, nonce, hid, since>>
  OBVIOUS
<1>2. /\ \A m : HandoutOf(acc', m) \in {HandoutOf(acc, m), NoHandout}
      /\ acc'.next >= acc.next /\ acc.next \in Nat
  BY <1>0 DEF RefreshedFrom, FreeOn, Returned, TypeOK, IsAccount
<1>3. IdsInv'
  <2>1. IdsBelowNext'
    <3>1. \A m : HandoutOf(acc, m) < acc.next /\ HandoutOf(acc, m) \in Nat
      BY <1>0 DEF IdsInv, IdsBelowNext, HandoutOf, NoHandout, TypeOK, IsAccount
    <3>2. \A u \in Ops : hid[u] < acc.next /\ hid[u] \in Nat
      BY <1>0 DEF IdsInv, IdsBelowNext, TypeOK
    <3>3. acc.next \in Nat \ {0} /\ acc'.next \in Nat /\ acc'.next >= acc.next
      BY <1>0, <1>2 DEF TypeOK, IsAccount
    <3> QED
      BY <1>1, <1>2, <3>1, <3>2, <3>3 DEF IdsBelowNext, NoHandout
  <2>2. RecordsDistinct'
    BY <1>0, <1>2 DEF IdsInv, RecordsDistinct
  <2>3. IdsOfNonce'
    BY <1>0, <1>1, <1>2 DEF IdsInv, IdsOfNonce
  <2>4. OwnIds'
    BY <1>0, <1>1 DEF IdsInv, OwnIds, Shared
  <2> QED
    BY <2>1, <2>2, <2>3, <2>4 DEF IdsInv
<1>4. ASSUME NEW u \in Ops, Holds(acc, u), ~Shared(nonce[u]), now - since[u] < Lease
      PROVE  Holds(acc', u)
  <2>1. CASE RefreshedFrom(acc', acc, now)
    BY <1>0, <1>4, <2>1, HoldsRefreshed
  <2>2. ASSUME NEW r, NEW n, FreeOn(r, n), Returned(acc', r, n) PROVE Holds(acc', u)
    <3>1. Holds(r, u)
      BY <1>0, <1>4, <2>2, HoldsRefreshed DEF FreeOn
    <3>2. nonce[u] # n
      BY <2>2, <3>1 DEF FreeOn, Holds
    <3> QED
      BY <2>2, <3>1, <3>2, HoldsOther
  <2>3. ASSUME NEW n, Shared(n), Returned(acc', acc, n) PROVE Holds(acc', u)
    BY <1>4, <2>3, HoldsOther
  <2> QED
    BY <2>1, <2>2, <2>3
<1>5. PostsHold'
  BY <1>0, <1>1, <1>4 DEF PostsHold, Shared, Holds
<1> QED
  BY <1>3, <1>5 DEF FlightInv

\* On account r nonce n was leased to w anew, which gives b, or may be w's
\* though it is not.
MayBegin(w, n, r, b) ==
  \/ /\ b = r
     /\ \/ Shared(n)
        \/ IsUsed(r, n) /\ HandoutOf(r, n) \in {NoHandout, hid[w]} /\ n = nonce[w]
  \/ \E h : /\ Leased(b, r, n, h, now)
           /\ \/ h = acc.next /\ b.next = acc.next + 1
              \/ h = hid[w] /\ h # NoHandout /\ n = nonce[w] /\ b.next = acc.next
           /\ \A u \in Ops \ {w} : ~Shared(nonce[u]) /\ Holds(r, u) => nonce[u] # n

\* A broadcast that begins under such a nonce leaves the other writes in
\* flight theirs.
LEMMA FlightBegin ==
  ASSUME NodeInv, NodeInv', FlightInv, NEW w \in Ops, NEW n \in Nat, NEW b, NEW z,
         Begin(w, n, b, z), NEW r, RefreshedFrom(r, acc, now), MayBegin(w, n, r, b)
  PROVE  FlightInv'
<1> USE DEF MayBegin
<1>0. TypeOK /\ TypeOK' /\ IdsInv /\ PostsHold
  BY DEF NodeInv, FlightInv
<1>1. /\ nonce' = [nonce EXCEPT ![w] = n] /\ hid' = [hid EXCEPT ![w] = HandoutOf(b, n)]
      /\ st' = [st EXCEPT ![w] = "posting"] /\ since' = [since EXCEPT ![w] = now]
      /\ UNCHANGED <<registrations, now>>
  BY DEF Begin, config
<1>2. /\ nonce'[w] = n /\ hid'[w] = HandoutOf(b, n) /\ since'[w] = now
      /\ \A u \in Ops \ {w} : /\ st'[u] = st[u] /\ nonce'[u] = nonce[u]
                             /\ hid'[u] = hid[u] /\ since'[u] = since[u]
  BY <1>0, <1>1 DEF TypeOK
<1>3. IsAccount(b) /\ RefreshedFrom(acc', b, now)
  <2>1. IsAccount(b)
    BY DEF Leased, RefreshedFrom
  <2> QED
    BY <1>0, <2>1, BeginFacts
<1>4. /\ r.next = acc.next /\ acc.next \in Nat /\ acc'.next = b.next
      /\ \A m : HandoutOf(r, m) \in {HandoutOf(acc, m), NoHandout}
      /\ \A m : HandoutOf(acc', m) \in {HandoutOf(b, m), NoHandout}
  BY <1>0, <1>3 DEF RefreshedFrom, TypeOK, IsAccount
<1>5. IdsInv'
  <2>1. /\ \A m : HandoutOf(acc, m) \in Nat /\ HandoutOf(acc, m) < acc.next
        /\ \A u \in Ops : hid[u] \in Nat /\ hid[u] < acc.next
    BY <1>0 DEF IdsInv, IdsBelowNext, HandoutOf, NoHandout, TypeOK, IsAccount
  <2>2. ASSUME NEW h \in Nat, HandoutOf(b, n) = h, acc.next =< acc'.next, h < acc'.next,
               \/ h \in {acc.next, NoHandout}
               \/ h = hid[w] /\ n = nonce[w]
               \/ h = HandoutOf(acc, n) /\ Shared(n),
               \A m : m # n => HandoutOf(b, m) = HandoutOf(r, m)
        PROVE  IdsInv'
    <3>1. /\ \A m : m # n => HandoutOf(acc', m) \in {HandoutOf(acc, m), NoHandout}
          /\ HandoutOf(acc', n) \in {HandoutOf(acc, n), NoHandout, h}
      BY <1>4, <2>2
    <3>2. /\ registrations' = registrations /\ nonce'[w] = n /\ hid'[w] \in {NoHandout, h}
          /\ \A u \in Ops \ {w} : nonce'[u] = nonce[u] /\ hid'[u] = hid[u]
      BY <1>1, <1>2, <2>2
    <3>3. Records(w, n, h)
      BY <2>2, <3>1, <3>2 DEF Records
    <3> QED
      BY <1>0, <3>3, IdsKeep
  <2>3. CASE b = r /\ (\/ HandoutOf(r, n) \in {NoHandout, hid[w]} /\ n = nonce[w]
                       \/ Shared(n))
    <3>1. PICK h : h = HandoutOf(r, n)
      OBVIOUS
    <3>2. h \in {HandoutOf(acc, n), NoHandout} /\ acc'.next = acc.next
      BY <1>4, <2>3, <3>1
    <3>3. h \in Nat /\ h < acc'.next /\ acc.next =< acc'.next
      BY <1>4, <2>1, <3>2 DEF NoHandout, TypeOK, IsAccount
    <3> QED
      BY <2>2, <2>3, <3>1, <3>2, <3>3
  <2>4. ASSUME NEW h, Leased(b, r, n, h, now),
               \/ h = acc.next /\ b.next = acc.next + 1
               \/ h = hid[w] /\ h # NoHandout /\ n = nonce[w] /\ b.next = acc.next
        PROVE  IdsInv'
    <3>1. h \in Nat /\ h < acc'.next /\ acc.next =< acc'.next
      BY <1>4, <2>1, <2>4
    <3>2. HandoutOf(b, n) = h /\ \A m : m # n => HandoutOf(b, m) = HandoutOf(r, m)
      BY <2>4 DEF Leased
    <3> QED
      BY <2>2, <2>4, <3>1, <3>2
  <2> QED
    BY <2>3, <2>4
<1>6. ASSUME NEW u \in Ops \ {w}, st[u] = "posting", now - since[u] < Lease,
             ~Shared(nonce[u]), Holds(acc, u)
      PROVE  Holds(acc', u)
  <2>1. Holds(r, u)
    BY <1>0, <1>6, HoldsRefreshed
  <2>2. Holds(b, u)
    BY <1>6, <2>1, HoldsOther
  <2> QED
    BY <1>0, <1>3, <1>6, <2>2, HoldsRefreshed
<1>7. now - since'[w] < Lease /\ (Shared(n) \/ Holds(acc, w)')
  <2>1. now - now < Lease
    BY <1>0, LeaseAssumption DEF TypeOK
  <2>2. CASE b = r /\ IsUsed(r, n)
    <3>1. IsUsed(acc', n) /\ HandoutOf(acc', n) \in {NoHandout, hid'[w]}
      BY <1>2, <1>3, <1>4, <2>2 DEF RefreshedFrom
    <3> QED
      BY <1>2, <2>1, <3>1 DEF Holds
  <2>3. ASSUME NEW h, Leased(b, r, n, h, now), h # NoHandout PROVE Holds(acc, w)'
    <3>1. HandoutOf(b, n) = h /\ n \in DOMAIN b.handed /\ b.handed[n] = now
      BY <2>3 DEF Leased
    <3>2. \/ IsUsed(acc', n)
          \/ HandoutOf(acc', n) = h /\ n \in DOMAIN acc'.handed /\ acc'.handed[n] = now
      BY <1>3, <2>1, <3>1 DEF RefreshedFrom
    <3>3. HandoutOf(acc', n) \in {NoHandout, hid'[w]}
      BY <1>2, <1>4
    <3> QED
      BY <1>2, <2>3, <3>2, <3>3 DEF Holds
  <2>4. acc.next # NoHandout
    BY <1>0 DEF TypeOK, IsAccount, NoHandout
  <2> QED
    BY <1>2, <2>1, <2>2, <2>3, <2>4
<1>8. PostsHold'
  BY <1>0, <1>1, <1>2, <1>6, <1>7, PostsFrame
<1> QED
  BY <1>5, <1>8 DEF FlightInv

\* A broadcast that ends settles its nonce, which no other write in flight
\* holds unless it is used.
LEMMA FlightEnd ==
  ASSUME NodeInv, NodeInv', FlightInv, NEW w \in Ops, st[w] = "posting",
         UNCHANGED <<registrations, now, nonce>>,
         NEW a, RefreshedFrom(a, acc, now), NEW s, NEW h, EndsWith(w, s, h, a)
  PROVE  FlightInv'
<1>0. TypeOK /\ TypeOK' /\ IdsInv /\ PostsHold
  BY DEF NodeInv, FlightInv
<1>1. /\ st' = [st EXCEPT ![w] = s] /\ hid' = [hid EXCEPT ![w] = h]
      /\ since' = [since EXCEPT ![w] = 0] /\ s # "posting"
      /\ h \in {NoHandout, hid[w], HandoutOf(acc', nonce[w])}
  BY DEF EndsWith, Ends
<1>2. /\ nonce'[w] = nonce[w] /\ hid'[w] = h /\ st'[w] = s
      /\ \A u \in Ops \ {w} : /\ st'[u] = st[u] /\ nonce'[u] = nonce[u]
                             /\ hid'[u] = hid[u] /\ since'[u] = since[u]
  BY <1>0, <1>1 DEF TypeOK
<1>3. /\ acc'.next = acc.next /\ acc.next \in Nat \ {0}
      /\ \A m : HandoutOf(acc', m) \in {HandoutOf(acc, m), NoHandout}
  <2>1. a.next = acc.next /\ \A m : HandoutOf(a, m) \in {HandoutOf(acc, m), NoHandout}
    BY DEF RefreshedFrom
  <2>2. acc'.next = a.next /\ \A m : HandoutOf(acc', m) \in {HandoutOf(a, m), NoHandout}
    BY DEF EndsWith, SettleLeaves, HandoutOf
  <2> QED
    BY <1>0, <2>1, <2>2 DEF TypeOK, IsAccount
<1>4. now - since[w] < Lease /\ (Shared(nonce[w]) \/ Holds(acc, w))
  BY <1>0 DEF PostsHold
<1>5. IdsInv'
  <2>1. PICK n : n = nonce[w]
    OBVIOUS
  <2>2. \/ h = NoHandout
        \/ h = hid[w]
        \/ h = HandoutOf(acc, n) /\ Shared(n)
    BY <1>1, <1>3, <1>4, <2>1 DEF Holds
  <2>3. h \in Nat /\ h < acc'.next
    BY <1>0, <1>1, <1>3, <2>2 DEF IdsInv, IdsBelowNext, TypeOK, NoHandout
  <2>4. Records(w, n, h)
    BY <1>2, <1>3, <2>1, <2>2, <2>3 DEF Records
  <2> QED
    BY <1>0, <2>3, <2>4, IdsKeep
<1>6. ASSUME NEW u \in Ops \ {w}, st[u] = "posting", now - since[u] < Lease,
             ~Shared(nonce[u]), Holds(acc, u)
      PROVE  Holds(acc', u)
  <2>1. Holds(a, u)
    BY <1>0, <1>6, HoldsRefreshed
  <2>2. nonce[u] # nonce[w] \/ IsUsed(a, nonce[u])
    <3> SUFFICES ASSUME nonce[u] = nonce[w], ~IsUsed(a, nonce[u]) PROVE FALSE
      OBVIOUS
    <3>1. Holds(a, w)
      BY <1>0, <1>4, <1>6, HoldsRefreshed
    <3>2. HandoutOf(a, nonce[u]) \in {NoHandout, hid[w]}
      BY <3>1 DEF Holds
    <3> QED
      BY <1>0, <1>6, <2>1, <3>2, HeldByOne
  <2>3. ASSUME NEW o, SettleLeaves(acc', a, nonce[w], o, hid[w])
        PROVE  Holds(acc', u)
    BY <1>0, <1>6, <2>1, <2>2, <2>3, HoldsSettled
  <2> QED
    BY <2>1, <2>3 DEF EndsWith
<1>7. PostsHold'
  BY <1>0, <1>1, <1>2, <1>6, PostsFrame
<1> QED
  BY <1>5, <1>7 DEF FlightInv

\* An attempt that follows another holds the nonce anew.
LEMMA FlightRenew ==
  ASSUME NodeInv, NodeInv', FlightInv, NEW w \in Ops, st[w] = "posting",
         UNCHANGED <<registrations, now, nonce>>,
         NEW a, RefreshedFrom(a, acc, now), Renews(w, a)
  PROVE  FlightInv'
<1>0. TypeOK /\ TypeOK' /\ IdsInv /\ PostsHold
  BY DEF NodeInv, FlightInv
<1>1. /\ Relet(acc', a, nonce[w], hid[w]) /\ HandoutOf(a, nonce[w]) \in {NoHandout, hid[w]}
      /\ since' = [since EXCEPT ![w] = now] /\ UNCHANGED <<st, hid>>
  BY DEF Renews
<1>2. /\ nonce'[w] = nonce[w] /\ since'[w] = now
      /\ \A u \in Ops \ {w} : /\ st'[u] = st[u] /\ nonce'[u] = nonce[u]
                             /\ hid'[u] = hid[u] /\ since'[u] = since[u]
  BY <1>0, <1>1 DEF TypeOK
<1>3. a.next = acc.next /\ \A m : HandoutOf(a, m) \in {HandoutOf(acc, m), NoHandout}
  BY DEF RefreshedFrom
<1>4. ASSUME NEW u \in Ops, ~Shared(nonce[u]), Holds(acc, u), now - since[u] < Lease
      PROVE  /\ Holds(a, u)
             /\ u # w /\ ~IsUsed(a, nonce[w]) => nonce[u] # nonce[w]
  <2>1. Holds(a, u)
    BY <1>0, <1>4, HoldsRefreshed
  <2>2. nonce[u] = nonce[w] /\ ~IsUsed(a, nonce[w]) => u = w
    BY <1>0, <1>1, <1>4, <2>1, HeldByOne
  <2> QED
    BY <2>1, <2>2
<1>5. now - now < Lease /\ now - since[w] < Lease /\ (Shared(nonce[w]) \/ Holds(acc, w))
  BY <1>0, LeaseAssumption DEF PostsHold, TypeOK
<1>6. acc.next \in Nat \ {0} /\ hid[w] \in Nat /\ hid[w] < acc.next
  BY <1>0 DEF IdsInv, IdsBelowNext, TypeOK, IsAccount
<1>7. CASE IsUsed(a, nonce[w]) /\ acc' = a
  <2>1. IdsInv'
    <3>1. PICK n : n = nonce[w]
      OBVIOUS
    <3>2. PICK h \in Nat : h = hid[w]
      BY <1>6
    <3>3. Records(w, n, h)
      BY <1>1, <1>2, <1>3, <1>6, <1>7, <3>1, <3>2 DEF Records
    <3> QED
      BY <1>0, <3>3, IdsKeep
  <2>2. Holds(acc, w)'
    BY <1>1, <1>2, <1>7 DEF Holds
  <2>3. PostsHold'
    BY <1>0, <1>2, <1>4, <1>5, <1>7, <2>2, PostsFrame
  <2> QED
    BY <2>1, <2>3 DEF FlightInv
<1>8. ASSUME ~IsUsed(a, nonce[w]), NEW h, Leased(acc', a, nonce[w], h, now),
             \/ h = hid[w] /\ h # NoHandout /\ acc'.next = a.next
             \/ h = a.next /\ acc'.next = a.next + 1 /\ hid[w] = NoHandout
      PROVE  FlightInv'
  <2>1. /\ HandoutOf(acc', nonce[w]) = h /\ nonce[w] \in DOMAIN acc'.handed
        /\ acc'.handed[nonce[w]] = now
        /\ \A m : m # nonce[w] => HandoutOf(acc', m) = HandoutOf(a, m)
    BY <1>8 DEF Leased
  <2>2. IdsInv'
    <3>1. h \in Nat /\ h < acc'.next /\ acc.next =< acc'.next
      BY <1>3, <1>6, <1>8
    <3>2. PICK n : n = nonce[w]
      OBVIOUS
    <3>3. Records(w, n, h)
      BY <1>1, <1>2, <1>3, <1>8, <2>1, <3>1, <3>2 DEF Records
    <3> QED
      BY <1>0, <3>1, <3>3, IdsKeep
  <2>3. Shared(nonce[w]) \/ Holds(acc, w)'
    <3> SUFFICES ASSUME ~Shared(nonce[w]) PROVE Holds(acc, w)'
      OBVIOUS
    <3>1. Holds(a, w)
      BY <1>4, <1>5
    <3>2. h = hid[w] /\ h # NoHandout
      BY <1>8, <3>1 DEF Holds
    <3> QED
      BY <1>1, <1>2, <2>1, <3>2 DEF Holds
  <2>4. ASSUME NEW u \in Ops \ {w}, now - since[u] < Lease, ~Shared(nonce[u]), Holds(acc, u)
        PROVE  Holds(acc', u)
    BY <1>4, <1>8, <2>4, HoldsOther
  <2>5. Shared(nonce[w])' <=> Shared(nonce[w])
    BY DEF Shared
  <2>6. PostsHold'
    BY <1>0, <1>2, <1>5, <2>3, <2>4, <2>5, PostsFrame
  <2> QED
    BY <2>2, <2>6 DEF FlightInv
<1> QED
  BY <1>1, <1>7, <1>8 DEF Relet

\* A call holds its nonce under a new id.
LEMMA FlightCalled ==
  ASSUME NodeInv, NodeInv', FlightInv, NEW w \in Ops, Called(w)
  PROVE  FlightInv'
<1>0. TypeOK /\ IsAccount(acc)
  BY DEF NodeInv, TypeOK
<1>1. ASSUME Reread(acc') PROVE UNCHANGED <<registrations, now, st, nonce, hid, since>>
  BY <1>1 DEF Reread, config
<1>2. CASE RefreshedFrom(acc', acc, now) /\ Reread(acc')
  BY <1>1, <1>2, FlightReread
<1>3. ASSUME NEW r, NEW n \in Nat, FreeOn(r, n), Reread(acc'), Returned(acc', r, n),
             acc'.next = r.next + 1
      PROVE  FlightInv'
  BY <1>1, <1>3, FlightReread
<1>4. ASSUME NEW r, NEW n \in Nat, FreeOn(r, n), NEW a, Leased(a, r, n, r.next, now),
             a.next = r.next + 1, Begin(w, n, a, FALSE)
      PROVE  FlightInv'
  <2>1. RefreshedFrom(r, acc, now) /\ r.next = acc.next
    BY <1>4 DEF FreeOn, RefreshedFrom
  <2>2. \A u \in Ops : Holds(r, u) => nonce[u] # n
    BY <1>4 DEF FreeOn, Holds
  <2>3. PICK h : h = acc.next
    OBVIOUS
  <2>4. Leased(a, r, n, h, now) /\ a.next = acc.next + 1
    BY <1>4, <2>1, <2>3
  <2>5. MayBegin(w, n, r, a)
    BY <2>2, <2>3, <2>4 DEF MayBegin
  <2> QED
    BY <1>4, <2>1, <2>5, FlightBegin
<1>5. ASSUME w \in registrations, NEW a, Begin(w, 1, a, FALSE),
             \/ a = acc
             \/ Leased(a, acc, 1, acc.next, now) /\ a.next = acc.next + 1
      PROVE  FlightInv'
  <2>1. RefreshedFrom(acc, acc, now) /\ Shared(1) /\ 1 \in Nat
    BY <1>0, <1>5, RefreshedSelf DEF Shared
  <2>2. \A u \in Ops : ~Shared(nonce[u]) => nonce[u] # 1
    BY <1>5 DEF Shared
  <2>3. PICK r : r = acc
    OBVIOUS
  <2>4. MayBegin(w, 1, r, a)
    BY <1>5, <2>1, <2>2, <2>3 DEF MayBegin
  <2> QED
    BY <1>5, <2>1, <2>3, <2>4, FlightBegin
<1>6. CASE w \in registrations /\ Reread(acc') /\ Returned(acc', acc, 1) /\ acc'.next >= acc.next
  <2>1. Shared(1)
    BY <1>6 DEF Shared
  <2> QED
    BY <1>1, <1>6, <2>1, FlightReread
<1> QED
  BY <1>2, <1>3, <1>4, <1>5, <1>6 DEF Called

\* A resubmission holds its nonce again, under the id it had.
LEMMA FlightResubmit ==
  ASSUME NodeInv, NodeInv', FlightInv, NEW w \in Ops,
         NEW a, RefreshedFrom(a, acc, now), Resubmitted(w, a)
  PROVE  FlightInv'
<1>0. TypeOK /\ IdsInv /\ a.next = acc.next
  BY DEF NodeInv, FlightInv, RefreshedFrom
<1>1. CASE acc' = a /\ UNCHANGED <<config, now, st, nonce, hid, since>>
  BY <1>1, FlightReread DEF config
<1>2. ASSUME NEW b, HandoutOf(a, nonce[w]) \in {NoHandout, hid[w]},
             Relet(b, a, nonce[w], hid[w]), Begin(w, nonce[w], b, TRUE)
      PROVE  FlightInv'
  <2>1. nonce[w] \in Nat
    BY <1>0 DEF TypeOK
  <2>2. ~IsUsed(a, nonce[w]) =>
          \A u \in Ops \ {w} : ~Shared(nonce[u]) /\ Holds(a, u) => nonce[u] # nonce[w]
    BY <1>0, <1>2, HeldByOne
  <2>3. CASE IsUsed(a, nonce[w]) /\ b = a
    BY <1>2, <2>1, <2>3, FlightBegin DEF MayBegin
  <2>4. CASE ~IsUsed(a, nonce[w]) /\ hid[w] # NoHandout
             /\ Leased(b, a, nonce[w], hid[w], now) /\ b.next = a.next
    <3>1. MayBegin(w, nonce[w], a, b)
      BY <1>0, <1>2, <2>2, <2>4 DEF MayBegin
    <3> QED
      BY <1>2, <2>1, <3>1, FlightBegin
  <2>5. CASE ~IsUsed(a, nonce[w]) /\ Leased(b, a, nonce[w], a.next, now)
             /\ b.next = a.next + 1
    <3>1. MayBegin(w, nonce[w], a, b)
      BY <1>0, <1>2, <2>2, <2>5 DEF MayBegin
    <3> QED
      BY <1>2, <2>1, <3>1, FlightBegin
  <2> QED
    BY <1>2, <2>3, <2>4, <2>5 DEF Relet
<1> QED
  BY <1>1, <1>2 DEF Resubmitted, Begin

\* A step that touches neither the account nor what a write in flight holds.
LEMMA FlightQuiet ==
  ASSUME FlightInv, UNCHANGED <<registrations, acc, nonce, hid>>,
         \A w \in Ops : st'[w] = "posting" =>
           st[w] = "posting" /\ since'[w] = since[w] /\ now' - since'[w] < Lease
  PROVE  FlightInv'
<1>1. \A w \in Ops : Holds(acc, w) /\ since'[w] = since[w] => Holds(acc, w)'
  BY DEF Holds
<1>2. PostsHold'
  BY <1>1 DEF FlightInv, PostsHold, Shared
<1>3. IdsInv'
  BY DEF FlightInv, IdsInv, IdsBelowNext, RecordsDistinct, IdsOfNonce, OwnIds, Shared
<1> QED
  BY <1>2, <1>3 DEF FlightInv

\* While attempts end within a lease, every write in flight holds its nonce.
LEMMA NextFlight == NodeInv /\ NodeInv' /\ timely /\ FlightInv /\ [Next]_vars => FlightInv'
<1> SUFFICES ASSUME NodeInv, NodeInv', timely, FlightInv, [Next]_vars
             PROVE  FlightInv'
  OBVIOUS
<1>1. TypeOK /\ \A w \in Ops : st[w] = "posting" => now - since[w] < Lease
  BY DEF NodeInv, FlightInv, PostsHold
<1>2. ASSUME NEW w \in Ops, Called(w)
      PROVE  FlightInv'
  BY <1>2, FlightCalled
<1>3. ASSUME NEW w \in Ops, Attempted(w)
      PROVE  FlightInv'
  <2>1. st[w] = "posting" /\ UNCHANGED <<registrations, now, nonce>>
    BY <1>3 DEF Attempted, config
  <2>2. PICK a : /\ RefreshedFrom(a, acc, now)
                 /\ \/ Renews(w, a)
                    \/ \E s : \E h : EndsWith(w, s, h, a)
    BY <1>3 DEF Attempted
  <2> QED
    BY <2>1, <2>2, FlightRenew, FlightEnd
<1>4. ASSUME NEW w \in Ops, Cancel(w)
      PROVE  FlightInv'
  <2>1. UNCHANGED <<registrations, acc, now, nonce>>
    BY <1>4 DEF Cancel, config
  <2>2. /\ st' = [st EXCEPT ![w] = "kept"] /\ since' = [since EXCEPT ![w] = 0]
        /\ hid' = [hid EXCEPT ![w] = hid[w]]
    BY <1>4 DEF Cancel, Kept, Ends
  <2>3. hid' = hid
    BY <1>1, <2>2 DEF TypeOK
  <2>4. \A u \in Ops : st'[u] = "posting" => st[u] = "posting" /\ since'[u] = since[u]
    BY <1>1, <2>2 DEF TypeOK
  <2> QED
    BY <1>1, <2>1, <2>3, <2>4, FlightQuiet
<1>5. ASSUME NEW w \in Ops, Resubmit(w)
      PROVE  FlightInv'
  <2>1. \E a : RefreshedFrom(a, acc, now) /\ Resubmitted(w, a)
    BY <1>1, <1>5, ResubmitFacts
  <2> QED
    BY <2>1, FlightResubmit
<1>6. ASSUME NEW w \in Ops, Answered(w) \/ NoAnswer(w)
      PROVE  FlightInv'
  <2>1. UNCHANGED <<registrations, acc, now, st, nonce, hid, since>>
    BY <1>6 DEF Answered, NoAnswer, config
  <2> QED
    BY <1>1, <2>1, FlightQuiet
<1>7. CASE UNCHANGED clientVars
  <2>1. UNCHANGED <<registrations, acc, now, st, nonce, hid, since>>
    BY <1>7 DEF clientVars, config
  <2> QED
    BY <1>1, <2>1, FlightQuiet
<1>8. CASE Tick
  <2>1. UNCHANGED <<registrations, acc, st, nonce, hid, since>> /\ now' = now + 1
    BY <1>8 DEF Tick, config
  <2>2. \A w \in Ops : st[w] = "posting" => now + 1 - since[w] < Lease
    BY <1>8 DEF Tick
  <2>3. \A w \in Ops : now + 1 - since[w] = now' - since'[w]
    BY <1>1, <2>1 DEF TypeOK
  <2> QED
    BY <2>1, <2>2, <2>3, FlightQuiet
<1> QED
  BY <1>2, <1>3, <1>4, <1>5, <1>6, <1>7, <1>8, NextCases DEF vars

\* Whether attempts end in time is the request timeout's, which never changes.
LEMMA TimelyFixed == [Next]_vars => timely' = timely
<1> SUFFICES ASSUME [Next]_vars PROVE timely' = timely
  OBVIOUS
<1>1. ASSUME NEW w \in Ops, SignAndBroadcast(w) \/ RegisterDid(w) \/ Resubmit(w)
      PROVE  timely' = timely
  BY <1>1 DEF SignAndBroadcast, RegisterDid, Resubmit, Begin, Reread, config
<1>2. ASSUME NEW w \in Ops,
             Answered(w) \/ NoAnswer(w) \/ Handle(w) \/ Retry(w) \/ Cancel(w)
      PROVE  timely' = timely
  BY <1>2 DEF Answered, NoAnswer, Handle, Retry, Cancel, config
<1>3. CASE UNCHANGED clientVars \/ Tick
  BY <1>3 DEF clientVars, Tick, config
<1> QED
  BY <1>1, <1>2, <1>3 DEF Next, vars

\* While attempts end within a lease, no two writes are in flight under one
\* unused nonce: each renews the lease its nonce has under its own id, and no
\* other write has that id.
THEOREM OneIsInFlight == Spec => []OneInFlight
<1>1. Init => FlightInv
  <2> SUFFICES ASSUME Init PROVE FlightInv
    OBVIOUS
  <2>1. acc.next = 1 /\ \A n : HandoutOf(acc, n) = NoHandout
    BY DEF Init, NewAccount, HandoutOf
  <2>2. \A w \in Ops : hid[w] = NoHandout /\ st[w] # "posting"
    BY DEF Init
  <2>3. IdsInv
    BY <2>1, <2>2 DEF IdsInv, IdsBelowNext, RecordsDistinct, IdsOfNonce, OwnIds, NoHandout
  <2>4. PostsHold
    BY <2>2 DEF PostsHold
  <2> QED
    BY <2>3, <2>4 DEF FlightInv
<1>2. NodeInv /\ NodeInv' /\ (timely => FlightInv) /\ [Next]_vars => (timely => FlightInv)'
  BY NextFlight, TimelyFixed
<1>3. NodeInv /\ (timely => FlightInv) => OneInFlight
  <2> SUFFICES ASSUME timely, FlightInv, NEW v \in Ops, NEW w \in Ops,
                      st[v] = "posting", st[w] = "posting", nonce[v] = nonce[w],
                      ~IsUsed(acc, nonce[v]), nonce[v] # 1 \/ registrations = {}
               PROVE  v = w
    BY DEF OneInFlight
  <2>1. ~Shared(nonce[v])
    BY DEF Shared
  <2>2. Holds(acc, v) /\ Holds(acc, w)
    BY <2>1 DEF FlightInv, PostsHold
  <2> QED
    BY <2>1, <2>2, HeldByOne DEF FlightInv, Holds
<1> QED
  BY <1>1, <1>2, <1>3, BroadcastInvariant, PTL DEF Spec
=============================================================================
