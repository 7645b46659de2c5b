---------------------------- MODULE NonceTracker ----------------------------
(***************************************************************************)
(* The nonces one client hands out for one DID: NonceTracker of            *)
(* src/willow/nonces.py under every sequence of calls its two callers,     *)
(* WillowClient and ConsensusClient, can make.                             *)
(*                                                                         *)
(* acc and now are the tracker's account and its clock.  The other         *)
(* variables are history: they are read by properties and by the guards    *)
(* that say who may call what, never by the tracker.                       *)
(***************************************************************************)
EXTENDS NonceAccount

CONSTANTS
  Rpc,          \* whether the client has a consensus RPC to trust
  MaxBase,      \* bound: the highest base an answer gives
  MaxTime,      \* bound: the clock
  MaxHandouts   \* bound: hand-outs made

ASSUME RpcAssumption == Rpc \in BOOLEAN
ASSUME BoundsAssumption == MaxBase \in Nat /\ MaxTime \in Nat /\ MaxHandouts \in Nat

VARIABLES
  acc,        \* the account (NonceAccount)
  now,        \* the clock
  nonceOf,    \* history: hand-out id -> the nonce it is of
  leasedAt,   \* history: hand-out id -> when it was made or last renewed
  back,       \* history: ids given back (refused or never sent)
  over,       \* history: ids whose nonce a RegisterDid's hold took over
  readopted,  \* history: ids reclaimed after the tracker had lost their record
  dropped     \* history: trust_base has lowered the base

vars == <<acc, now, nonceOf, leasedAt, back, over, readopted, dropped>>
history == <<nonceOf, leasedAt, back, over, readopted, dropped>>

Ids == DOMAIN nonceOf

Init ==
  /\ acc = NewAccount
  /\ now = 0
  /\ nonceOf = << >>
  /\ leasedAt = << >>
  /\ back = {}
  /\ over = {}
  /\ readopted = {}
  /\ dropped = FALSE

-----------------------------------------------------------------------------
\* _nonce_state without a consensus RPC, or while its query fails: the API's
\* base, taken only up to the last trusted one.
ApiBase(b) == IF Rpc /\ acc.trusted # NoBase THEN Smaller(b, acc.trusted) ELSE b

\* The node's answers a call can be given: the API answers a base alone; the
\* RPC, whose base trust_base recorded just before, also the nonces above it
\* that are used.
ApiAnswers == {[base |-> ApiBase(b), used |-> {}] : b \in 0..MaxBase}
RpcAnswers ==
  {a \in [base : 0..MaxBase, used : SUBSET (1..(MaxBase + Window))] :
     Rpc /\ a.base =< acc.trusted /\ a.used \subseteq (a.base + 1)..(a.base + Window)}
Answers == ApiAnswers \cup RpcAnswers

\* The account as a call leaves it once it has taken in some answer.
Refreshed == {Refresh(acc, a.base, now, a.used) : a \in Answers}

\* The history of a hand-out of n.
Recorded(n) ==
  /\ nonceOf' = Put(nonceOf, acc.next, n)
  /\ leasedAt' = Put(leasedAt, acc.next, now)

\* observe(), by wait_until_landed: with a consensus RPC only its answers.
Observe ==
  /\ \E a \in (IF Rpc THEN RpcAnswers ELSE ApiAnswers) : acc' = Refresh(acc, a.base, now, a.used)
  /\ UNCHANGED <<now, history>>

TrustBase ==
  /\ Rpc
  /\ \E b \in 0..MaxBase :
       /\ acc' = TrustedBase(acc, b)
       /\ dropped' = (dropped \/ acc'.base < acc.base)
  /\ UNCHANGED <<now, nonceOf, leasedAt, back, over, readopted>>

\* take(): the lowest free nonce of the window.
Take ==
  /\ acc.next =< MaxHandouts
  /\ \E r \in Refreshed : \E n \in FreeNonces(r) :
       /\ IsLowest(n, FreeNonces(r))
       /\ acc' = HandOut(r, n, now)
       /\ Recorded(n)
  /\ UNCHANGED <<now, back, over, readopted, dropped>>

\* take() answering None: the window is full.
TakeNone ==
  /\ \E r \in Refreshed : FreeNonces(r) = {} /\ acc' = r
  /\ UNCHANGED <<now, history>>

\* claim(): a nonce the caller chose, refused unless it is free.
Claim ==
  /\ acc.next =< MaxHandouts
  /\ \E r \in Refreshed, n \in 1..(MaxBase + Window) :
       IF Claimable(r, n)
         THEN acc' = HandOut(r, n, now) /\ Recorded(n)
         ELSE acc' = r /\ UNCHANGED <<nonceOf, leasedAt>>
  /\ UNCHANGED <<now, back, over, readopted, dropped>>

\* hold(did, 1): a RegisterDid signs nonce 1 whoever holds it.
Hold ==
  /\ acc.next =< MaxHandouts
  /\ acc' = HoldNonce(acc, 1, now)
  /\ IF acc.base < 1
       THEN Recorded(1) /\ over' = over \cup {i \in Ids : nonceOf[i] = 1}
       ELSE UNCHANGED <<nonceOf, leasedAt, over>>
  /\ UNCHANGED <<now, back, readopted, dropped>>

\* reclaim(), before a resubmission or a retry of hand-out i: never of one
\* given back, whose error carries no transaction to send again.
Reclaim(i) ==
  LET n == nonceOf[i]
      r == Refresh(acc, acc.base, now, {})
      a == Reclaimed(r, n, i, now)
  IN /\ i \notin back
     /\ acc' = a
     /\ IF ReclaimGranted(r, n, i) /\ ~IsUsed(r, n)
          THEN /\ leasedAt' = Put(leasedAt, i, now)
               /\ over' = over \ {i}
               /\ readopted' = IF HandoutOf(r, n) = NoHandout
                                 THEN readopted \cup {i} ELSE readopted
          ELSE UNCHANGED <<leasedAt, over, readopted>>
     /\ UNCHANGED <<now, nonceOf, back, dropped>>

\* settle() by the submission of hand-out i.
SettleHandout(i, outcome) ==
  /\ acc' = Settle(acc, nonceOf[i], outcome, i)
  /\ back' = IF outcome = Free THEN back \cup {i} ELSE back
  /\ UNCHANGED <<now, nonceOf, leasedAt, over, readopted, dropped>>

\* release() when signing fails: it names no hand-out, and follows the
\* hand-out with no call in between.
ReleaseUnsigned ==
  /\ \E i \in Ids :
       /\ i = acc.next - 1
       /\ HandoutOf(acc, nonceOf[i]) = i
       /\ acc' = Settle(acc, nonceOf[i], Free, NoHandout)
       /\ back' = back \cup {i}
  /\ UNCHANGED <<now, nonceOf, leasedAt, over, readopted, dropped>>

Tick ==
  /\ now < MaxTime
  /\ now' = now + 1
  /\ UNCHANGED <<acc, history>>

Next ==
  \/ Observe \/ TrustBase
  \/ Take \/ TakeNone \/ Claim \/ Hold
  \/ \E i \in Ids : Reclaim(i)
  \/ \E i \in Ids, outcome \in Outcomes : SettleHandout(i, outcome)
  \/ ReleaseUnsigned
  \/ Tick

Spec == Init /\ [][Next]_vars

-----------------------------------------------------------------------------
\* The account has the shape _Account declares, and the history one entry
\* per hand-out.
TypeOK ==
  /\ IsAccount(acc)
  /\ now \in Nat
  /\ nonceOf \in [1..(acc.next - 1) -> Nat]
  /\ leasedAt \in [1..(acc.next - 1) -> Nat]
  /\ back \subseteq Nat
  /\ over \subseteq Nat
  /\ readopted \subseteq Nat
  /\ dropped \in BOOLEAN

\* A hand-out still entitled to its nonce: not given back, within its lease,
\* and its nonce not known used.
Live(i) ==
  /\ i \notin back \cup over
  /\ now - leasedAt[i] < Lease
  /\ ~IsUsed(acc, nonceOf[i])

\* What keeps a live nonce from a second write: it is in handed with the time
\* of its lease, under its own hand-out.
LeaseRecorded ==
  ~dropped =>
    \A i \in Ids : Live(i) =>
      /\ nonceOf[i] \in DOMAIN acc.handed
      /\ acc.handed[nonceOf[i]] = leasedAt[i]
      /\ HandoutOf(acc, nonceOf[i]) = i

\* No two hand-outs of one nonce are live at once, whatever is taken, claimed,
\* resubmitted, settled late or observed out of order: two writes in flight
\* never share a nonce (README "each get their own").  It is claimed while
\* trust_base has not lowered the base.
LeaseExclusive ==
  ~dropped =>
    \A i, j \in Ids : Live(i) /\ Live(j) /\ nonceOf[i] = nonceOf[j] => i = j

\* The record of which hand-out a nonce went to is of that nonce, and names
\* the latest hand-out of it unless an older one was reclaimed after the
\* record was lost: what still_handed_to and reclaim decide from.
RecordIsLatest ==
  \A n \in DOMAIN acc.handout :
    LET h == acc.handout[n]
    IN /\ h \in Ids /\ nonceOf[h] = n
       /\ h \notin readopted => \A j \in Ids : nonceOf[j] = n => j =< h

\* Every nonce that is handed out has a record of who it went to, so a
\* refusal that arrives late can tell whether the nonce is still its own.
HandedRecorded == DOMAIN acc.handed \subseteq DOMAIN acc.handout

\* What the tracker's decisions rest on, however calls, answers and expiries
\* interleave: every live hand-out is in handed, with the time of its lease and
\* under its own id; a handed nonce has a record of who it went to, which
\* pruning never drops first; and a record names the latest hand-out, so a late
\* refusal or a resubmission cannot pass for it.  It is the inductive invariant
\* of NonceTrackerProofs.
IInv == TypeOK /\ LeaseRecorded /\ RecordIsLatest /\ HandedRecorded

\* "A nonce once used stays used" (nonces.py:175): whatever answer comes next,
\* in whatever order, unless trust_base lowers the base.
UsedStaysUsed ==
  [][~dropped' => \A n \in 0..(MaxBase + Window) : IsUsed(acc, n) => IsUsed(acc', n)]_vars

\* A nonce known used is never handed out again by take or claim, whatever
\* base the call is given (a RegisterDid has no other nonce to sign).
UsedNeverHandedOut ==
  [][~Hold => \A i \in DOMAIN nonceOf' \ Ids : ~IsUsed(acc, nonceOf'[i])]_vars

\* A trusted base bounds the base the client hands out nonces from: an API
\* that answers a base too high cannot move the window past the node's.
TrustedCapsBase == acc.trusted # NoBase => acc.base =< acc.trusted

\* Only the first trusted answer can lower the base: from then on leases and
\* used nonces are forgotten for good reasons alone.
DropsOnlyOnFirstTrust == [][acc.trusted # NoBase => acc'.base >= acc.base]_vars
=============================================================================
