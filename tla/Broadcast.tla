----------------------------- MODULE Broadcast ------------------------------
(***************************************************************************)
(* The writes of one identity through ConsensusClient                      *)
(* (src/willow/consensus/client.py).  It keeps the nonce protocol of       *)
(* nonces.py without a trusted state, and adds retries: an attempt that    *)
(* fails in transit is made again at once with the same bytes, after the   *)
(* nonce's lease was renewed, up to max_retries times.  What the client    *)
(* does between two awaits is one action; an attempt is the node's answer, *)
(* or the lack of one, and the client's reading of it.                     *)
(***************************************************************************)
EXTENDS NonceAccount, TxNode

CONSTANTS
  Retries,           \* max_retries
  MaxRegistrations,  \* how many of the writes may be RegisterDids
  TimelyModes,       \* whether an attempt always ends within a lease
  MaxTime,           \* bound: the clock
  MaxHandouts        \* bound: nonces handed out

ASSUME RetriesAssumption == Retries \in Nat
ASSUME RegistrationsAssumption == MaxRegistrations \in Nat
ASSUME TimelyAssumption == TimelyModes \subseteq BOOLEAN

VARIABLES
  registrations,  \* the writes that are RegisterDids, always under nonce 1
  timely,         \* whether request_timeout_secs is below the lease
  acc, now,       \* the tracker's account of the DID, and its clock
  st,             \* write -> where it stands
  nonce,          \* write -> the nonce it is signed under
  hid,            \* write -> the _handout of the broadcast under way, or of its error
  again,          \* write -> the broadcast under way is a resubmission
  attempt,        \* write -> attempts that have ended
  maybeSent,      \* write -> one of those may have reached the node
  since,          \* write -> when the attempt under way began
  reply,          \* write -> the answer that came and is not read yet
  interrupted     \* interrupted_writes: nonce -> write

config == <<registrations, timely>>
clientVars == <<config, acc, now, st, nonce, hid, again, attempt, maybeSent, since, reply,
                interrupted>>
vars == <<clientVars, nodeVars>>

States == {"idle", "posting", "accepted", "kept", "used", "failed"}
Replies == {"none", "ok", "refused", "held", "used", "gateway", "never", "lost"}

TxOf(w) == Tx(w, nonce[w])

Init ==
  /\ NodeInit
  /\ registrations \in {S \in SUBSET Ops : Cardinality(S) =< MaxRegistrations}
  /\ timely \in TimelyModes
  /\ acc = NewAccount
  /\ now = 0
  /\ st = [w \in Ops |-> "idle"]
  /\ nonce = [w \in Ops |-> 0]
  /\ hid = [w \in Ops |-> NoHandout]
  /\ again = [w \in Ops |-> FALSE]
  /\ attempt = [w \in Ops |-> 0]
  /\ maybeSent = [w \in Ops |-> FALSE]
  /\ since = [w \in Ops |-> 0]
  /\ reply = [w \in Ops |-> "none"]
  /\ interrupted = << >>

-----------------------------------------------------------------------------
\* The first attempt of a broadcast of w, under the hand-out recorded in a,
\* which renew() refreshes and, so soon, never refuses.
Begin(w, n, a, resubmission) ==
  /\ acc' = Refresh(a, a.base, now, {})
  /\ st' = [st EXCEPT ![w] = "posting"]
  /\ nonce' = [nonce EXCEPT ![w] = n]
  /\ hid' = [hid EXCEPT ![w] = HandoutOf(a, n)]
  /\ again' = [again EXCEPT ![w] = resubmission]
  /\ attempt' = [attempt EXCEPT ![w] = 0]
  /\ maybeSent' = [maybeSent EXCEPT ![w] = FALSE]
  /\ since' = [since EXCEPT ![w] = now]
  /\ reply' = [reply EXCEPT ![w] = "none"]
  /\ UNCHANGED <<config, now, nodeVars>>

\* A write is called: the first time, or again after an error or result that
\* carries no transaction.
MayCall(w) == st[w] \in {"idle", "failed"} /\ acc.next =< MaxHandouts

\* _get_account_nonce: the base after some of the blocks, which take refreshes to.
Reads == {Refresh(acc, BaseAfter(k), now, {}) : k \in Answers}

\* Nothing is sent; the tracker keeps what the call made of the account.
Reread(a) ==
  /\ acc' = a
  /\ UNCHANGED <<config, now, st, nonce, hid, again, attempt, maybeSent, since, reply,
                 interrupted, nodeVars>>

\* _sign_and_broadcast takes the lowest free nonce, reading the account again
\* later while there is none; when signing fails, the nonce is given back.
SignAndBroadcast(w) ==
  /\ MayCall(w) /\ w \notin registrations
  /\ \E a \in Reads :
       IF FreeNonces(a) = {} THEN Reread(a)
       ELSE \E n \in FreeNonces(a) :
              /\ IsLowest(n, FreeNonces(a))
              /\ LET taken == HandOut(a, n, now)
                 IN \/ Begin(w, n, taken, FALSE) /\ UNCHANGED interrupted
                    \/ Reread(Settle(taken, n, Free, NoHandout))

\* A RegisterDid holds nonce 1 whoever has it; when signing fails, nonce 1 is
\* given back whoever had it, since the release names no hand-out.
RegisterDid(w) ==
  /\ MayCall(w) /\ w \in registrations
  /\ LET held == HoldNonce(acc, 1, now)
     IN \/ Begin(w, 1, held, FALSE) /\ UNCHANGED interrupted
        \/ Reread(Settle(held, 1, Free, NoHandout))

-----------------------------------------------------------------------------
\* The request reaches the node, and the API's answer comes back.
Answered(w) ==
  /\ st[w] = "posting" /\ reply[w] = "none"
  /\ \E answer \in CheckTx(TxOf(w)) :
       /\ reply' = [reply EXCEPT ![w] = answer]
       /\ mempool' = Admitted(TxOf(w), answer)
  /\ UNCHANGED <<config, acc, now, st, nonce, hid, again, attempt, maybeSent, since,
                 interrupted, landed, net>>

\* It fails: no connection was made ("never"), or it was lost after that
\* ("lost").  Or the API answers a gateway error, or that the nonce is used,
\* whatever it passed on.  But for the first a copy may still arrive.
NoAnswer(w) ==
  /\ st[w] = "posting" /\ reply[w] = "none"
  /\ \E answer \in {"never", "lost", "gateway", "used"} :
       /\ reply' = [reply EXCEPT ![w] = answer]
       /\ net' = IF answer = "never" THEN net ELSE net \cup {TxOf(w)}
  /\ UNCHANGED <<config, acc, now, st, nonce, hid, again, attempt, maybeSent, since,
                 interrupted, mempool, landed>>

\* The broadcast of w ends in s, and with it what is local to it.
Ends(w, s) ==
  /\ st' = [st EXCEPT ![w] = s]
  /\ again' = [again EXCEPT ![w] = FALSE]
  /\ attempt' = [attempt EXCEPT ![w] = 0]
  /\ maybeSent' = [maybeSent EXCEPT ![w] = FALSE]
  /\ since' = [since EXCEPT ![w] = 0]
  /\ reply' = [reply EXCEPT ![w] = "none"]

\* Its error or result carries the transaction and a hand-out, or neither.
Kept(w, h) == Ends(w, "kept") /\ hid' = [hid EXCEPT ![w] = h]
Told(w, s) == Ends(w, s) /\ hid' = [hid EXCEPT ![w] = NoHandout]

\* refusal_outcome of an answer; once another copy may have reached the node,
\* only that the nonce is used is taken at its word.
OutcomeOf(answer, resent) ==
  IF answer = "used" THEN Used
  ELSE IF answer = "gateway" \/ resent THEN Unknown
  ELSE IF answer = "held" THEN Held ELSE Free

\* The client reads a CheckTx answer, or a gateway's.  A nonce that is used
\* raises with the transaction and the hand-out recorded then, but for a
\* RegisterDid, whose result says so.  A resubmission returns its result, and
\* what it was called with can still be sent again.
Handle(w) ==
  LET outcome == OutcomeOf(reply[w], maybeSent[w] \/ again[w])
      left == Settle(acc, nonce[w], outcome, hid[w])
  IN /\ st[w] = "posting" /\ reply[w] \notin {"none", "never", "lost"}
     /\ acc' = IF reply[w] = "ok" THEN acc ELSE left
     /\ IF reply[w] = "ok" THEN Told(w, "accepted")
        ELSE IF outcome = Used /\ ~again[w]
          THEN IF w \in registrations THEN Told(w, "used")
               ELSE Kept(w, HandoutOf(left, nonce[w]))
        ELSE IF outcome \in {Used, Unknown} THEN Kept(w, hid[w])
        ELSE Told(w, "failed")
     /\ UNCHANGED <<config, now, nonce, interrupted, nodeVars>>

\* Mutant of MaybeSent: only the last attempt counts.
MaybeSentLast(w) == reply[w] = "lost"

\* Whether this attempt or an earlier one may have reached the node.
MaybeSent(w) == maybeSent[w] \/ reply[w] = "lost"

\* No attempt is left, or the nonce went to another write: the error carries
\* the transaction, unless nothing can have left and this was no resubmission.
GivesUp(w, a) ==
  IF MaybeSent(w) \/ again[w] THEN acc' = a /\ Kept(w, hid[w])
  ELSE acc' = Settle(a, nonce[w], Free, hid[w]) /\ Told(w, "failed")

\* Mutant of Renewed: the retries keep the lease the first attempt began.
RenewedNot(a, w) == a

\* renew: the lease of w's nonce starts anew.
Renewed(a, w) == Reclaimed(a, nonce[w], hid[w], now)

\* An attempt failed in transit: the same bytes are sent again at once,
\* unless this was the last attempt or the nonce is no longer w's.
Retry(w) ==
  LET a == Refresh(acc, acc.base, now, {})
  IN /\ st[w] = "posting" /\ reply[w] \in {"never", "lost"}
     /\ IF attempt[w] = Retries THEN GivesUp(w, acc)
        ELSE IF ~ReclaimGranted(a, nonce[w], hid[w]) THEN GivesUp(w, a)
        ELSE /\ acc' = Renewed(a, w)
             /\ attempt' = [attempt EXCEPT ![w] = @ + 1]
             /\ maybeSent' = [maybeSent EXCEPT ![w] = MaybeSent(w)]
             /\ since' = [since EXCEPT ![w] = now]
             /\ reply' = [reply EXCEPT ![w] = "none"]
             /\ UNCHANGED <<st, hid, again>>
     /\ UNCHANGED <<config, now, nonce, interrupted, nodeVars>>

\* The task is cancelled while an attempt is in flight.
Cancel(w) ==
  /\ st[w] = "posting"
  /\ Kept(w, hid[w])
  /\ interrupted' = Put(interrupted, nonce[w], w)
  /\ net' = IF reply[w] = "none" THEN net \cup {TxOf(w)} ELSE net
  /\ UNCHANGED <<config, acc, now, nonce, mempool, landed>>

\* resubmit: the same bytes under the same nonce, unless it went to another
\* write since; then it raises and nothing is sent.
Resubmit(w) ==
  LET n == nonce[w]
      a == Refresh(acc, acc.base, now, {})
  IN /\ st[w] = "kept"
     /\ acc.next =< MaxHandouts + 1
     /\ interrupted' = IF n \in DOMAIN interrupted /\ interrupted[n] = w
                         THEN Pop(interrupted, n) ELSE interrupted
     /\ IF ReclaimGranted(a, n, hid[w])
          THEN Begin(w, n, Reclaimed(a, n, hid[w], now), TRUE)
          ELSE /\ acc' = a
               /\ UNCHANGED <<config, now, st, nonce, hid, again, attempt, maybeSent, since,
                              reply, nodeVars>>

Tick ==
  /\ now < MaxTime
  /\ timely => \A w \in Ops : st[w] = "posting" => now + 1 - since[w] < Lease
  /\ now' = now + 1
  /\ UNCHANGED <<config, acc, st, nonce, hid, again, attempt, maybeSent, since, reply,
                 interrupted, nodeVars>>

Next ==
  \/ \E w \in Ops :
       \/ SignAndBroadcast(w) \/ RegisterDid(w)
       \/ Answered(w) \/ NoAnswer(w) \/ Handle(w) \/ Retry(w) \/ Cancel(w) \/ Resubmit(w)
  \/ NodeStep /\ UNCHANGED clientVars
  \/ Tick

Spec == Init /\ [][Next]_vars

-----------------------------------------------------------------------------
\* The promise made of each write (WritePromise).  A RegisterDid told that
\* its nonce is used has no transaction to send again, and is not called again.
Status(w) ==
  CASE st[w] = "posting" -> IF again[w] THEN "resent" ELSE "sent"
    [] st[w] = "used" -> "kept"
    [] OTHER -> st[w]
RunsOf(w) == Cardinality({i \in 1..Len(landed) : landed[i].op = w})

Promise == INSTANCE WritePromise
             WITH status <- [w \in Ops |-> Status(w)], runs <- [w \in Ops |-> RunsOf(w)]

\* A write runs at most once, whatever its attempts and resubmissions met, and
\* one whose error carries no transaction never ran and never will unless it
\* is called again (_sign_and_broadcast: "a second copy under another nonce
\* would run it twice").
KeepsPromise == Promise!Spec

\* While attempts end within a lease, no two writes are in flight under a
\* nonce not known used, however many attempts each makes: every attempt
\* renews the lease and stops when the nonce went to another write.  Under a
\* used nonce whose record is gone, resubmit takes any write that had it, and
\* a RegisterDid holds nonce 1 whoever has it.
OneInFlight ==
  timely =>
    \A v, w \in Ops :
      /\ st[v] = "posting" /\ st[w] = "posting"
      /\ nonce[v] = nonce[w] /\ ~IsUsed(acc, nonce[v])
      /\ nonce[v] # 1 \/ registrations = {}
      => v = w
=============================================================================
