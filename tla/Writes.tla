------------------------------- MODULE Writes -------------------------------
(***************************************************************************)
(* The writes of one identity through WillowClient (src/willow/client.py): *)
(* a nonce is taken, the transaction signed and posted, and the answer, or *)
(* the lack of one, decides what becomes of the nonce and whether the      *)
(* write may be called again (_submit_under_nonce, _submit_signed), sent   *)
(* again as it was (resubmit), or waited on (wait_until_landed).           *)
(*                                                                         *)
(* The client is one asyncio thread: what it does between two awaits is    *)
(* one action.  A post is two: the node answers (Answered, NoAnswer), and  *)
(* the client reads the answer later (Handle), with other writes, blocks   *)
(* and lease expiries in between; nothing bounds a post by the lease.      *)
(***************************************************************************)
EXTENDS NonceAccount, TxNode

CONSTANTS
  MaxRegistrations,  \* how many of the writes may be RegisterDids
  Modes,   \* [rpc, timely, handouts]: whether there is a consensus RPC, whether a post
           \* always ends within its nonce's lease; bound: nonces handed out
  MaxTime  \* bound: the clock

ASSUME RegistrationsAssumption == MaxRegistrations \in Nat
ASSUME ModesAssumption == Modes \subseteq [rpc : BOOLEAN, timely : BOOLEAN, handouts : Nat]

VARIABLES
  registrations,  \* the writes that are RegisterDids, always under nonce 1
  mode,         \* whether consensus_rpc_url is set, and three times the client's
                \* timeout is below the lease
  acc, now,     \* the tracker's account of the DID, and its clock
  st,           \* write -> where it stands
  nonce,        \* write -> the nonce it is signed under
  hid,          \* write -> the _handout its result or error carries
  resub,        \* write -> the post in flight is a resubmission
  reply,        \* write -> the answer that came and is not read yet
  interrupted,  \* interrupted_writes: nonce -> write
  open,         \* history: writes cancelled and not resubmitted since
  born,         \* history: write -> how many hand-outs there were when signed
  readopted     \* history: writes resubmitted when the nonce had no record

config == <<registrations, mode>>
clientVars == <<config, acc, now, st, nonce, hid, resub, reply, interrupted, open, born, readopted>>
vars == <<clientVars, nodeVars>>

States == {"idle", "posting", "accepted", "kept", "failed", "landed"}
Replies == {"none", "ok", "refused", "held", "used", "unknown", "never"}

rpc == mode.rpc
timely == mode.timely

TxOf(w) == Tx(w, nonce[w])

Init ==
  /\ NodeInit
  /\ registrations \in {S \in SUBSET Ops : Cardinality(S) =< MaxRegistrations}
  /\ mode \in Modes
  /\ acc = NewAccount
  /\ now = 0
  /\ st = [w \in Ops |-> "idle"]
  /\ nonce = [w \in Ops |-> 0]
  /\ hid = [w \in Ops |-> NoHandout]
  /\ resub = [w \in Ops |-> FALSE]
  /\ reply = [w \in Ops |-> "none"]
  /\ interrupted = << >>
  /\ open = {}
  /\ born = [w \in Ops |-> 0]
  /\ readopted = {}

-----------------------------------------------------------------------------
\* _rpc_nonce_state: the account with the base trusted, the base and the used.
RpcReads ==
  {[acc |-> TrustedBase(acc, BaseAfter(k)), base |-> BaseAfter(k), used |-> AboveAfter(k)] :
     k \in Answers}

\* The API's base; with a consensus RPC, up to the last one that answered.
ApiReads ==
  {[acc |-> acc, used |-> {},
    base |-> IF rpc /\ acc.trusted # NoBase THEN Smaller(BaseAfter(k), acc.trusted)
             ELSE BaseAfter(k)] : k \in Answers}

\* _nonce_state: the API's when the RPC fails or there is none.
Reads == ApiReads \cup (IF rpc THEN RpcReads ELSE {})

\* The post of w under n begins, its hand-out recorded in a.
Post(w, n, a) ==
  /\ acc' = a
  /\ st' = [st EXCEPT ![w] = "posting"]
  /\ nonce' = [nonce EXCEPT ![w] = n]
  /\ hid' = [hid EXCEPT ![w] = HandoutOf(a, n)]
  /\ resub' = [resub EXCEPT ![w] = FALSE]
  /\ reply' = [reply EXCEPT ![w] = "none"]
  /\ born' = [born EXCEPT ![w] = acc.next]
  /\ UNCHANGED <<config, now, interrupted, open, readopted, nodeVars>>

\* Nothing is sent; the tracker has read the account.
Reread(a) ==
  /\ acc' = a
  /\ UNCHANGED <<config, now, st, nonce, hid, resub, reply, interrupted, open, born, readopted,
                 nodeVars>>

\* A write is called: the first time, or again after an error that carries
\* no transaction.
MayCall(w) == st[w] \in {"idle", "failed"} /\ acc.next =< mode.handouts

\* _submit_under_nonce with no nonce given: the lowest free one; while there
\* is none, the account is read again later.
Submit(w) ==
  /\ MayCall(w) /\ w \notin registrations
  /\ \E r \in Reads :
       LET a == Refresh(r.acc, r.base, now, r.used)
       IN IF FreeNonces(a) = {}
            THEN Reread(a)
            ELSE \E n \in FreeNonces(a) :
                   IsLowest(n, FreeNonces(a)) /\ Post(w, n, HandOut(a, n, now))

\* The same when signing fails: the nonce is given back, nothing is sent.
SubmitUnsigned(w) ==
  /\ MayCall(w) /\ w \notin registrations
  /\ \E r \in Reads :
       LET a == Refresh(r.acc, r.base, now, r.used)
       IN \E n \in FreeNonces(a) :
            /\ IsLowest(n, FreeNonces(a))
            /\ Reread(Settle(HandOut(a, n, now), n, Free, NoHandout))

\* _submit_under_nonce with a nonce the caller chose, refused unless free.
SubmitUnder(w, n) ==
  /\ MayCall(w) /\ w \notin registrations
  /\ \E r \in Reads :
       LET a == Refresh(r.acc, r.base, now, r.used)
       IN IF Claimable(a, n) THEN Post(w, n, HandOut(a, n, now)) ELSE Reread(a)

\* register_did: nonce 1 whoever holds it.
RegisterDid(w) ==
  /\ MayCall(w) /\ w \in registrations
  /\ Post(w, 1, HoldNonce(acc, 1, now))

-----------------------------------------------------------------------------
\* The request of w reaches the node, and the API's answer comes back.
Answered(w) ==
  /\ st[w] = "posting" /\ reply[w] = "none"
  /\ \E answer \in CheckTx(TxOf(w)) :
       /\ reply' = [reply EXCEPT ![w] = answer]
       /\ mempool' = Admitted(TxOf(w), answer)
  /\ UNCHANGED <<config, acc, now, st, nonce, hid, resub, interrupted, open, born, readopted,
                 landed, net>>

\* It gets no such answer: the connection was refused ("never"); the request
\* failed after connecting or a gateway answered ("unknown"), or the API
\* answers that the nonce is used, whatever it passed on ("used").  In the
\* last two a copy may still arrive.
NoAnswer(w) ==
  /\ st[w] = "posting" /\ reply[w] = "none"
  /\ \E answer \in {"never", "unknown", "used"} :
       /\ reply' = [reply EXCEPT ![w] = answer]
       /\ net' = IF answer = "never" THEN net ELSE net \cup {TxOf(w)}
  /\ UNCHANGED <<config, acc, now, st, nonce, hid, resub, interrupted, open, born, readopted,
                 mempool, landed>>

\* Mutant of OutcomeOf: a copy sent again is refused like a first one.
OutcomeOfAny(answer, again) ==
  CASE answer = "used" -> Used
    [] answer \in {"refused", "never"} -> Free
    [] answer = "held" -> Held
    [] OTHER -> Unknown

\* refusal_outcome of each answer; a refusal of a copy sent again says
\* nothing of the copy sent before.
OutcomeOf(answer, again) ==
  CASE answer = "used" -> Used
    [] answer = "refused" /\ ~again -> Free
    [] answer = "never" /\ ~again -> Free
    [] answer = "held" /\ ~again -> Held
    [] OTHER -> Unknown

\* What becomes of a write whose nonce was left so: its error carries the
\* transaction ("kept"), or it does not ("failed").
After(outcome) == IF outcome \in {Unknown, Used} THEN "kept" ELSE "failed"

\* _submit_signed reads the answer.
Handle(w) ==
  /\ st[w] = "posting" /\ reply[w] # "none"
  /\ IF reply[w] = "ok"
       THEN st' = [st EXCEPT ![w] = "accepted"] /\ UNCHANGED acc
       ELSE LET outcome == OutcomeOf(reply[w], resub[w])
            IN /\ acc' = Settle(acc, nonce[w], outcome, hid[w])
               /\ st' = [st EXCEPT ![w] = After(outcome)]
  /\ reply' = [reply EXCEPT ![w] = "none"]
  /\ resub' = [resub EXCEPT ![w] = FALSE]
  /\ UNCHANGED <<config, now, nonce, hid, interrupted, open, born, readopted, nodeVars>>

\* The task is cancelled while the post is in flight.
Cancel(w) ==
  /\ st[w] = "posting"
  /\ st' = [st EXCEPT ![w] = "kept"]
  /\ interrupted' = Put(interrupted, nonce[w], w)
  /\ open' = open \cup {w}
  /\ reply' = [reply EXCEPT ![w] = "none"]
  /\ resub' = [resub EXCEPT ![w] = FALSE]
  /\ net' = IF reply[w] = "none" THEN net \cup {TxOf(w)} ELSE net
  /\ UNCHANGED <<config, acc, now, nonce, hid, born, readopted, mempool, landed>>

\* Mutant of Uninterrupted: any entry under the nonce goes.
UninterruptedAny(w) == Pop(interrupted, nonce[w])

\* What resubmit of w leaves in interrupted_writes: its own entry goes.
Uninterrupted(w) ==
  IF nonce[w] \in DOMAIN interrupted /\ interrupted[nonce[w]] = w
    THEN Pop(interrupted, nonce[w]) ELSE interrupted

\* resubmit: the same bytes under the same nonce, unless it went to another
\* write since.
Resubmit(w) ==
  LET n == nonce[w]
      r == Refresh(acc, acc.base, now, {})
  IN /\ st[w] = "kept"
     /\ acc.next =< mode.handouts + 1
     /\ interrupted' = Uninterrupted(w)
     /\ open' = open \ {w}
     /\ acc' = Reclaimed(r, n, hid[w], now)
     /\ IF ReclaimGranted(r, n, hid[w])
          THEN /\ st' = [st EXCEPT ![w] = "posting"]
               /\ hid' = [hid EXCEPT ![w] = HandoutOf(acc', n)]
               /\ resub' = [resub EXCEPT ![w] = TRUE]
               /\ readopted' = IF HandoutOf(r, n) = NoHandout THEN readopted \cup {w}
                               ELSE readopted
          ELSE UNCHANGED <<st, hid, resub, readopted>>
     /\ UNCHANGED <<config, now, nonce, reply, born, nodeVars>>

\* What one poll of wait_until_landed reads: with a consensus RPC only its
\* answer, and nothing while its query fails.
Polls == IF rpc THEN RpcReads ELSE ApiReads

\* Mutant of ShowsUsed: the tracker is asked with a consensus RPC too.
ShowsUsedTracked(r, a, n) == IsUsed(a, n)

\* Whether a poll that answered r, leaving account a, shows n used.
ShowsUsed(r, a, n) == IF rpc THEN n =< r.base \/ n \in r.used ELSE IsUsed(a, n)

\* Mutant of StillItsNonce: the hand-out is not compared.
StillAnyNonce(w, a) == TRUE

\* _still_its_nonce, for a write this client sent.
StillItsNonce(w, a) == StillHandedTo(a, nonce[w], hid[w])

\* One poll of wait_until_landed: it raises once the nonce went to another
\* write, returns when the nonce is used, and polls again otherwise.
WaitUntilLanded(w) ==
  /\ st[w] \in {"accepted", "kept"}
  /\ StillItsNonce(w, acc)
  /\ \E r \in Polls :
       LET a == Refresh(r.acc, r.base, now, r.used)
       IN /\ acc' = a
          /\ st' = IF StillItsNonce(w, a) /\ ShowsUsed(r, a, nonce[w])
                     THEN [st EXCEPT ![w] = "landed"] ELSE st
  /\ UNCHANGED <<config, now, nonce, hid, resub, reply, interrupted, open, born, readopted,
                 nodeVars>>

\* send() ends a request within DEADLINE_FACTOR times the client's timeout.
InLease(w) ==
  nonce[w] \in DOMAIN acc.handed => now + 1 - acc.handed[nonce[w]] < Lease

Tick ==
  /\ now < MaxTime
  /\ timely => \A w \in Ops : st[w] = "posting" => InLease(w)
  /\ now' = now + 1
  /\ UNCHANGED <<config, acc, st, nonce, hid, resub, reply, interrupted, open, born, readopted,
                 nodeVars>>

Next ==
  \/ \E w \in Ops :
       \/ Submit(w) \/ SubmitUnsigned(w) \/ RegisterDid(w)
       \/ \E n \in 1..(NodeWindow + 1) : SubmitUnder(w, n)
       \/ Answered(w) \/ NoAnswer(w) \/ Handle(w) \/ Cancel(w) \/ Resubmit(w)
       \/ WaitUntilLanded(w)
  \/ NodeStep /\ UNCHANGED clientVars
  \/ Tick

Spec == Init /\ [][Next]_vars

-----------------------------------------------------------------------------
\* The promise made of each write: WritePromise says what it is, and here a
\* write's status is what its error or result tells the application.
Status(w) == IF st[w] = "posting" THEN (IF resub[w] THEN "resent" ELSE "sent") ELSE st[w]
RunsOf(w) == Cardinality({i \in 1..Len(landed) : landed[i].op = w})

Promise == INSTANCE WritePromise
             WITH status <- [w \in Ops |-> Status(w)], runs <- [w \in Ops |-> RunsOf(w)]

\* A write runs at most once, whatever its requests met, and one whose error
\* carries no transaction never ran and never will unless it is called again
\* (README "the write runs at most once").
KeepsPromise == Promise!Spec

\* wait_until_landed never reports the landing of a later write under the
\* same nonce as the write's own (its docstring: "instead of reporting the
\* other write's landing as its own"), while the nonce's record is kept.  Left
\* out is a write resubmitted after the record was lost: reclaim lets it have
\* the nonce back from whoever held it in between.
NeverReportsLaterWrite ==
  [][\A w \in Ops \ readopted :
       st'[w] = "landed" /\ st[w] # "landed" /\ nonce[w] > acc'.base - History
         => \A i \in 1..Len(landed) :
              landed[i].nonce = nonce[w] => born[landed[i].op] =< born[w]]_vars

\* With a consensus RPC a write is reported landed only when a block used its
\* nonce, whatever the API claims.
ReportedIsUsed == rpc => \A w \in Ops : st[w] = "landed" => NonceUsed(nonce[w])

\* A cancelled write stays in interrupted_writes until it is resubmitted or
\* its nonce goes to another write: the application can always find it.  Left
\* out are the ways two writes in flight share a nonce: a post that outlives
\* its lease, a RegisterDid, which takes nonce 1 whoever holds it, and a first
\* trusted answer that lowers the base (NonceTracker, DropsOnlyOnFirstTrust).
InterruptedKept ==
  timely /\ registrations = {} /\ ~rpc =>
    \A w \in open :
      StillItsNonce(w, acc) /\ nonce[w] > acc.base - History =>
        nonce[w] \in DOMAIN interrupted /\ interrupted[nonce[w]] = w
=============================================================================
