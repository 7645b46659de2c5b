---------------------------- MODULE VerifiedRead ----------------------------
(***************************************************************************)
(* data.get_verified (src/willow/client.py): the API serves a value and a  *)
(* proof of it, naming the height of the state it proves; the client finds *)
(* a header of its own consensus node that carries the proof's root, and   *)
(* accepts the value when that header is recent.  Each header is a request *)
(* of its own, and the chain produces blocks and the node prunes headers   *)
(* between them.  The API is free to serve any root and name any height.   *)
(*                                                                         *)
(* A state is a natural number: a block with transactions makes a new one, *)
(* a block without leaves it.  The header at height h carries the state    *)
(* after block h - 1.                                                      *)
(***************************************************************************)
EXTENDS Integers, Sequences

CONSTANTS
  Lags,       \* values of max_proof_lag_blocks
  MaxHeight   \* bound: the height of the chain

ASSUME LagsAssumption == Lags \subseteq Nat
ASSUME MaxHeightAssumption == MaxHeight \in Nat \ {0}

VARIABLES
  states,     \* block -> the state after it, block 0 first (index 1)
  first,      \* the lowest header the consensus node still serves
  lag,        \* max_proof_lag_blocks
  pc,         \* the header being read
  root,       \* the root the proof computes
  height,     \* the height the proof names
  latest,     \* the latest header's height and app hash, as first read
  oldest,     \* the oldest header that counts as recent
  produced,   \* the header after the proof's block exists, as last read
  low, high,  \* the range the search has left
  expired,    \* the client's timeout has passed
  result,     \* the height returned
  error       \* or why none is

chainVars == <<states, first>>
readVars == <<lag, pc, root, height, latest, oldest, produced, low, high, expired, result, error>>
vars == <<chainVars, readVars>>

None == "none"
Errors == {"out_of_range", "mismatch", "no_header"}
NoHeader == [height |-> 0, root |-> 0]

Latest == Len(states) - 1
AppHash(h) == states[h]
Serves(h) == first =< h /\ h =< Latest

Init ==
  /\ states = <<0, 0>>
  /\ first = 1
  /\ lag \in Lags
  /\ pc = "idle"
  /\ root = 0 /\ height = 0
  /\ latest = NoHeader
  /\ oldest = 0
  /\ produced = FALSE
  /\ low = 0 /\ high = 0
  /\ expired = FALSE
  /\ result = 0
  /\ error = None

-----------------------------------------------------------------------------
\* The chain: a block with transactions, or without, and the node's pruning.
Produce ==
  /\ Latest < MaxHeight
  /\ \E s \in {states[Len(states)], states[Len(states)] + 1} : states' = Append(states, s)
  /\ UNCHANGED <<first, readVars>>

Prune ==
  /\ first < Latest
  /\ first' = first + 1
  /\ UNCHANGED <<states, readVars>>

-----------------------------------------------------------------------------
\* get_verified has both answers of the API, and the proof proves the value
\* served: what it says of the chain is a root and a height.
Request ==
  /\ pc = "idle"
  /\ pc' = "latest"
  /\ root' \in 0..(states[Len(states)] + 1)
  /\ height' \in 0..(MaxHeight + 1)
  /\ UNCHANGED <<chainVars, lag, latest, oldest, produced, low, high, expired, result, error>>

Returns(h) == pc' = "done" /\ result' = h /\ UNCHANGED error
Raises(e) == pc' = "done" /\ error' = e /\ UNCHANGED result
Goes(step) == pc' = step /\ UNCHANGED <<result, error>>

\* The header read is missing, or the request for it failed.
Unread ==
  /\ pc \in {"latest", "oldest", "search"}
  /\ Raises("no_header")
  /\ UNCHANGED <<chainVars, lag, root, height, latest, oldest, produced, low, high, expired>>

\* Mutants of OldestAt: recent is counted from the header's own height, or
\* from the block after it.
OldestAtHeader(l) == l - lag
OldestAtNext(l) == l - lag + 2

\* The oldest recent header is where lag says; a proof is stale when its
\* block is further back and the latest header does not carry its root.
OldestAt(l) == l - lag + 1
Stale(l) == l - height > lag /\ AppHash(l) # root

\* _header_carrying reads the latest header first.
ReadLatest ==
  /\ pc = "latest"
  /\ latest' = [height |-> Latest, root |-> AppHash(Latest)]
  /\ oldest' = OldestAt(Latest)
  /\ IF height - Latest > lag \/ (Stale(Latest) /\ oldest' > Latest)
       THEN Raises("out_of_range")
       ELSE Goes(IF Stale(Latest) THEN "oldest" ELSE "after")
  /\ UNCHANGED <<chainVars, lag, root, height, produced, low, high, expired>>

\* A stale proof is current only if the oldest recent header carries its root.
ReadOldest ==
  /\ pc = "oldest" /\ Serves(oldest)
  /\ IF AppHash(oldest) = root THEN Goes("after") ELSE Raises("out_of_range")
  /\ UNCHANGED <<chainVars, lag, root, height, latest, oldest, produced, low, high, expired>>

\* The header after the proof's block carries the root: the latest is
\* returned when it does too, or this one when it is recent; else the newest
\* recent one is searched for.
Found(after) ==
  IF latest.height >= after /\ latest.root = root
    THEN Returns(latest.height) /\ UNCHANGED <<low, high>>
  ELSE IF latest.height - height =< lag
    THEN Returns(after) /\ UNCHANGED <<low, high>>
  ELSE /\ low' = oldest
       /\ high' = latest.height - 1
       /\ IF low' < high' THEN Goes("search") ELSE Returns(low')

\* _trusted_app_hash: the header after the proof's block.
ReadAfter ==
  /\ pc = "after" /\ Serves(height + 1)
  /\ IF AppHash(height + 1) = root THEN Found(height + 1)
     ELSE Raises("mismatch") /\ UNCHANGED <<low, high>>
  /\ UNCHANGED <<chainVars, lag, root, height, latest, oldest, produced, expired>>

\* It is not served: given up when it had been produced, else waited for.
AfterMissing ==
  /\ pc = "after" /\ ~Serves(height + 1)
  /\ IF produced THEN Raises("no_header") ELSE Goes("poll")
  /\ UNCHANGED <<chainVars, lag, root, height, latest, oldest, produced, low, high, expired>>

\* The latest height says whether it exists by now; then it is read once more.
Poll ==
  /\ pc = "poll"
  /\ IF expired THEN Raises("no_header") /\ UNCHANGED produced
     ELSE produced' = (Latest >= height + 1) /\ Goes("after")
  /\ UNCHANGED <<chainVars, lag, root, height, latest, oldest, low, high, expired>>

\* A request for a header fails, or the latest is not served, in that loop.
PollFails ==
  /\ pc \in {"after", "poll"}
  /\ Raises("no_header")
  /\ UNCHANGED <<chainVars, lag, root, height, latest, oldest, produced, low, high, expired>>

\* Mutant of Middle: rounded down.
MiddleDown == (low + high) \div 2

\* The header the binary search reads next.
Middle == (low + high + 1) \div 2

\* What the search has left: low carries the root, none above high does.
Narrow(carries) ==
  IF carries THEN low' = Middle /\ high' = high ELSE high' = Middle - 1 /\ low' = low

Search ==
  /\ pc = "search" /\ Serves(Middle)
  /\ Narrow(AppHash(Middle) = root)
  /\ IF low' < high' THEN Goes("search") ELSE Returns(low')
  /\ UNCHANGED <<chainVars, lag, root, height, latest, oldest, produced, expired>>

Expire ==
  /\ pc \in {"after", "poll"} /\ ~expired
  /\ expired' = TRUE
  /\ UNCHANGED <<chainVars, lag, pc, root, height, latest, oldest, produced, low, high, result,
                 error>>

\* A request is answered with the header asked for, or the latest height.
Answered ==
  ReadLatest \/ ReadOldest \/ ReadAfter \/ AfterMissing \/ Poll \/ Search

\* It asks for a header that is not served.
Missing ==
  \/ pc = "oldest" /\ ~Serves(oldest)
  \/ pc = "search" /\ ~Serves(Middle)

Next == Produce \/ Prune \/ Request \/ Answered \/ Unread \/ PollFails \/ Expire

\* Each request ends by its deadline, with the header if it is served, and the
\* timeout passes.  That a request fails otherwise is not relied on.
Spec ==
  Init /\ [][Next]_vars
    /\ WF_vars(Answered) /\ WF_vars(Missing /\ Unread) /\ WF_vars(Expire)

-----------------------------------------------------------------------------
Returned == pc = "done" /\ error = None

\* Whatever the API served, a value is returned only with a header of the
\* consensus node that carries its root and was recent when the latest was
\* read: at most the lag behind, or the latest itself.  It is the newest up to
\* that latest, unless it is the header after the proof's own block.
ReturnedIsCurrent ==
  Returned =>
    /\ result =< Latest /\ AppHash(result) = root
    /\ latest.height - (result - 1) =< lag \/ result = latest.height
    /\ result # height + 1 => \A h \in (result + 1)..latest.height : AppHash(h) # root

\* A proof that tells the truth about its height is called out of range only
\* when no recent header carries its root (or its block is far ahead): one
\* look at the oldest recent header decides for all of them.
RefusedOnlyWhenStale ==
  (error = "out_of_range" /\ height =< latest.height /\ AppHash(height + 1) = root) =>
    \A h \in 1..latest.height : latest.height - (h - 1) =< lag => AppHash(h) # root

\* A read ends, the wait for a header not yet produced included.
ReadEnds == (pc = "latest") ~> (pc = "done")
=============================================================================
