----------------------------- MODULE LightClient -----------------------------
(***************************************************************************)
(* LightClient (src/willow/light_client): headers the application gives,   *)
(* imports, or trusts on first use, and GroveDB proofs checked against     *)
(* their app hashes.  Application tasks and the background sync run        *)
(* interleaved on one event loop; each waits for the endpoints once per    *)
(* header or height it asks for.                                           *)
(*                                                                         *)
(* A header is its height, its app hash and whether an endpoint served it. *)
(* The state after block h has the root AppHash[h + 1].  One block is made *)
(* per unit of the clocks the header checks compare.  An endpoint that     *)
(* works serves the chain's headers, the latest it has when asked for the  *)
(* latest; the Wrong ones serve any header.  What the application gives or *)
(* imports is the chain's.                                                 *)
(***************************************************************************)
EXTENDS Integers, Sequences, SequencesExt, FiniteSetsExt, Functions

CONSTANTS
  Callers,        \* the application's tasks
  Endpoints,      \* how many validator_endpoints there are, asked in order
  Wrong,          \* which of them serve headers that are not the chain's
  MinValidators,  \* min_validators_for_consensus
  MaxDrift,       \* max_clock_drift_secs
  AppHash,        \* the app hash of the chain's header at each height
  OtherHash,      \* an app hash that is none of the chain's
  Results,        \* answers of queries, as the payloads of their Items
  MaxStarts       \* bound: calls of start

\* LightClientConfig.__post_init__, and a majority of working endpoints.
ConfigAccepted ==
  /\ Endpoints \in Nat \ {0} /\ MinValidators \in 1..Endpoints

ASSUME ConfigAssumption ==
  /\ ConfigAccepted
  /\ Wrong \subseteq 1..Endpoints /\ Cardinality(Wrong) < MinValidators
  /\ AppHash \in Seq(Range(AppHash)) \ {<< >>} /\ OtherHash \notin Range(AppHash)
  /\ \A r \in Results : r \in Seq(Range(r))
  /\ MaxStarts \in Nat

VARIABLES
  chain,     \* the height of the chain, and the time
  trusted,   \* _trusted_headers: the header held at each height held
  latest,    \* _latest_height
  range,     \* _verified_height_range
  starts,    \* how often start was called: _session and _sync_task are the last one's
  sessions,  \* each start's session
  tasks,     \* what each application task and each start's sync task waits for
  stopping,  \* whether stop waits for the sync task it cancelled
  synced,    \* the height the last sync that succeeded reported
  vouched,   \* history: headers given, imported, or agreed on, of those held since
  overlap    \* history: start was called before the last start was stopped

vars == <<chain, trusted, latest, range, starts, sessions, tasks, stopping, synced,
          vouched, overlap>>
clientState == <<trusted, latest, range>>
resources == <<starts, sessions, stopping, overlap>>

Heights == 1..Len(AppHash)
None == 0
Loops == {<<"loop", i>> : i \in 1..MaxStarts}
Tasks == Callers \cup Loops
ASSUME TasksAssumption == Callers \cap Loops = {}

NoEntry == [h \in {} |-> None]

Header(h, app, served) == [height |-> h, app |-> app, served |-> served]
ChainHeader(h, served) == Header(h, AppHash[h], served)
NoHeader == Header(None, OtherHash, TRUE)

Waiting(at, height, upto) == [at |-> at, height |-> height, upto |-> upto]
Idle == Waiting("idle", None, None)

Init ==
  /\ chain \in Heights
  /\ trusted = NoEntry /\ latest = None /\ range = <<None, None>>
  /\ starts = 0
  /\ sessions = [i \in 1..MaxStarts |-> "none"]
  /\ tasks = [t \in Tasks |-> Idle]
  /\ stopping = FALSE
  /\ synced = None
  /\ vouched = {} /\ overlap = FALSE

-----------------------------------------------------------------------------
\* _fetch_header_from_endpoint: what endpoint e can answer a request for the
\* header at h (the latest when h is None) of a chain of this height.
Answers(e, h, height) ==
  {NoHeader}
  \cup {ChainHeader(k, TRUE) : k \in IF h = None THEN 1..height ELSE {h} \cap 1..height}
  \cup (IF e \in Wrong THEN [height : Heights, app : Range(AppHash) \cup {OtherHash}, served : {TRUE}]
        ELSE {})

\* The answers that are no failures, by the endpoint they are of.
Successes(answers) == Restrict(answers, {e \in DOMAIN answers : answers[e] # NoHeader})

\* What all of them can answer, in the order asked, without the failures.
Collected(h, height) ==
  {Successes(answers) :
     answers \in {f \in [1..Endpoints -> UNION {Answers(e, h, height) : e \in 1..Endpoints}] :
                    \A e \in 1..Endpoints : f[e] \in Answers(e, h, height)}}

\* The first of those given most often (Counter.most_common, max by length).
Count(s, x) == Cardinality({i \in DOMAIN s : s[i] = x})
MostCommon(s) ==
  LET most == {i \in DOMAIN s : \A j \in DOMAIN s : Count(s, s[j]) =< Count(s, s[i])}
  IN s[Min(most)]
Agreed(s, x) == Count(s, x) >= MinValidators

\* Mutant of ConsensusHeader: the first of the largest group, however small.
ConsensusHeaderAny(s) ==
  LET apps == [i \in DOMAIN s |-> s[i].app]
      first == Min({i \in DOMAIN s : s[i].app = MostCommon(apps)})
  IN IF Cardinality(DOMAIN s) < MinValidators THEN NoHeader ELSE s[first]

\* _fetch_header_from_validators, _find_consensus_header: grouped by app hash.
ConsensusHeader(s) ==
  LET apps == [i \in DOMAIN s |-> s[i].app]
      first == Min({i \in DOMAIN s : s[i].app = MostCommon(apps)})
  IN IF Cardinality(DOMAIN s) < MinValidators \/ ~Agreed(apps, MostCommon(apps)) THEN NoHeader
     ELSE s[first]

\* _get_latest_height_from_validators
ConsensusHeight(s) ==
  LET heights == [i \in DOMAIN s |-> s[i].height]
  IN IF DOMAIN s = {} \/ ~Agreed(heights, MostCommon(heights)) THEN None
     ELSE MostCommon(heights)

\* What a fetch can come to; a request without an open session raises.
HeadersFor ==
  [h \in {None} \cup Heights |->
     [height \in Heights |-> {ConsensusHeader(s) : s \in Collected(h, height)}]]
HeightsFor == [height \in Heights |-> {ConsensusHeight(s) : s \in Collected(None, height)}]

Open == starts > 0 /\ sessions[starts] = "open"
Fetched(h) == IF Open THEN HeadersFor[h][chain] ELSE {NoHeader}
FetchedHeight == IF Open THEN HeightsFor[chain] ELSE {None}

-----------------------------------------------------------------------------
\* _validate_basic_header
Basic(u) == u.height > 0 /\ u.height =< chain + MaxDrift /\ chain =< u.height + MaxDrift

\* _verify_sequential, with the validator set's transition.
Follows(u, t) == u.height = t.height + 1

\* Mutant of HeaderVerified: the basic checks verify a header.
HeaderVerifiedBasic(u, t) == Basic(u) /\ Follows(u, t)

\* HeaderVerifier.verify_header: a header that passes every check it makes is
\* still not verified, its commit's signatures not being checked.
HeaderVerified(u, t) == Basic(u) /\ Follows(u, t) /\ FALSE

\* _find_best_trusted_header
BestTrusted(h) ==
  LET held == DOMAIN trusted
      below == {k \in held : k < h}
  IN trusted[IF below # {} THEN Max(below) ELSE Min(held)]

\* verify_header, but for _add_trusted_header.
Accepts(u) == trusted # NoEntry /\ HeaderVerified(u, BestTrusted(u.height))

\* The headers held with these written over those of the same heights.
With(headers) ==
  [h \in DOMAIN headers \cup DOMAIN trusted |->
     IF h \in DOMAIN headers THEN headers[h] ELSE trusted[h]]

Hold(u) == trusted' = With([h \in {u.height} |-> u])
Vouch(us) == vouched' = (vouched \cup us) \cap Range(trusted')

\* _add_trusted_header
AddTrusted(u) ==
  /\ Hold(u)
  /\ latest' = IF latest = None \/ u.height > latest THEN u.height ELSE latest
  /\ range' = IF range[1] = None THEN <<u.height, u.height>>
              ELSE <<Min({range[1], u.height}), Max({range[2], u.height})>>

\* Both ways to initialise: the header becomes the latest and the range.
Initialise(u) ==
  /\ Hold(u)
  /\ latest' = u.height
  /\ range' = <<u.height, u.height>>

-----------------------------------------------------------------------------
StartEffect ==
  /\ starts < MaxStarts
  /\ starts' = starts + 1
  /\ sessions' = [sessions EXCEPT ![starts + 1] = "open"]
  /\ overlap' = (overlap \/ stopping \/ "open" \in Range(sessions))

\* start, with auto_sync
Start ==
  /\ StartEffect
  /\ tasks' = [tasks EXCEPT ![<<"loop", starts + 1>>] = Waiting("sleep", None, None)]
  /\ UNCHANGED <<chain, clientState, stopping, synced, vouched>>

\* Mutant of Cancelled: the sync task goes on.
CancelledNot == tasks

\* The sync task is cancelled at what it waits for.
Cancelled == [tasks EXCEPT ![<<"loop", starts>>] = Idle]

\* stop cancels the last start's sync task and waits for it ...
StopCancel ==
  /\ starts > 0 /\ ~stopping
  /\ tasks' = Cancelled
  /\ stopping' = TRUE
  /\ UNCHANGED <<chain, clientState, starts, sessions, overlap, synced, vouched>>

\* ... then closes the session that is the client's by then.
StopClose ==
  /\ stopping
  /\ stopping' = FALSE
  /\ sessions' = [sessions EXCEPT ![starts] = "closed"]
  /\ UNCHANGED <<chain, clientState, starts, tasks, overlap, synced, vouched>>

-----------------------------------------------------------------------------
\* The application calls, on an idle task: an operation that asks the
\* endpoints.  Trusting on first use starts a client that never was started;
\* get_verified_root_hash asks only when no header is held.
CallFirstUse(c) ==
  /\ tasks[c] = Idle
  /\ IF starts = 0
       THEN /\ StartEffect
            /\ tasks' = [tasks EXCEPT ![c] = Waiting("first", None, None),
                                      ![<<"loop", 1>>] = Waiting("sleep", None, None)]
       ELSE /\ tasks' = [tasks EXCEPT ![c] = Waiting("first", None, None)]
            /\ UNCHANGED <<starts, sessions, overlap>>
  /\ UNCHANGED <<chain, clientState, stopping, synced, vouched>>

\* get_header_by_height, also under verify_query_proof, of a header not held.
CallHeader(c) ==
  /\ tasks[c] = Idle
  /\ \E h \in Heights \ DOMAIN trusted :
       tasks' = [tasks EXCEPT ![c] = Waiting("header", h, None)]
  /\ UNCHANGED <<chain, clientState, resources, synced, vouched>>

\* sync_to_latest, called or woken in _sync_loop.
CallSync(t) ==
  /\ IF t \in Callers THEN tasks[t] = Idle ELSE tasks[t].at = "sleep"
  /\ tasks' = [tasks EXCEPT ![t] = Waiting("latest", None, None)]
  /\ UNCHANGED <<chain, clientState, resources, synced, vouched>>

Ended(t) == IF t \in Callers THEN Idle ELSE Waiting("sleep", None, None)

\* initialize_with_trust_on_first_use stores what the endpoints agreed on, or raises.
FirstUse(c) ==
  /\ tasks[c].at = "first"
  /\ tasks' = [tasks EXCEPT ![c] = Idle]
  /\ \E u \in Fetched(None) :
       IF u = NoHeader THEN UNCHANGED <<clientState, vouched>>
       ELSE Initialise(u) /\ Vouch({u})
  /\ UNCHANGED <<chain, resources, synced>>

\* A fetched header is checked, and held when it is verified.
Check(u) == IF u # NoHeader /\ Accepts(u) THEN AddTrusted(u) ELSE UNCHANGED clientState

FetchHeader(c) ==
  /\ tasks[c].at = "header"
  /\ tasks' = [tasks EXCEPT ![c] = Idle]
  /\ \E u \in Fetched(tasks[c].height) : Check(u)
  /\ UNCHANGED <<chain, resources, synced, vouched>>

\* Where sync_to_latest starts: above the latest, or at 2 when none is held.
FirstToSync == IF latest = None THEN 2 ELSE latest + 1

\* sync_to_latest has the endpoints' height: nothing to do, or the first
\* header above the latest held is next.
SyncHeight(t) ==
  /\ tasks[t].at = "latest"
  /\ \E h \in FetchedHeight :
       LET done == latest # None /\ h =< latest
       IN IF h # None /\ ~done /\ FirstToSync =< h
            THEN tasks' = [tasks EXCEPT ![t] = Waiting("sync", FirstToSync, h)] /\ UNCHANGED synced
            ELSE /\ tasks' = [tasks EXCEPT ![t] = Ended(t)]
                 /\ synced' = IF h = None THEN synced ELSE IF done THEN latest ELSE h
  /\ UNCHANGED <<chain, clientState, resources, vouched>>

\* It ends at the first header it cannot fetch or verify.
SyncHeader(t) ==
  /\ tasks[t].at = "sync"
  /\ \E u \in Fetched(tasks[t].height) :
       LET verified == u # NoHeader /\ Accepts(u)
           last == tasks[t].height = tasks[t].upto
       IN /\ Check(u)
          /\ tasks' = [tasks EXCEPT ![t] = IF verified /\ ~last
                                             THEN [tasks[t] EXCEPT !.height = @ + 1]
                                             ELSE Ended(t)]
          /\ synced' = IF verified /\ last THEN tasks[t].upto ELSE synced
  /\ UNCHANGED <<chain, resources, vouched>>

-----------------------------------------------------------------------------
\* initialize_with_trusted_header, with a header of the chain.
Give ==
  /\ \E h \in 1..chain :
       LET u == ChainHeader(h, FALSE)
       IN Basic(u) /\ Initialise(u) /\ Vouch({u})
  /\ UNCHANGED <<chain, resources, tasks, synced>>

\* Mutant of RangeOf: the latest is the range.
RangeOfLatest(held) == IF held = {} THEN range ELSE <<range[1], Max(held)>>

\* The verified range is of every header held.
RangeOf(held) == IF held = {} THEN range ELSE <<Min(held), Max(held)>>

\* export_trusted_state of a client that held these headers, written with
\* to_dict and read with from_dict: height and app hash are kept.
Exported(heights) == [h \in heights |-> ChainHeader(h, FALSE)]

\* import_trusted_state
Import ==
  /\ \E heights \in SUBSET (1..chain) :
       /\ trusted' = With(Exported(heights))
       /\ latest' = Max({latest} \cup heights)
       /\ Vouch(Range(Exported(heights)))
  /\ range' = RangeOf(DOMAIN trusted')
  /\ UNCHANGED <<chain, resources, tasks, synced>>

\* Mutant of HeaderOf: the header of the block itself.
HeaderOfBlock(h) == h

\* The header whose app hash is the state after block h.
HeaderOf(h) == h + 1

\* ProofVerifier.verify_query_proof: which Items, by their places, are left
\* after each entry took the first of its payload; none is, for good, once an
\* entry found no such Item.
Take(items, left, payload) ==
  LET same == {i \in left \ {None} : items[i] = payload}
  IN IF same = {} THEN {None} ELSE left \ {Min(same)}

Unmatched(items, result) ==
  LET left[n \in 0..Len(result)] ==
        IF n = 0 THEN DOMAIN items ELSE Take(items, left[n - 1], result[n])
  IN left

Matched(items, result) == Unmatched(items, result)[Len(result)] # {None}

\* verify_query_proof of a proof that leads to root and proves these Items at
\* its query's path; it changes nothing.
AcceptsProof(height, root, items, result) ==
  /\ HeaderOf(height) \in DOMAIN trusted
  /\ root = trusted[HeaderOf(height)].app
  /\ result = << >> \/ Matched(items, result)

NewBlock ==
  /\ chain < Len(AppHash)
  /\ chain' = chain + 1
  /\ UNCHANGED <<clientState, resources, tasks, synced, vouched>>

Next ==
  \/ Start \/ StopCancel \/ StopClose
  \/ \E c \in Callers : CallFirstUse(c) \/ CallHeader(c) \/ FirstUse(c) \/ FetchHeader(c)
  \/ \E t \in Tasks : CallSync(t) \/ SyncHeight(t) \/ SyncHeader(t)
  \/ Give \/ Import \/ NewBlock

Spec == Init /\ [][Next]_vars

-----------------------------------------------------------------------------
\* Every header held was given or imported by the application or agreed on by
\* the endpoints for a first use: none that a sync or a lookup fetched is ever
\* held, whatever ran in between (HeaderVerifier).
HeldIsVouched == Range(trusted) \subseteq vouched

\* An app hash held is one of the chain's, as long as fewer endpoints serve
\* others than must agree (_find_consensus_header).
HeldAppIsChains == \A u \in Range(trusted) : u.app \in {AppHash[h] : h \in 1..chain}

\* The latest height and both ends of the verified range are of headers held,
\* and the range is around the latest, through initialising again below
\* headers held, imports and concurrent first uses.  So is the height a sync
\* that succeeded reports, but for a client that holds no header while the
\* chain is at its first block: the loop from height 2 has nothing to fetch.
RangeIsHeld ==
  /\ IF trusted = NoEntry THEN latest = None /\ range = <<None, None>>
     ELSE /\ {latest, range[1], range[2]} \subseteq DOMAIN trusted
          /\ range[1] =< latest /\ latest =< range[2]
  /\ synced # None => synced \in DOMAIN trusted \/ synced = 1

\* A proof accepted under a header the application gave is of the state after
\* the block it names, and proves its answer entry by entry.
ProvedIsState ==
  \A height \in Heights, root \in Range(AppHash) \cup {OtherHash}, items, result \in Results :
    AcceptsProof(height, root, items, result) =>
      /\ \/ trusted[HeaderOf(height)].served
         \/ height < chain /\ root = AppHash[height + 1]
      /\ \A p \in ToSet(result) : Count(result, p) =< Count(items, p)

\* A client started once before each stop has no sync task and no open session
\* after it: nothing is left running when the application is done.
StoppedHoldsNothing ==
  ~overlap /\ starts > 0 /\ sessions[starts] = "closed" =>
    /\ \A i \in 1..MaxStarts : tasks[<<"loop", i>>] = Idle
    /\ "open" \notin Range(sessions)
=============================================================================
