------------------------------ MODULE Routing -------------------------------
(***************************************************************************)
(* Source-routed queries (WillowClient._route_query in src/willow/         *)
(* client.py) running concurrently over one discovery cache                *)
(* (src/willow/indexers.py).  A lookup that misses the cache awaits the    *)
(* validator's list; a query then tries each candidate, evicting the ones  *)
(* that answer with a server error, and may fall back to the validator.    *)
(* Every request has a deadline; one action is what runs between awaits.   *)
(***************************************************************************)
EXTENDS IndexerCache

CONSTANTS
  Queries,    \* the queries callers make
  Overrides,  \* whether indexer_url is set: FALSE, TRUE or both
  MaxTime     \* bound: the clock

ASSUME OverridesAssumption == Overrides \subseteq BOOLEAN
ASSUME ExplicitAssumption == "explicit-override" \notin Indexers

VARIABLES
  override,  \* whether the client has an indexer_url
  cache, now,
  pc,        \* query -> the request it awaits
  routed,    \* query -> the source asked for
  asked,     \* query -> when it asked for the list
  reply,     \* query -> the validator's list, and when it was made
  left,      \* query -> candidates not yet failed, the first being tried
  result,    \* query -> what it ended with
  fallback,  \* query -> RoutedQueryResult.fallback
  offered,   \* history: query -> the candidates its lookup returned
  tried,     \* history: query -> the indexers it sent a request to, in order
  madeAt     \* history: when the validator made the cached list

lookup == <<asked, reply>>
routeVars == <<override, cache, now, pc, routed, lookup, left, result, fallback, offered, tried, madeAt>>

QuerySource == {"validator", "indexer", "auto"}
Results == {"none", "indexer", "validator", "noindexers", "nodata", "error"}
NoReply == [list |-> << >>, at |-> -1]

RouteInit ==
  /\ override \in Overrides
  /\ cache = NoCache
  /\ now = 0
  /\ pc = [q \in Queries |-> "idle"]
  /\ routed = [q \in Queries |-> "auto"]
  /\ asked = [q \in Queries |-> 0]
  /\ reply = [q \in Queries |-> NoReply]
  /\ left = [q \in Queries |-> << >>]
  /\ result = [q \in Queries |-> "none"]
  /\ fallback = [q \in Queries |-> FALSE]
  /\ offered = [q \in Queries |-> << >>]
  /\ tried = [q \in Queries |-> << >>]
  /\ madeAt = -Ttl

-----------------------------------------------------------------------------
Finish(q, r) == pc' = [pc EXCEPT ![q] = "done"] /\ result' = [result EXCEPT ![q] = r]

\* The candidates rest are left to source s: the first is sent the query; when
\* there is none, INDEXER raises NoIndexersReachableError and AUTO falls back.
TryRest(q, s, rest) ==
  /\ left' = [left EXCEPT ![q] = rest]
  /\ IF rest # << >>
       THEN /\ pc' = [pc EXCEPT ![q] = "indexer"]
            /\ tried' = [tried EXCEPT ![q] = Append(@, Head(rest))]
            /\ UNCHANGED result
       ELSE /\ IF s = "auto" THEN pc' = [pc EXCEPT ![q] = "validator"] /\ UNCHANGED result
                             ELSE Finish(q, "noindexers")
            /\ UNCHANGED tried

LookedUp(q, s, candidates) ==
  TryRest(q, s, candidates) /\ offered' = [offered EXCEPT ![q] = candidates]

\* _route_query to its first await.  VALIDATOR looks no indexer up; with an
\* indexer_url that is the one candidate; a cached list young enough is used.
Call(q, s) ==
  /\ pc[q] = "idle"
  /\ routed' = [routed EXCEPT ![q] = s]
  /\ IF s = "validator"
       THEN /\ pc' = [pc EXCEPT ![q] = "validator"]
            /\ UNCHANGED <<asked, left, result, offered, tried>>
       ELSE IF override
         THEN LookedUp(q, s, <<"explicit-override">>) /\ UNCHANGED asked
         ELSE IF Fresh(cache, now)
           THEN LookedUp(q, s, Candidates(cache.data)) /\ UNCHANGED asked
           ELSE /\ pc' = [pc EXCEPT ![q] = "listing"]
                /\ asked' = [asked EXCEPT ![q] = now]
                /\ UNCHANGED <<left, result, offered, tried>>
  /\ UNCHANGED <<override, cache, now, reply, fallback, madeAt>>

\* The validator makes its list; the answer travels.
MakeList(q) ==
  /\ pc[q] = "listing" /\ reply[q] = NoReply
  /\ \E l \in Listings : reply' = [reply EXCEPT ![q] = [list |-> l, at |-> now]]
  /\ UNCHANGED <<override, cache, now, pc, routed, asked, left, result, fallback, offered, tried,
                 madeAt>>

\* Mutant: the age counts from the answer.
ListedNow(q) ==
  /\ pc[q] = "listing" /\ reply[q] # NoReply
  /\ cache' = Fetched(reply[q].list, now)
  /\ madeAt' = reply[q].at
  /\ LookedUp(q, routed[q], Candidates(reply[q].list))
  /\ UNCHANGED <<override, now, routed, lookup, fallback>>

\* list: the answer is cached over whatever another lookup cached meanwhile.
Listed(q) ==
  /\ pc[q] = "listing" /\ reply[q] # NoReply
  /\ cache' = Fetched(reply[q].list, asked[q])
  /\ madeAt' = reply[q].at
  /\ LookedUp(q, routed[q], Candidates(reply[q].list))
  /\ UNCHANGED <<override, now, routed, lookup, fallback>>

\* The list cannot be read: the query fails, AUTO as well.
NotListed(q) ==
  /\ pc[q] = "listing"
  /\ Finish(q, "error")
  /\ UNCHANGED <<override, cache, now, routed, lookup, left, fallback, offered, tried, madeAt>>

IndexerAnswers(q) ==
  /\ pc[q] = "indexer"
  /\ Finish(q, "indexer")
  /\ UNCHANGED <<override, cache, now, routed, lookup, left, fallback, offered, tried, madeAt>>

\* Mutant: the loop iterates over the list the eviction shortens.
IndexerFailsAliased(q) ==
  /\ pc[q] = "indexer"
  /\ \/ cache' = cache /\ TryRest(q, routed[q], Tail(left[q]))
     \/ /\ cache' = Evicted(cache, Head(left[q]))
        /\ TryRest(q, routed[q], SubSeq(left[q], 3, Len(left[q])))
  /\ UNCHANGED <<override, now, routed, lookup, fallback, offered, madeAt>>

\* An answer of 500 or above evicts the indexer; any other failure does not.
IndexerFails(q) ==
  /\ pc[q] = "indexer"
  /\ cache' \in {cache, Evicted(cache, Head(left[q]))}
  /\ TryRest(q, routed[q], Tail(left[q]))
  /\ UNCHANGED <<override, now, routed, lookup, fallback, offered, madeAt>>

\* Of the validator's answer the fallback mark says that indexers failed first.
ValidatorAnswers(q) ==
  /\ pc[q] = "validator"
  /\ Finish(q, "validator")
  /\ fallback' = [fallback EXCEPT ![q] = offered[q] # << >>]
  /\ UNCHANGED <<override, cache, now, routed, lookup, left, offered, tried, madeAt>>

\* A 403 or 404 is ValidatorHasNoDataError; anything else is raised as it is.
ValidatorFails(q) ==
  /\ pc[q] = "validator"
  /\ \E r \in {"nodata", "error"} : Finish(q, r)
  /\ UNCHANGED <<override, cache, now, routed, lookup, left, fallback, offered, tried, madeAt>>

\* The caller's own use of the cache: evict and invalidate.
Forget ==
  /\ cache' \in {NoCache} \cup {Evicted(cache, i) : i \in Indexers}
  /\ UNCHANGED <<override, now, pc, routed, lookup, left, result, fallback, offered, tried, madeAt>>

Tick ==
  /\ now < MaxTime
  /\ now' = now + 1
  /\ UNCHANGED <<override, cache, pc, routed, lookup, left, result, fallback, offered, tried, madeAt>>

\* A request that was sent ends.
Advance(q) ==
  \/ MakeList(q) \/ Listed(q) \/ NotListed(q)
  \/ IndexerAnswers(q) \/ IndexerFails(q) \/ ValidatorAnswers(q) \/ ValidatorFails(q)

RouteNext ==
  \/ \E q \in Queries : Advance(q) \/ \E s \in QuerySource : Call(q, s)
  \/ Forget
  \/ Tick

RouteSpec == RouteInit /\ [][RouteNext]_routeVars

-----------------------------------------------------------------------------
\* A lookup answered from the cache tells what the validator said less than a
\* time to live ago, however long the answer travelled and whichever of two
\* overlapping lists was stored last: the age counts from the question.
CachedListIsYoung == Fresh(cache, now) => now - madeAt < Ttl

\* A query gives indexers up only when each candidate its lookup returned was
\* tried, once and best first, although failures of this and other queries
\* evict entries of the cached list meanwhile; and the fallback mark tells
\* whether that happened before the validator answered.
GivesUpAfterAll ==
  \A q \in Queries :
    /\ tried[q] = SubSeq(offered[q], 1, Len(tried[q]))
    /\ pc[q] = "validator" \/ result[q] \in {"validator", "nodata", "noindexers"} =>
         tried[q] = offered[q]
    /\ result[q] = "validator" => fallback[q] = (tried[q] # << >>)

=============================================================================
