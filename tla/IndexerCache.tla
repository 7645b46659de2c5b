---------------------------- MODULE IndexerCache ----------------------------
(***************************************************************************)
(* The indexers the validator lists, and the SDK's cache of the list       *)
(* (WillowIndexers in src/willow/indexers.py).  A pure module: the state   *)
(* is a record that subscriptions and routed queries share.  An entry of   *)
(* the list is [did, serves, score]; "serves" stands for an active status  *)
(* and the subgrove being among the entry's subgroves.                     *)
(***************************************************************************)
EXTENDS Integers, Sequences, FiniteSets

CONSTANTS
  Indexers,  \* the DIDs of indexers
  Listings,  \* the answers GET /indexers may give
  Ttl        \* cache_ttl_seconds

ASSUME ListingsAssumption == \A l \in Listings : l \in Seq([did : Indexers, serves : BOOLEAN, score : Nat])
ASSUME TtlAssumption == Ttl \in Nat

\* A cache that was never filled, or was invalidated: older than any time to live.
NoCache == [data |-> << >>, at |-> -Ttl]

\* list: the cached data is used while it is younger than the time to live.
Fresh(cache, now) == now - cache.at < Ttl

\* list: an answer replaces the cache; its age counts from when it was asked for.
Fetched(listing, asked) == [data |-> listing, at |-> asked]

\* The entries of data at the places in S, each after those it is paired with.
InOrder(data, S, before) ==
  [r \in 1..Cardinality(S) |->
     data[CHOOSE i \in S : Cardinality({j \in S : <<j, i>> \in before}) = r - 1]]

\* evict: one indexer leaves the cached data, whose age does not change.
Evicted(cache, did) ==
  LET places == DOMAIN cache.data
  IN [cache EXCEPT !.data =
        InOrder(cache.data, {i \in places : cache.data[i].did # did},
                {p \in places \X places : p[1] < p[2]})]

\* for_subgrove: the entries that serve, by descending score; the sort is stable.
Candidates(data) ==
  LET places == DOMAIN data
      better == {p \in places \X places :
                   \/ data[p[1]].score > data[p[2]].score
                   \/ data[p[1]].score = data[p[2]].score /\ p[1] < p[2]}
      serving == InOrder(data, {i \in places : data[i].serves}, better)
  IN [r \in DOMAIN serving |-> serving[r].did]
=============================================================================
