---------------------------- MODULE Completeness ----------------------------
(***************************************************************************)
(* CompletenessOperations (src/willow/completeness.py): the commitment to  *)
(* a block's matched logs is read from the consensus node, the logs from   *)
(* the indexer, and the logs are hashed and compared.                      *)
(*                                                                         *)
(* Bytes are small numbers and a hash is what was hashed, so an address or *)
(* a topic is as long as AddressLen and TopicLen say, and a length prefix  *)
(* is one number.  The node commits a block's logs at some moment and      *)
(* keeps them; the indexer sends any logs.                                 *)
(***************************************************************************)
EXTENDS Integers, Sequences, SequencesExt

CONSTANTS
  AddressLen, TopicLen,  \* of the bytes of an address and of a topic
  MatchedLogs,           \* the sets of matched logs the block may have
  ServedLogs,            \* the sequences of logs the indexer may send
  Configured             \* the sets of URLs the client may be given

VARIABLES
  urls,       \* which URLs the client has
  matched,    \* the block's matched logs
  committed,  \* whether the chain has committed to them
  doneAt,     \* "called", "anchored", "complete", "tampered", "error" or "invalid"
  anchor,     \* the commitment the client read
  served      \* the logs it was sent

doneVars == <<urls, matched, committed, doneAt, anchor, served>>

-----------------------------------------------------------------------------
\* An entry's topics and data may be missing: a sequence of them, or of none.
OrEmpty(field) == IF field = << >> THEN << >> ELSE Head(field)

\* log_from_indexer_json.
Decoded(entry) ==
  [address |-> entry.address, topics |-> OrEmpty(entry.topics), data |-> OrEmpty(entry.data)]

WellFormed(log) ==
  /\ Len(log.address) = AddressLen
  /\ \A i \in DOMAIN log.topics : Len(log.topics[i]) = TopicLen

\* Logs as they are hashed, and as the indexer sends them.
Logs == [address : Seq(Nat), topics : Seq(Seq(Nat)), data : Seq(Nat)]
Entries == [address : Seq(Nat), topics : Seq(Seq(Seq(Nat))), data : Seq(Seq(Nat))]

ASSUME CompletenessAssumption ==
  /\ AddressLen \in Nat \ {0} /\ TopicLen \in Nat \ {0}
  /\ Configured \subseteq SUBSET {"consensus_rpc_url", "indexer_url"}
  /\ MatchedLogs \subseteq Seq({log \in Logs : WellFormed(log)})
  /\ ServedLogs \subseteq Seq(Entries)

\* Mutant of CanonicalBytes: data is not preceded by its length.
CanonicalBytesOpen(log) ==
  log.address \o <<Len(log.topics)>> \o FlattenSeq(log.topics) \o log.data

\* Log.canonical_bytes.
CanonicalBytes(log) ==
  log.address \o <<Len(log.topics)>> \o FlattenSeq(log.topics) \o <<Len(log.data)>> \o log.data

\* canonical_event_set_hash, of the one block asked for.
EventSetHash(logs) == <<"events", Len(logs), FlattenSeq([i \in DOMAIN logs |-> CanonicalBytes(logs[i])])>>

DoneInit ==
  /\ urls \in Configured
  /\ matched \in MatchedLogs
  /\ committed = FALSE /\ doneAt = "called" /\ anchor = << >> /\ served = << >>

Commit ==
  /\ ~committed /\ committed' = TRUE
  /\ UNCHANGED <<urls, matched, doneAt, anchor, served>>

End(outcome) == doneAt' = outcome /\ UNCHANGED <<urls, matched, committed, anchor, served>>

\* fetch_anchor: without a node to ask, or with nothing committed, there is none.
FetchAnchor ==
  /\ doneAt = "called"
  /\ IF "consensus_rpc_url" \in urls /\ committed
       THEN /\ doneAt' = "anchored" /\ anchor' = EventSetHash(matched)
            /\ UNCHANGED <<urls, matched, committed, served>>
       ELSE End("error")

\* The request fails, or its answer is an RPC error or empty.
AnchorFails == doneAt = "called" /\ "consensus_rpc_url" \in urls /\ End("error")

\* fetch_matched_logs and verify_served_events.
Compare ==
  /\ doneAt = "anchored" /\ "indexer_url" \in urls
  /\ \E entries \in ServedLogs :
       LET logs == [i \in DOMAIN entries |-> Decoded(entries[i])]
       IN /\ served' = entries
          /\ doneAt' = IF \E i \in DOMAIN logs : ~WellFormed(logs[i]) THEN "invalid"
                       ELSE IF EventSetHash(logs) = anchor THEN "complete" ELSE "tampered"
  /\ UNCHANGED <<urls, matched, committed, anchor>>

\* There is no indexer, or it has no logs of the block.
LogsFail == doneAt = "anchored" /\ End("error")

DoneNext == Commit \/ FetchAnchor \/ AnchorFails \/ Compare \/ LogsFail

DoneSpec == DoneInit /\ [][DoneNext]_doneVars

-----------------------------------------------------------------------------
\* A set of logs is called complete exactly when it is the block's, in order:
\* one log more or less, or bytes moved across the boundary of two logs or of
\* two fields, is told apart, and a check that could not be made is neither
\* (verify_block_completeness).
CompleteIsChains ==
  /\ doneAt = "complete" => [i \in DOMAIN served |-> Decoded(served[i])] = matched
  /\ doneAt = "tampered" => [i \in DOMAIN served |-> Decoded(served[i])] # matched
  /\ doneAt \in {"complete", "tampered"} => committed
=============================================================================
