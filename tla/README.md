# Formal model of the Willow Python SDK

This directory specifies the parts of `src/src/willow` whose correctness depends
on order, or on bytes that must read back one way only: who gets which nonce, what
is signed and what the node rebuilds from it, what an error tells the application
it may do next, what a proof is bound to while the chain moves, which headers a
light client holds, and how uploads, connections and cached lists behave while
things fail around them. The specifications are TLA+,
model-checked with TLC on small instances; most of the safety properties are also
proved with TLAPS for every value of the constants (see Proofs).

All paths below are relative to `src/src/willow` unless they start with `src/`.
`PROJECT.json` maps every definition to the lines it models, and lists the runs,
the mutants that show each property can fail, the finding, the hazards and the
theorems.

## The system

The SDK is a client library. Almost all of it is single-threaded `asyncio`: what
runs between two `await`s is atomic, and other tasks of the application run at
each `await`. The nonce tracker alone takes a lock, since its methods may be
called from several threads.

| Component | Files | State | Operations | What makes it correct |
|---|---|---|---|---|
| Nonce tracker | `nonces.py` | per DID: base, nonces used above it, leases (`handed`), which hand-out each nonce went to (`handout`), the highest trusted base | `observe`, `trust_base`, `take`, `hold`, `claim`, `reclaim`, `settle`, `release` | no two writes in flight share a nonce; a used nonce stays used; the record of hand-outs is of the latest |
| Write submission | `client.py` (`WillowClient`) | the tracker, `interrupted_writes`; on each error `transaction`, `_handout` | the write methods, `resubmit`, `wait_until_landed` | a write runs at most once; one whose error carries no transaction never ran; no write reports another's landing |
| Write broadcast | `consensus/client.py` (`ConsensusClient`) | the same, and the retry loop's `maybe_sent` | the write methods, `resubmit` | the same, with retries that outlive the lease |
| Verified reads | `client.py` (`get_verified`, `_header_carrying`, `_trusted_app_hash`) | the search's range, the headers read | `get_verified` | what is returned is carried by a recent header of the caller's own node |
| Discovery and routing | `indexers.py`, `client.py` (`_route_query`) | the cached list and its age | `list`, `for_subgrove`, `evict`, `invalidate`, routed queries | no list older than its time to live; every candidate tried before giving up |
| Subscriptions | `subscriptions.py` | the socket, the loop's attempt counter, the queue, `last_indexer_did` | `subscribe`, iteration, `unsubscribe` | sockets closed; attempts counted; iterations and `unsubscribe` end |
| Light client | `light_client/` | held headers, the latest height, the verified range; a session and a sync task | first use, `initialize_with_trusted_header`, import, export, `get_header_by_height`, sync, `start`, `stop`, `verify_query_proof` | only headers vouched for are held; latest, range and held headers agree; a proof accepted is of the state it says; a stopped client holds nothing open |
| Files | `files.py` | per call: the next chunk, the deadline, the chunks read | `upload`, `download`, `metadata`, `delete` | an upload tells what was taken and ends; what is downloaded is one file that landed |
| GroveDB proofs | `grovedb/`, `proof.py` | the executor's stack, the layers being verified, the results | decode, execute, chain the layers | what is returned is stored under the root; no part of the path is skipped; an honest proof is accepted |
| Signed messages and calls | `signed_messages.py`, `consensus/types.py`, `client.py`, `privacy.py`, `auth.py`, `types.py` | the identity set on the client; per call its transactions, the one it is at, the results | the builders of both clients, `data.store`, `set_identity`, `clear_identity` | the node rebuilds what was signed; a signature is good for one body; a batch tells what happened; a grant can be revoked |
| Completeness | `completeness.py` | none kept between calls | `verify_block_completeness` | logs are called complete only when they are the block's |
| Ethereum state reads | `eth_state.py` | per call: the walk, the reads verified | `get_state`, `get_call`, the ERC-20 helpers | a value returned is the one under the state root of its answer |
| Subgrove manifests | `manifest.py` | none | pure functions of a document | |
| Computed fields | `computed_fields.py` | none | pure functions of a document | |
| ERC-8004, errors, HTTP bodies, utilities, command line | `erc8004/`, `errors.py`, `_body.py`, `utils.py`, `cli.py` | none | | |

How they interact: every write, whichever method builds it, goes through the
tracker and then through one of the two submission paths. The submission paths,
`wait_until_landed` and verified reads read the chain through an API and, when
`consensus_rpc_url` is set, through a consensus node the caller trusts; both may
lag, and they need not agree. Routed queries and subscriptions share one cache
of indexers. The submission code and the tracker share the hand-out id, which
errors carry out to the application and back in through `resubmit`. `data.store`
submits its items one by one through the submission path; `set_identity` can come
between any two of its steps. An upload's manifest is a write; its chunks go to a
storage node that learns of the manifest from the chain.

What is hard here: writes of one identity interleave at every `await`; requests
are lost, answered late or delivered after they were given up; leases run out
during a request; answers about the account overtake each other; a task is
cancelled at any `await`; the chain produces blocks and prunes headers between
the requests of one read; a file is replaced or deleted between the reads of its
chunks; fields of any text are joined into one signed text.

## Modules

| Module | Models | Built on |
|---|---|---|
| `NonceAccount` | the tracker's record of one DID and each method as an operator from account to account | |
| `NonceTracker` | the tracker under every sequence of calls its callers can make, with a history of the hand-outs | `NonceAccount` |
| `NonceAccountProofs` | what each method of the tracker makes of an account: the lemmas the next rows' proofs share | `NonceAccount` |
| `NonceTrackerProofs` | the theorems about the tracker | `NonceTracker`, `NonceAccountProofs` |
| `TxNode` | the API and the consensus node for one account: CheckTx, the mempool, blocks, copies still on the network (external to the repository) | |
| `WritePromise` | the abstract specification: what the application is told of each write, and how often it ran | |
| `Writes` | `WillowClient`'s writes, implementing `WritePromise` | `NonceAccount`, `TxNode` |
| `Broadcast` | `ConsensusClient`'s writes, implementing `WritePromise` | `NonceAccount`, `TxNode` |
| `WritesProofs`, `BroadcastProofs` | the theorems about the two, the refinements of `WritePromise` included | `Writes` and `Broadcast`, with `NonceAccountProofs` |
| `VerifiedRead` | one verified read against a chain that moves | |
| `IndexerCache` | the discovery cache as operators | |
| `Subscription` | one subscription, await by await | `IndexerCache` |
| `Routing` | concurrent routed queries over one cache | `IndexerCache` |
| `GroveState` | the grove a proof is of, its elements and its hashes as terms | |
| `MerkProof` | the stack machine that executes one merk proof | `GroveState` |
| `GroveProof` | the verifier: the envelope, layer below layer, and the Items returned | `MerkProof` |
| `VerifiedReadProofs` | the theorems about verified reads, and about what an accepted proof shows and which are accepted | `VerifiedRead`, `GroveProof` |
| `LightClient` | the light client's tasks, await by await, over endpoints of which some serve anything | |
| `LightClientProofs` | the theorems about it | `LightClient` |
| `Files` | uploads, deletes and a download of one key, with the manifest's landing and a storage node | |
| `TextFields` | what a signed text and a bincode body are made of: fields, numbers, bytes, lists, options | |
| `RegisterSubgrove` | the largest transaction: as the caller gives it, as the node decodes it, its bincode and message | `TextFields` |
| `SignedMessages` | every other kind of transaction, and `create_sign_message` and the body sent | `RegisterSubgrove` |
| `Signing` | calls of either client: building, taking a nonce, signing, sending, and what the node makes of it | `SignedMessages` |
| `ClientProofs` | the theorems about subscriptions and about calls that write | `Subscription`, `Signing` |
| `MerkleTrie` | Ethereum's trie and the walk of `verify_mpt_proof` | |
| `EthState` | state reads from an indexer | `MerkleTrie` |
| `Completeness` | one completeness check | |
| `FetchProofs` | the theorems about files, completeness checks and routed queries | `Files`, `Completeness`, `Routing` |
| `MC...` | the instances TLC checks | the module after `MC` |

### NonceAccount and NonceTracker

`_Account` is a record `[base, used, handed, handout, trusted, next]`. The
methods run under one lock and never await, so each is one operator, and each
call one action of `NonceTracker`: `Observe`, `TrustBase`, `Take` and `TakeNone`,
`Claim`, `Hold`, `Reclaim`, `SettleHandout`, `ReleaseUnsigned`. The `_refresh`
every call begins with is part of the action. `acc` and `now` are the program's
state; the other variables are a history of hand-outs (which nonce, when leased,
given back or not) that only properties and the callers' guards read.

The callers' discipline is in the guards: a hand-out that was given back is never
reclaimed, since its error carries no transaction; `release` without a hand-out
comes right after the hand-out it undoes. `Answers` are what a call may be told:
any base the API likes, up to the trusted one when there is one, or a base and a
set of used nonces from the consensus RPC.

### TxNode, WritePromise, Writes, Broadcast

A transaction is a pair of a write and a nonce; its bytes are those two, so a
copy sent again is the same transaction and the write signed again under another
nonce is a different one. `TxNode` says what CheckTx may answer, and that
transactions land in any order, are evicted, or arrive from the network after
their sender gave them up. It is modelled from what the SDK's refusal patterns
distinguish and from the README of the repository, since the node is not in it.
An answer about the account is the state after any earlier number of landed
transactions, so answers lag arbitrarily.

In `Writes` and `Broadcast` a request is two steps, the node's and the client's
reading of the answer, with everything else in between. `Handle` is
`_submit_signed` from the answer on (or `_broadcast_signed`): it settles the nonce
and decides whether the error carries the transaction. `Broadcast.Retry` is one
turn of the retry loop: `renew`, which reclaims the nonce, then another attempt;
`maybeSent` is the loop's `maybe_sent`. `Cancel` is a cancellation at the request's
`await`. `Writes.WaitUntilLanded` is one poll.

`WritePromise` says what both promise. Its state is a status and a number of runs
per write; `Run` is enabled once and only while the application may think the
write could have run. `KeepsPromise` in each module is the abstract specification
under the refinement mapping `status <- Status(w)`, `runs <- RunsOf(w)`, the runs
being those the blocks hold. It says at once that a write runs at most once and
that `"failed"` (no transaction on the error) means it did not run and will not
unless it is called again.

### VerifiedRead

`pc` is the header being read; each action is one request's answer and what
`_header_carrying` or `_trusted_app_hash` do before the next one. States are
numbered, a block with transactions making a new one, and never recur: every
transaction of an account moves a nonce. `height` and `root` are what the proof
served by the API claims, any values at all. `first` is what the node has not
pruned. The check of the proof's hashes and of the value against it is abstracted
to the root it yields (`GroveProof` models it).

### IndexerCache, Subscription, Routing

The cache is a record `[data, at]`. `Subscription.pc` names the `await` the pump
task (or, for the first connection, `subscribe` itself) is suspended in;
cancellation is `Unsubscribe`, which marks the `CancelledError` pending, then
`Interrupted`, what the code does where it arrives. `pc = "silent"` is a task that
ended without the sentinel in the queue. `cutAt` is history. The other users of
the cache are `OtherUse`. The source `override` behaves like `validator` (one
fixed endpoint) and is left out of the instance. In `Routing` each query is a
process; `MakeList` is the validator making the list, which then travels, so that
overlapping lookups store their answers in any order.

### GroveState, MerkProof, GroveProof

A hash is the term it is computed from, so two hashes are equal only if their inputs
are, with the exceptions the comments above `AMBIGUOUS_ELEMENT_LENGTH` and
`AMBIGUOUS_REFERENCED_LENGTH` work out: 63 bytes with the value hash of a subtree (or
of a reference), and 95 bytes with the hash of a subtree's root. Those two are values
in the model (`Puns`). `Grove` is the chain's state; what its trees hash to is in
`Root`, computed from the deepest subtrees up (`RootAt`).

`MerkProof` is one layer. `Step` is one turn of `execute_ops`, on a record of the
stack, the last key pushed and what the nodes prove so far; `Execute` runs it over
the operations. A tree on the stack is its top node and the hashes of its two
children, since every child is collapsed as it is attached; for the same reason
attached children have height 1 and the balance check cannot fail, so it is left out.

`GroveProof` is `verify_items_at_path` (or `verify_item_at_path`, whose
`only_items_at_path` is `request.only`) with the chain's root as
`expected_root_hash`. `frames` is the recursion of `_verify_layer_proof`: `Descend`
is a call, `Return` its end with the comparison of the combined hash. A layer is chosen when it is read,
among everything one or two pushed nodes can leave, of any type, at any key, with any
value and any of the grove's hashes. Layers whose root no subtree has are only
refused (`Malformed`), as they cannot lead up to the chain's root. `honest` and
`checked` are history. The one thing assumed of the caller, that
`only_items_at_path` is given only for a path that holds nothing but Items, is
`RequestsAssumption`.

### LightClient

`tasks` says what each application task and each background sync waits for; what it
does between two waits is one action (`FirstUse`, `FetchHeader`, `SyncHeight`,
`SyncHeader`). `trusted`, `latest` and `range` are `_trusted_headers`,
`_latest_height` and `_verified_height_range`. A header is its height, its app hash
and whether an endpoint served it; the clocks of the header checks move with the
blocks. `HeaderVerified` ends in `FALSE` because the code's `verify_header` does: a
header that passes every check is still refused, the signatures of its commit not
being checked. `MostCommon`, `Agreed` and `ConsensusHeader` are the two votes over
the endpoints' answers. `sessions` holds the session of each `start`, so that one
nobody closes is seen. `AcceptsProof` is `verify_query_proof`, which changes nothing.

### Files

A content hash is the content. `up` holds each upload's place, next chunk and
whether its deadline has passed; `Post` is one chunk's request, with every answer a
storage node gives: it may also take a chunk and lose the answer. `Land` is the
chain's: a manifest lands, is refused in its block, or waits for ever.
`MerkleRoot` pads an odd level with its own last hash, as `_compute_merkle_root`
does. `tampered` is history: the node served something else than it took.

### TextFields, RegisterSubgrove, SignedMessages, Signing

A text is a sequence of tokens: words, the labels of lines, and the characters that
could end a field (a line break, a colon, a quote). What the code joins with `"\n"`
or `":"` or writes with a length is joined so here, over tokens, so two different
transactions with one signed text would be seen. Numbers and bytes keep their
widths, over a base of 2 in the instance. A field of bytes is in one of the forms
callers may use (hex text, a list, bytes), and `ByteValues` makes them one. The
`Rule` of each kind is what the SDK refuses; `WireBody` is the body sent, from which
the node builds the message again. `StoreDataTxs` and its like are the transactions a
caller can give, every field of its type, over whatever `Chars` a text is made of; the
theorems range over them, and the instance picks from them.

`Signing` is a call from its arguments to the node's verdict. For a `ConsensusClient`
the key is an argument. A `WillowClient` call reads its owner at its start, the
account when it takes the nonce, and the key after that wait; `SetIdentity` and
`ClearIdentity` may come in between. A RegisterDid is its document's, and signed
before it waits. `data.store` is a sequence of transactions; a
call ends done, failed at one, or cancelled. `node` is what was received, taken, or
refused because its signature is not of the message the node builds.

### MerkleTrie, EthState, Completeness

A hash is the node it is of. `Trie` builds the trie of a map, as the chain does;
`WalkPath` and what is around it is the loop of `verify_mpt_proof`, one node of the
list a step. `EthState` goes through an answer's proofs in order; the indexer
chooses among everything: claims, nodes of any trie of the chain, nodes that are
none. `ethHonest` is history. `Completeness` is `verify_block_completeness`: the
commitment, the logs, `canonical_event_set_hash`. `Trie` is a `RECURSIVE` operator, so
nothing is proved in the first two. The run `MCAnchored` holds both, a behaviour
doing one or the other.

## Runs

| Run | Question | Bounds |
|---|---|---|
| `MCNonceTracker` | Are live hand-outs exclusive, records the latest, used nonces kept, under any calls and answers? | window 2, lease 1 tick, 3 hand-outs, bases up to 2, clock to 1 |
| `MCWrites` | Do two writes keep the promise, without a consensus RPC and with one, and are interrupted writes found? | 2 writes, window 2, clock to 1; 3 hand-outs without an RPC, 2 with one and posts that outlive their lease |
| `MCBroadcast` | Do retried writes keep the promise, one in flight per nonce? | 2 writes, either or both of them RegisterDids, 1 retry, window 1, lease 2, clock to 2 |
| `MCSigning` | Is what is signed what the node rebuilds, of one body only, whatever comes between the steps of a call? | 1,720 transactions of eleven kinds, batches of up to 3 items, 2 identity changes |
| `MCVerifiedRead` | Is what a read returns current and newest, and nothing current refused? | 6 blocks, lags 0, 2 and 4 |
| `MCGroveProof` | Is everything a verified proof gives stored, nothing on the path skipped, and an honest proof accepted? | 4 trees of 2 keys, depth 3, every kind of element and node but sum items, up to 2 pushes in a layer |
| `MCLightClient` | Does the client hold only headers vouched for, with latest, range and sync in step? | 3 endpoints, 1 of them wrong, 2 must agree; 3 blocks, 1 application task, 2 starts |
| `MCFiles` | Do uploads end and tell what was taken, and is a download one file? | 2 uploads of one key, up to 3 chunks of 2 bytes |
| `MCAnchored` | Is what a state read returns the chain's, an honest one accepted, and a complete set of logs the block's? | 2 blocks, 3 addresses, 6 slots, keys of 3 binary digits, 2 proofs an answer; up to 2 logs |
| `MCSubscription` | Are sockets closed, attempts counted, and is everyone who waits told of the end? | 2 indexers, limits 1, 2 and none, 1 payload queued |
| `MCSubscriptionUnsubscribe` | Does unsubscribe do what its docstring says? (finding) | |
| `MCRouting` | Is no list too old and no candidate skipped? | 2 queries, 3 indexers, time to live 2 |

Why the bounds are enough. Two writes already contend for a nonce, overtake and
cancel each other; a third hand-out lets a nonce go to one write, then another,
then a third, which the record of hand-outs has to survive. A window of 2 (24 in
the code) has a lowest nonce, a gap below a used one and a full state; `Broadcast`
takes 1, since what it adds is retries of a contested nonce. The lease is 1 or 2
ticks (120 s): what matters is before or after its end, and in `Broadcast` that an
attempt can end inside it while two attempts together do not. A history of 1
(4096) makes pruning happen. A chain of 6 blocks with a lag of 4 makes the binary
search take more than one step; lag 0 and 2 are its edges. A time to live of 2
lets a list be asked for, made and stored at three different times. Two pushes in a
layer are the fewest that attach a node to another, in all four ways, and a tree of
two keys has a node with a child and one without; the third tree level makes one layer
both a parent and a child. Three endpoints of which one is wrong are the fewest
with a majority that a wrong one can join in part; three blocks have one whose app
hash differs from the one before and one whose does not. Three chunks make an odd
level of the Merkle tree, two the even one with the same first chunk, and an empty
file none. Bytes count to two in `MCSigning` (u8 to 1, u32 to 15, u64 to 255), so
the numbers just inside and just outside each width are all there; the longest DID
has 11 tokens and the longest ID 2, and the texts include ones that end one field
and begin the next as another's would. Missing required fields and fields of the
wrong type are refused before anything modelled and are not enumerated. Keys of
three digits give a storage trie an extension, a branch under a branch, and leaves
with a path and without. The clock of `MCNonceTracker` goes to 1, so a lease ends
once; the theorems cover every later clock. Symmetry is
declared over the writes only, which are interchangeable but for being
registrations, and the state says which are; no run with a temporal liveness
property uses it. Deadlock is not checked where the bounds, or finished work, stop
the system, which is every run here but `MCSigning`, where it is.

For the properties that are theorems (see Proofs) the bounds are no limit to what is
known: they hold for every number of writes, retries, blocks, endpoints, chunks, logs,
indexers and queries.

### Fairness

`Writes`, `Broadcast` and `NonceTracker` claim safety only: the code promises
nothing about when a write lands. `Subscription` assumes weak fairness of what the
task does of itself, of `unsubscribe` and of the caller's iteration: discovery
requests have the SDK's deadline, connecting has `open_timeout`, closing
`close_timeout`, the backoff is a sleep. Nothing is assumed of the server: the
handshake's `recv` and the pump's have no timeout, so `RetriesEnd` is stated up to
reaching one of them. `Files` assumes that an upload's requests and sleeps end and
that its deadline passes, and nothing of blocks: a manifest need not land. `Routing`,
`LightClient`, `Signing`, `EthState` and `Completeness` claim safety only.
`VerifiedRead` assumes each request ends, with the header when the node serves it,
and that the clock reaches the timeout; it does not rely on requests failing, so a
search that made no progress would be seen.

### What the runs show of each property

Nonce tracker: `LeaseExclusive` is the reason the tracker exists: two hand-outs of
one nonce are never both entitled to it. It is claimed while no trusted answer has
lowered the base, which `DropsOnlyOnFirstTrust` shows can happen once only, and of
hand-outs a RegisterDid has not held over (it takes nonce 1 whoever has it, by
design). `IInv` says what `still_handed_to`, `reclaim` and late settles decide from
is right: the records are of the latest hand-out and none is pruned while its nonce
is out. `UsedStaysUsed` and `UsedNeverHandedOut` hold though answers arrive in any
order.

Writes: `KeepsPromise` above. `InterruptedKept`: a cancelled write can be found in
`interrupted_writes` until it is resubmitted or loses its nonce; claimed for a
client whose posts end within the lease (a timeout up to 40 s), without RegisterDids
and without the trusted drop. `NeverReportsLaterWrite`: `wait_until_landed` never
takes a later write's landing for the write's own, while the nonce's record is kept
and for writes that were not resubmitted after it was lost. `ReportedIsUsed`: with a
consensus RPC only blocks make a write landed.

Broadcast: `OneInFlight`: with the default timeouts no two writes are ever in
flight under one nonce not known to be used, however many attempts each makes; nonce 1
is left out where a RegisterDid may take it, or give it back: when signing one fails,
its release names no hand-out, so a nonce 1 that another write holds is free again
(`consensus/client.py:559`).

Signing: `SignatureBindsFields`: no two transactions the SDK would sign read as one
message, for the kinds whose docstring says that they bind every field (Transfer
and DeregisterSubgrove apply no line break rule and are left out). `NodeTakesSigned`:
the only writes refused for their signature are those whose identity changed on the
way. `GrantsCanBeRevoked`: the checks of grants and registrations are at least as
strict as those of the revoke. `BatchSaysWhatHappened`: `submitted` and `failed_key`
of a batch's error are true, for failures, lost answers and cancellations at any
item.

Verified reads: `ReturnedIsCurrent` (recent, carrying the root, and the newest that
does), `RefusedOnlyWhenStale` (one look at the oldest recent header decides for all
of them; claimed of proofs that tell the truth about their height, the others being
refused for that), `ReadEnds`. With a lag of 0 the latest header itself is accepted
although the definition of recent, read strictly, would exclude it;
`ReturnedIsCurrent` states what the code does.

Proofs: `ProvenIsStored` is what "verified" means, for every entry and not only for
those returned: the value is what the chain stores at that path and key, whichever nodes
the proof was put together from; and the same of what the caller gets, the 63-byte
elements that `only_items_at_path` lets through included. `CheckedToPath`: no layer on
the way to the path was left out, which the root alone would not notice.
`HonestAccepted`: none of the checks that make the first two hold refuses a proof the
chain's prover makes, or withholds its Items, but for the ambiguous length. They do
not say that the Items returned are all there are: the code does not either.

Light client: `HeldIsVouched`: whatever tasks interleave, nothing a sync or a lookup
fetched is ever held. `HeldAppIsChains`: the vote over the endpoints, which compares
app hashes only, lets no wrong app hash through while the wrong endpoints are fewer
than must agree; it says nothing of a header's other fields. `RangeIsHeld`: latest,
range and the height of a successful sync are of headers held. `ProvedIsState`: a
proof is of the state after the block it names, not of the one before, and an Item
proves one entry of an answer. `StoppedHoldsNothing`: no task and no session
outlives a `stop`, of a client started once before each.

Files: `ProgressIsTaken`: `chunk_index` is the truth about what the node has.
`DownloadIsOneFile`, `HonestNeverMismatches`: a file replaced or deleted between the
reads is neither mixed nor called corrupt. `RootBindsContent`: of manifests `upload`
makes, the padded Merkle root and the chunk count leave no second reading.
`UploadEnds`: an upload of a manifest that never lands ends at its deadline.

Anchored: `ReadIsState`: an account or slot `get_state` returns is what the state
whose root the answer gives holds there. `HonestReadAccepted`: honest data is refused
for two reasons only (see Observations). `CompleteIsChains`: one log more, less or
with bytes moved across a boundary is told apart, and nothing is called tampered
that is not.

Subscriptions: `SocketsClosed`: exactly the socket in use is open, but for a
cancellation in a handshake or before the task's first step. `GivesUpAtLimit`: the
limit counts every attempt since the last payload. `EndIsTold`: `unsubscribe` returns
whenever it comes, and an iteration stops when the task ended with its sentinel. A
cancellation before the first step, or in the close of the loop's `finally`, leaves
none (`pc = "silent"`); both are excepted, and are what `UnsubscribeEnds` refutes.
`RetriesEnd`: no failed attempt goes uncounted. Routing: `CachedListIsYoung`,
`GivesUpAfterAll`.

## Findings

One run is refuted by TLC; the quotes and the mechanism are in `PROJECT.json`.

`UnsubscribeEnds`: unsubscribing before the pump's first step leaves the socket
open and a later iteration waiting. A cancellation in a reconnect's handshake
leaks the socket too, a cancellation of the closing `close` skips the sentinel,
and there is one sentinel only.

## Observations

Met while modelling, and in the models as the code has them, with no run of their
own:

- Tracker: the record of a nonce is one id, and a refusal pops it. Three writes get
  one nonce as leases run out, the third is refused, and `reclaim` then lets the first
  be resubmitted over the second (`nonces.py:295`), contrary to `nonces.py:15-18`.
- Tracker: the first trusted answer lowers the base below what the API answered before;
  the leases and used nonces forgotten on the way up are not restored, and a nonce in
  flight is handed out again (`nonces.py:208`). `LeaseExclusive` excepts it.
- Broadcast: the error for a used nonce carries the hand-out recorded when it is
  raised, not the one the write was sent under (`consensus/client.py:575`), which is
  another write's when the lease ran out in between. The bytes are still those of the
  one write, so it runs at most once.
- Broadcast: once a used nonce has lost its record, `resubmit` leases it to every write
  that ever had it, so several can be in flight under it; none of them can run.
- Writes: `resubmit` of a write whose nonce has no record any more makes it the nonce's
  last owner, though another write may have had the nonce in between.
  `wait_until_landed` can then report that write's landing as its own (`nonces.py:295`).
- Subscriptions: with no limit, the 1025th attempt in a row ends the subscription with
  an `OverflowError` in the delay (`subscriptions.py:318`), though `None` "means retry
  forever".
- Subscriptions: the module's docstring says reconnects pick the next-best indexer, but
  the eviction is lost when the cached list has expired meanwhile, so a reconnect can
  return to the indexer that dropped it.
- Light client: a client that holds no header, asked to sync while the chain is at its
  first block, reports success at height 1 without a header (`light_client/client.py:251`);
  the docstring of `sync_to_latest` says it fails at the first header it does not hold.
- Light client: initialising again below headers held lowers the latest height, so
  `get_verified_root_hash` is of the latest given, not of the highest held. A second
  `start` drops the first one's session and task, which `stop` then does not reach.
- State reads: an honest proof of a slot that is zero is refused, since the expected
  value is an encoded empty string and an absent key is found as no bytes at all
  (`eth_state.py:210`, 144); so is one whose leaf is embedded in its branch (146). A leaf
  or extension child that is no byte string reads as absent.
- State reads: the slot index of the ERC-20 helpers is cut to its last byte without an
  error (`eth_state.py:222`, 228). `get_state` does not compare the address, slots or
  block of the answer with those asked for, and the result and state root of `get_call`
  are the indexer's word.
- Store batches: two items of one key are one item of the call (`client.py:551`).
- Signed messages: `_hex` takes `0X` and hex with spaces, which
  `_hex_signature_to_bytes` does not. In a Transfer a memo of `None` and an empty one
  are signed alike.
- The account whose nonce a write takes is the identity's at that moment
  (`client.py:1986`), its owner and its key are read before and after: an identity
  changed and changed back in between gives a write that is taken, under a nonce counted
  for the other account, with a result that names the other account.

## Proofs

A theorem holds for every value of the constants their named assumptions allow, and
for behaviours of any length: any set of writes (`Ops`), any window, lease and history
above 0, any number of hand-outs, retries and blocks; any chain and lag; any finite grove of
one or two keys a tree, of any depth; any endpoints of which fewer than must agree are wrong; contents
of any length and any chunk size; any logs; any listings, limits and time to live. Two
assumptions say more than the shape of a constant: `ConfigAssumption` (fewer wrong
endpoints than `min_validators`, and a configuration the client accepts) and
`RequestsAssumption` (what a caller asserts with `only_items_at_path` is so). Every
module with an assumption is extended by a module of a run.

| Module | Theorem | States |
|---|---|---|
| `NonceTrackerProofs` | `Invariant`, `TypeCorrect`, `RecordsAreLatest`, `HandedAreRecorded`, `TrustedBaseCaps` | `[]IInv`, and the conjuncts of it worth naming |
| | `LeasesAreExclusive`, `UsedStays`, `UsedAreNotHandedOut`, `DropsOnce` | `LeaseExclusive`, `UsedStaysUsed`, `UsedNeverHandedOut`, `DropsOnlyOnFirstTrust` |
| `WritesProofs` | `NodeInvariant`, `WritesTypeCorrect` | `[]NodeInv`, `[]TypeOK` |
| | `PromiseIsKept` | `KeepsPromise`: `Writes` implements `WritePromise` |
| | `ReportsAreOfUsed`, `LandingsAreOwn`, `InterruptedAreKept` | `ReportedIsUsed`, `NeverReportsLaterWrite`, `InterruptedKept` |
| `BroadcastProofs` | `BroadcastInvariant`, `BroadcastTypeCorrect` | `[]NodeInv`, `[]TypeOK` |
| | `BroadcastKeepsPromise`, `OneIsInFlight` | `KeepsPromise`, `OneInFlight` |
| `VerifiedReadProofs` | `ReadInvariant`, `ReadTypeCorrect` | `[]ReadInv`, `[]TypeOK` |
| | `WhatIsReturnedIsCurrent`, `OnlyStaleIsRefused` | `ReturnedIsCurrent`, `RefusedOnlyWhenStale` |
| | `GroveInvariant`, `StoreInvariant` | `[]GroveInv` and `[]StoreInv` of `GroveProof` |
| | `ProofIsChecked`, `ProvenValuesAreStored`, `HonestProofsAreAccepted` | `CheckedToPath`, `ProvenIsStored`, `HonestAccepted` |
| `ClientProofs` | `SubscriptionInvariant`, `SubscriptionTypeCorrect` | `[]SubInv`, `[]TypeOK` |
| | `SocketsAreClosed`, `LimitIsKept` | `SocketsClosed`, `GivesUpAtLimit` |
| | `CallInvariant` | `[]CallInv` |
| | `BatchAccountIsTrue`, `NodeTakesWhatWasSigned`, `GrantsAreRevocable` | `BatchSaysWhatHappened`, `NodeTakesSigned`, `GrantsCanBeRevoked` |
| | `SignatureBinds` | `SignatureBindsFields` |
| `LightClientProofs` | `HeldInvariant` | `[]HeldInv` |
| | `HeldAreVouched`, `HeldAppsAreTheChains`, `AcceptedIsState`, `RangesAreHeld`, `StoppedHoldNothing` | `HeldIsVouched`, `HeldAppIsChains`, `ProvedIsState`, `RangeIsHeld`, `StoppedHoldsNothing` |
| `FetchProofs` | `TypeInvariant`, `DownloadInvariant`, `DoneInvariant`, `RouteInvariant` | `[]TypeOK` with `ProgressIsTaken`, `[]DownloadInv`, `[]DoneInv`, `[]RouteInv` |
| | `ProgressesAreTaken`, `DownloadsAreOneFile`, `HonestNodesNeverMismatch`, `RootsBindContents` | `ProgressIsTaken`, `DownloadIsOneFile`, `HonestNeverMismatches`, `RootBindsContent` |
| | `CompleteLogsAreTheChains` | `CompleteIsChains` |
| | `CachedListsAreYoung`, `QueriesTryAll` | `CachedListIsYoung`, `GivesUpAfterAll` |

### How they go

*The tracker.* `LeaseExclusive` is not inductive: it says nothing of the tracker's
record, so a state in which a live hand-out's nonce is missing from `handed` satisfies
it and the next `take` breaks it. `IInv` adds `LeaseRecorded` (every live hand-out is in
`handed`, with the time of its lease, under its own id), and for that to survive a
late refusal and a reclaim, `RecordIsLatest` and `HandedRecorded`: a settle frees a
nonce only if the record names its hand-out, and a nonce that is handed has a record.
Exclusivity follows, since the record of a nonce names one hand-out.
`NonceAccountProofs` says of each method, field by field, what it leaves
(`RefreshFacts`, `HandOutFacts`, `SettleFacts`, `ReclaimedFacts`); `NonceTrackerProofs`
that it keeps the invariant, with one case per action. The action properties rest on
`BaseMoves`: every step but `trust_base` takes in an answer or leaves the base alone.

*The writes.* `NodeInv` is about copies: every copy of a transaction, in the mempool, on
the network or in a block, is the one its write is signed as; a write not sent, or failed
without a transaction, has none; the mempool holds one transaction of a nonce. With it
each step is a step of `WritePromise` or a stutter (`PromiseStep`), and a landing is its
`Run`, which happens once since one nonce admits one transaction. That below the tracker's
base every nonce is used, the last part in `Writes`, makes `ReportedIsUsed` hold. The
ledger of hand-outs (`LedgerInv`: a write the record names is the last that had the nonce,
unless the record was lost) gives `NeverReportsLaterWrite`; that a write being posted
holds its nonce (`QuietInv`) gives `InterruptedKept`. `OneInFlight` has `FlightInv`: an id is of
one nonce and one write, and a posting write's nonce is leased since its attempt began
and recorded under its id, so two posting writes with one nonce would be two names in one
record.

*Verified reads.* `Knows` is the search's loop invariant, one clause per await: the root
is carried at `low`, and at no height above `high` up to the latest read. It needs
`StatesGrow`: blocks make later states, so headers that carry a root are consecutive.
Headers that expire during the search only end it.

*Layers of a proof.* `GroveInv`: the frames go down the path one segment each, and what a
frame consumed was checked down to the path's end. `check_envelope` gives each level one
lower layer, so "no lower layer unproven" carries the fact up from the last frame to the
root's, frame by frame.

*What a proof proves.* `RootFacts` is what the argument stands on: the recursive `Root`
has a value at every path, which follows from the grove being finite and its trees
shallower than that (`RootsExist`, a least counterexample on the depth). With it
`LayerMatches` says of every layer the operations can leave: if its root is a subtree's,
each of its entries has the value hash stored at its key (a single node is the first
key's; of two, the parent is, and the child can only be to its right). `StoreInv` carries
this through the verification, whose order is the hard part: a result is kept before
anything says that its layer is the chain's, and the root is compared last. So it says
of a result that it is what the grove has *if* some frame still open is the grove's. A
frame whose parent is the grove's and binds it is the grove's too (`EntryCommits`), which
lets `Return` drop it, and `Finish` finds the root frame to be the grove's. That an
entry with the right value hash has the right bytes (`EntryBinds`) is where the ambiguous
lengths are excluded. `HonestInv` says of an honest proof's frames that the keys of lower
layers are consumed or still ahead, so that none is unproven at the end.

*The light client.* `HeldInv` holds since `verify_header` accepts nothing: only what was
given, imported or read at first use is held. That the votes give a header of the chain
is `Agreed` on counts: endpoints that agree on an app hash and are more than the wrong
ones include one that is not wrong. `RangeInv` relates latest, range and sync heights to
the held headers, `StopInv` each start to the session and task it made.

*Files and logs.* Here the data is proved about too. The library's induction theorems
take operators as parameters and cannot be used, so an induction is a least
counterexample: the set of lengths at which the claim fails would have a least element
(`LeastNat`, from the well-foundedness of `<`). So: joining the chunks of a content gives it
back (`FlattenChunks`), the padded Merkle root of so many chunks is theirs alone
(`MerkleRootBinds`, one level at a time), and the bytes of a set of logs are theirs alone
(`EventSetHashBinds`: two logs' bytes start alike only if they are the same log, which
places the next one). `DownloadInv` and `DoneInv` say that verdicts are of
what was collected or given.

*Queries.* `YoungInv`: the cache is never younger than its list, whatever order answers
arrive in; `RouteInv`: a query's candidates are those it gave up, the one it is
at, and those left, in this order.

*Calls that write.* `CallInv` says of a call under way that every transaction of it can be
signed (all are checked before any is sent), that its results are of the transactions
before the one it is at, in order, each taken by the node, and that the key it will sign
with, given at the start or read at the signing, is the signer's unless the identity
changed since. `BatchSaysWhatHappened` is the middle part. `NodeTakesSigned` needs that the
node builds the same message from the body (`SameMessage`): a grant, a document or a
registration written out as it is sent stays as it is when written out again, field by
field (`KeyGrantFacts`, `DocumentAgain`, `ModeAgain`, `RegistrationFacts`), so the only
signature the node refuses is of a key read after a change. `GrantsCanBeRevoked` follows
from the rules of the three kinds that grant; for a registration they are checked on the
written-out body, and `RegistrationFacts` relates it to what the caller gave.

*One message, one body.* `SignatureBindsFields` is about texts read from the left. Two
texts `Fit` if, as far as both go, they are the same; two values of a kind are `Told`
apart by their codes if codes that fit are the same code. What is told apart may be put
in a row (`Told2` to `Told7`, `FlattenTells`) without a value's end being mistaken, and
each layout of the code is shown to be such a row, on the rules its builder checks:

- lines (`LinesBind`): `_field` keeps a line break out of every value, so the first one
  ends the line, whatever labels or colons the value holds (`Until`). Grants follow
  one another in blocks of seven lines, as many as the line before them says
  (`BlocksTell`);
- the colons of a revoke: the subgrove ID holds none (`KeySubgroveRule`), and in the DIDs,
  which do, the two of the prefix are at known places and what follows holds none (`DidParts`);
- bincode, which a registration is hashed over (`BincodeTells`): a number has its width
  because the rules keep it in range (`LittleTells`), a text, list or byte field begins
  with its length, an option or variant with which it is. This holds of bodies as sent
  (`BodySent`), and what the rules take is sent so (`BodyIsSent`);
- JSON (`DocumentTells`): a text ends at its closing quote since quotes in it are escaped
  (`EscapedTells`), a list at its bracket since no item begins as that (`ListTells`).

Messages of different kinds begin differently (`KindHeads`), and `OneBody` puts the nine
together. A `Sha256` or `Hex` is a token of what it is of, so the hash is taken to have no
collisions; that a registration's schema is what its text parses to is part of
`SigningAssumption`.

### Only model-checked

- `ReadIsState` and `HonestReadAccepted` of `EthState`: it reaches `Trie`, a `RECURSIVE`
  operator, which the prover's SMT backend does not allow.
- Liveness (`EndIsTold`, `RetriesEnd`, `UploadEnds`, `ReadEnds`): fairness and `ENABLED` are out of
  the prover's reach.

## Not modelled

- Cryptography, key formats and key caches (`auth.py`, `privacy.py`). Hashes are terms.
  The decoders of proofs and RLP: a proof is what they yield.
- HTTP mechanics (size caps, decoding, redirects): a request is answered, fails
  after it may have left, or fails before. The header endpoint's answers are assumed
  to parse.
- Query signatures and their timestamps (`auth.py`): no state, one text per request.
- The wait for a free nonce and its timeout: `Reread` is one turn of it.
- Status, chain-id and height queries of `ConsensusClient`: no state.
- `VerifyOptions.limit` and `quick_verify` of `grovedb/`; the wrappers of `proof.py`.
- The contents of answers and payloads, delays and their jitter.
- `manifest.py`, `computed_fields.py`, `erc8004/`, `cli.py` and the classes of
  `types.py` and `errors.py`: pure functions, stateless reads, data.

## Plan

Done: every component with state or order is modelled and checked, and the safety
properties of all but state reads are proved. What is left:

- Theorems: those of `GroveProof` for layers of any number of nodes, by an invariant
  of `Step`.
- Abstract specifications: a register of the latest state, which `VerifiedRead`
  implements; a map from heights to headers, which `LightClient` implements.
- Model: `VerifyOptions.limit`, which `verify_grovedb_proof` takes and the layers
  subtract from, and `quick_verify`.
