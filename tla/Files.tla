-------------------------------- MODULE Files --------------------------------
(***************************************************************************)
(* FileOperations (src/willow/files.py): uploads of one file key, whose    *)
(* manifests go through consensus and whose chunks go to a storage node,   *)
(* deletes of it, and a download, all interleaved.                         *)
(*                                                                         *)
(* A file is its bytes, a short sequence; a SHA-256 is what was hashed, so *)
(* a content hash is the content.  The chain and the storage node are not  *)
(* in the repository: upload's docstring says when the node takes a chunk, *)
(* and its URLs say that chunks are kept by content hash and index.        *)
(***************************************************************************)
EXTENDS Integers, Sequences, SequencesExt

CONSTANTS
  Uploads,    \* calls of upload
  Calls,      \* the contents they may be of: functions from Uploads
  ChunkSize   \* DEFAULT_CHUNK_SIZE

ASSUME FilesAssumption ==
  /\ ChunkSize \in Nat \ {0}
  /\ Calls \subseteq [Uploads -> Seq(Nat)]

VARIABLES
  up,        \* each upload: where it is, its content, the next chunk, its deadline
  down,      \* the download: where it is, its manifest, the chunks it got
  mempool,   \* transactions CheckTx accepted, not yet in a block
  manifest,  \* the manifest on chain
  taken,     \* the storage node's chunks, by content hash and index
  landed,    \* history: the manifests that landed
  tampered   \* history: a chunk was served that is not the one of its place

vars == <<up, down, mempool, manifest, taken, landed, tampered>>
node == <<mempool, manifest, taken, landed>>

-----------------------------------------------------------------------------
\* Mutant of Chunks: the bytes after the last whole chunk are left out.
ChunksWhole(data) ==
  [i \in 1..(Len(data) \div ChunkSize) |-> SubSeq(data, (i - 1) * ChunkSize + 1, i * ChunkSize)]

\* _chunk_data
Chunks(data) ==
  [i \in 1..((Len(data) + ChunkSize - 1) \div ChunkSize) |->
     SubSeq(data, (i - 1) * ChunkSize + 1, IF i * ChunkSize < Len(data) THEN i * ChunkSize ELSE Len(data))]

\* Mutant of NextLevel: an odd last hash goes up without its pair.
NextLevelPaired(hashes) ==
  [i \in 1..(IF Len(hashes) = 1 THEN 1 ELSE Len(hashes) \div 2) |->
     <<"node", hashes[2 * i - 1], hashes[IF Len(hashes) = 1 THEN 1 ELSE 2 * i]>>]

\* One round of _compute_merkle_root: an odd last hash is its own pair.
NextLevel(hashes) ==
  [i \in 1..((Len(hashes) + 1) \div 2) |->
     <<"node", hashes[2 * i - 1], hashes[IF 2 * i > Len(hashes) THEN 2 * i - 1 ELSE 2 * i]>>]

\* The rounds of _compute_merkle_root from the hashes of the chunks, until one
\* hash is left; a single leaf is also paired with itself.
Levels(chunks) ==
  LET level[n \in 0..Len(chunks)] ==
        IF n = 0 THEN [i \in DOMAIN chunks |-> <<"leaf", chunks[i]>>]
        ELSE IF n > 1 /\ Len(level[n - 1]) = 1 THEN level[n - 1] ELSE NextLevel(level[n - 1])
  IN level

\* _compute_merkle_root
MerkleRoot(chunks) ==
  IF chunks = << >> THEN <<"zeros">> ELSE Head(Levels(chunks)[Len(chunks)])

NoManifest == [content_hash |-> <<0>>, chunk_count |-> 0, root |-> <<"none">>]

\* What upload signs and submits of a content.
Manifest(data) ==
  [content_hash |-> data, chunk_count |-> Len(Chunks(data)), root |-> MerkleRoot(Chunks(data))]

Store(data) == [type |-> "StoreFileManifest", manifest |-> Manifest(data)]
Delete == [type |-> "DeleteFileManifest", manifest |-> NoManifest]

Upload(at, data, next, late) == [at |-> at, data |-> data, next |-> next, late |-> late]
Download(at, m, got) == [at |-> at, manifest |-> m, got |-> got]

Init ==
  /\ \E data \in Calls : up = [u \in Uploads |-> Upload("called", data[u], 1, FALSE)]
  /\ down = Download("idle", NoManifest, << >>)
  /\ mempool = {} /\ manifest = NoManifest /\ taken = {} /\ landed = {}
  /\ tampered = FALSE

To(u, at) == up' = [up EXCEPT ![u].at = at]

-----------------------------------------------------------------------------
\* _sign_and_submit: accepted; refused; or no answer, with the transaction
\* admitted or not.
Submit(u) ==
  /\ up[u].at = "called"
  /\ \E answer \in {"accepted", "refused", "lost"} :
       /\ To(u, IF answer = "accepted" THEN "chunks" ELSE "unsubmitted")
       /\ mempool' \in
            (IF answer = "refused" THEN {} ELSE {mempool \cup {Store(up[u].data)}})
            \cup (IF answer = "accepted" THEN {} ELSE {mempool})
  /\ UNCHANGED <<down, manifest, taken, landed, tampered>>

\* landing_timeout passes since the submission.
DeadlinePasses(u) ==
  /\ up[u].at \in {"chunks", "sleeping"} /\ ~up[u].late
  /\ up' = [up EXCEPT ![u].late = TRUE]
  /\ UNCHANGED <<down, node, tampered>>

Chunk(u) == Chunks(up[u].data)[up[u].next]
AllSent(u) == up[u].next > Len(Chunks(up[u].data))

\* What the node answers a chunk: 200 and 403 by the manifest on chain, 503
\* while it cannot reach consensus, another refusal, or nothing.
Statuses(u) ==
  {503, 413, 0} \cup (IF manifest.content_hash = up[u].data THEN {200} ELSE {403})

\* Mutant of Took: an answer that is no server error is success.
TookBelow500(status) == status \in 200..499

Took(status) == status \in 200..299

\* Mutant of Retries: the deadline is not looked at.
RetriesAlways(status, late) == status \in {403, 503}

\* A chunk refused for want of the manifest is posted again, until the deadline.
Retries(status, late) == status \in {403, 503} /\ ~late

\* The chunk is posted: taken, to be posted again, or upload raises.  One whose
\* answer was lost may have been taken.
Post(u) ==
  /\ up[u].at = "chunks" /\ ~AllSent(u)
  /\ \E status \in Statuses(u) :
       /\ taken' \in
            (IF status # 200 THEN {taken} ELSE {})
            \cup (IF status = 200 \/ (status = 0 /\ 200 \in Statuses(u))
                    THEN {taken \cup {[content_hash |-> up[u].data, index |-> up[u].next,
                                       bytes |-> Chunk(u)]}}
                    ELSE {})
       /\ IF Took(status) THEN up' = [up EXCEPT ![u].next = @ + 1]
          ELSE To(u, IF Retries(status, up[u].late) THEN "sleeping" ELSE "failed")
  /\ UNCHANGED <<down, mempool, manifest, landed, tampered>>

\* poll_interval passes.
Wake(u) == up[u].at = "sleeping" /\ To(u, "chunks") /\ UNCHANGED <<down, node, tampered>>

\* upload returns the manifest.
Return(u) ==
  /\ up[u].at = "chunks" /\ AllSent(u)
  /\ To(u, "returned")
  /\ UNCHANGED <<down, node, tampered>>

\* delete, for the same key
SubmitDelete ==
  /\ mempool' = mempool \cup {Delete}
  /\ UNCHANGED <<up, down, manifest, taken, landed, tampered>>

\* A transaction lands in a block, where it may be refused.
Land ==
  \E t \in mempool :
    /\ mempool' = mempool \ {t}
    /\ \/ UNCHANGED <<manifest, landed>>
       \/ manifest' = t.manifest /\ landed' = landed \cup ({t.manifest} \ {NoManifest})
    /\ UNCHANGED <<up, down, taken, tampered>>

-----------------------------------------------------------------------------
\* metadata; without a manifest the API answers 404 and download raises.
ReadManifest ==
  /\ down.at = "idle" /\ manifest # NoManifest
  /\ down' = Download("chunks", manifest, << >>)
  /\ UNCHANGED <<up, node, tampered>>

Held(m, i) == {t.bytes : t \in {x \in taken : x.content_hash = m.content_hash /\ x.index = i}}

\* The node answers the next chunk: the one it holds, another one, or a
\* status that raises.
GetChunk ==
  /\ down.at = "chunks" /\ Len(down.got) < down.manifest.chunk_count
  /\ \/ \E c \in Held(down.manifest, Len(down.got) + 1) :
          down' = [down EXCEPT !.got = Append(@, c)] /\ UNCHANGED tampered
     \/ \E c \in {t.bytes : t \in taken} :
          /\ c \notin Held(down.manifest, Len(down.got) + 1)
          /\ down' = [down EXCEPT !.got = Append(@, c)]
          /\ tampered' = TRUE
     \/ down' = [down EXCEPT !.at = "unread"] /\ UNCHANGED tampered
  /\ UNCHANGED <<up, node>>

\* Mutant of Verdict: the size is compared.
VerdictOfSize(m, chunks) ==
  IF Len(FlattenSeq(chunks)) # Len(m.content_hash) THEN "content mismatch" ELSE "returned"

\* The chunks are checked together, then their join.
Verdict(m, chunks) ==
  IF MerkleRoot(chunks) # m.root THEN "root mismatch"
  ELSE IF FlattenSeq(chunks) # m.content_hash THEN "content mismatch"
  ELSE "returned"

\* download returns the file or raises.
Check ==
  /\ down.at = "chunks" /\ Len(down.got) = down.manifest.chunk_count
  /\ down' = [down EXCEPT !.at = Verdict(down.manifest, down.got)]
  /\ UNCHANGED <<up, node, tampered>>

UploadStep(u) == Submit(u) \/ Post(u) \/ Wake(u) \/ Return(u)

Next ==
  \/ \E u \in Uploads : UploadStep(u) \/ DeadlinePasses(u)
  \/ SubmitDelete \/ Land
  \/ ReadManifest \/ GetChunk \/ Check

\* The event loop runs what is due: requests are answered or time out, sleeps
\* end, and time passes.  Blocks need not be made.
Fairness == \A u \in Uploads : WF_vars(UploadStep(u)) /\ WF_vars(DeadlinePasses(u))

Spec == Init /\ [][Next]_vars /\ Fairness

-----------------------------------------------------------------------------
\* Every chunk an upload left behind was taken by the node, whole: all of them
\* when it returns, those before chunk_index when it raises, whatever landed,
\* was replaced or deleted meanwhile.
ProgressIsTaken ==
  \A u \in Uploads : \A i \in 1..(up[u].next - 1) :
    [content_hash |-> up[u].data, index |-> i, bytes |-> Chunks(up[u].data)[i]] \in taken

\* What a download returns is the content of one manifest that landed, never
\* chunks of two uploads or of a file replaced between its reads.
DownloadIsOneFile ==
  down.at = "returned" => Manifest(FlattenSeq(down.got)) \in landed

\* A node that serves what it took never makes a download raise a mismatch,
\* also when the file is replaced or deleted after its manifest was read.
HonestNeverMismatches ==
  ~tampered => down.at \notin {"root mismatch", "content mismatch"}

\* Of a manifest upload made, the chunk count and the Merkle root already bind
\* the content: an odd list padded with its last leaf has no second reading.
RootBindsContent == down.at # "content mismatch"

\* An upload ends, also when its manifest never lands or the node never takes
\* a chunk (landing_timeout).
UploadEnds == \A u \in Uploads : <>(up[u].at \in {"unsubmitted", "failed", "returned"})
=============================================================================
