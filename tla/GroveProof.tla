----------------------------- MODULE GroveProof -----------------------------
(***************************************************************************)
(* verify_items_at_path and verify_item_at_path (src/willow/grovedb/       *)
(* verifier.py) under the root the chain committed to, on any proof: the   *)
(* layers of the envelope, each a merk proof, are checked from the root    *)
(* down, each below the key that proves it.                                *)
(*                                                                         *)
(* What a prover may send is enumerated as it is read: a layer is what     *)
(* some operations on Nodes leave, of at most two pushes.  One whose root  *)
(* no subtree has cannot lead to the chain's root, so of those only their  *)
(* being refused is kept (Malformed); of a subtree's layers in another's   *)
(* place, those with one entry, in a KV node, are kept.                    *)
(***************************************************************************)
EXTENDS MerkProof

CONSTANTS
  Shapes,    \* the sets of paths a proof has lower layers at
  Requests   \* [path, only]: a query's path, and only_items_at_path

ASSUME RequestsAssumption ==
  \A r \in Requests :
    /\ r.path \in Paths \ {<< >>}
    /\ r.only => \A k \in Keys(r.path) : IsItem(Grove[r.path][k])

VARIABLES
  request,   \* the path and the flag the caller gives
  shape,     \* the envelope: the paths of its lower layers
  options,   \* prove_options, as the prover sent them
  frames,    \* the layers being verified, one below the other
  results,   \* the entries proven so far
  outcome,   \* "envelope", "layers", "refused" or "verified"
  items,     \* the Items returned
  honest,    \* history: each layer is the one the chain's prover makes
  checked    \* history: the paths whose layer was found to be bound

groveVars == <<request, shape, options, frames, results, outcome, items, honest, checked>>

-----------------------------------------------------------------------------
\* The nodes a prover pushes: hashes the grove has, and values it has or that
\* hash like something it has, at any key.
StoredAt == {at \in Paths \X {1, 2} : at[2] \in Keys(at[1])}
CombinedAt == {at \in StoredAt : Grove[at[1]][at[2]] \in {Tree, Reference}}
Puns == {<<"pun63", at[1], at[2]>> : at \in {x \in CombinedAt : x[1] # << >>}}
        \cup {<<"pun95", at[1], at[2]>> :
                 at \in {x \in CombinedAt : x[1] # << >> /\ Grove[x[1]][x[2]] = Tree}}
Values == Elements \cup Puns
FirstKv(p) == KvDigestToKvHash(1, StoredHash(p, 1))

Nodes ==
  {Node("Hash", NoKey, NoValue, Root[p]) : p \in Paths}
  \cup {Node("Hash", NoKey, NoValue,
          NodeHash(KvDigestToKvHash(2, StoredHash(p, 2)), NullHash, NullHash)) :
            p \in {q \in Paths : Len(Grove[q]) = 2}}
  \cup {Node("KVHash", NoKey, NoValue, FirstKv(p)) : p \in Paths}
  \cup {Node("KV", k, v, NoHash) : k \in {1, 2}, v \in Values}
  \cup {Node("KVValueHash", at[2], v, StoredHash(at[1], at[2])) : at \in StoredAt, v \in Values}
  \cup {Node("KVRefValueHash", at[2], v, Hashed(Grove[at[1]][at[2]])) :
          at \in CombinedAt, v \in Values}
  \cup {Node("KVDigest", at[2], NoValue, StoredHash(at[1], at[2])) : at \in StoredAt}

PushOps == [op : Pushes, node : Nodes]
AttachOps == [op : Attaches]

\* Every layer one or two pushes leave that has a subtree's root.
Executed ==
  {Execute(<<o>>) : o \in PushOps}
  \cup {Execute(<<o1, o2, a>>) : o1 \in PushOps, o2 \in PushOps, a \in AttachOps}
Layers ==
  {LayerOf(m) : m \in {e \in Executed : IsTreeProof(e) /\
                         TreeHash(e.stack[1]) \in {Root[p] : p \in Paths}}}

LayersAt(p) ==
  {l \in Layers : \/ p \in Paths /\ l.root = Root[p]
                  \/ Len(l.entries) = 1 /\ l.entries[1].type = "KV"}

LowerKeys(p) == {k \in {1, 2} : Append(p, k) \in shape}

\* Mutant of Descends: a path segment may have no lower layer.
DescendsSome(path) ==
  /\ \A i \in 1..Len(path) : LowerKeys(SubSeq(path, 1, i - 1)) \subseteq {path[i]}
  /\ LowerKeys(path) = {}

\* check_envelope: one lower layer at each segment of the path, none off it
\* and none below it.
Descends(path) ==
  /\ \A i \in 1..Len(path) : LowerKeys(SubSeq(path, 1, i - 1)) = {path[i]}
  /\ LowerKeys(path) = {}

Refuse ==
  /\ outcome' = "refused"
  /\ UNCHANGED <<request, shape, options, frames, results, items, honest, checked>>

\* The entry of key k in the layer the chain's prover makes: an Item in a KV
\* node, a reference in a KVRefValueHash, a subtree in a KVValueHash.
HonestEntry(p, k) ==
  LET e == Grove[p][k]
  IN CASE IsItem(e) -> Visited(Node("KV", k, e, NoHash))[1]
       [] e = Reference -> Node("KVRefValueHash", k, Referenced, Hashed(e))
       [] OTHER -> Node("KVValueHash", k, e, StoredHash(p, k))

IsHonest(p, l) ==
  /\ p \in Paths /\ l.root = Root[p]
  /\ \A e \in ToSet(l.entries) : e = HonestEntry(p, e.key)
  /\ LowerKeys(p) \subseteq {e.key : e \in ToSet(l.entries)}

HonestShape(path) == {SubSeq(path, 1, i) : i \in 1..Len(path)}

\* The layer at p is executed.
Frame(p, l) == [path |-> p, root |-> l.root, entries |-> l.entries, next |-> 1, consumed |-> {}]
Open(p) ==
  \E l \in LayersAt(p) :
    /\ frames' = Append(frames, Frame(p, l))
    /\ honest' = (honest /\ IsHonest(p, l))

GroveInit ==
  /\ request \in Requests
  /\ shape \in Shapes
  /\ options \in BOOLEAN
  /\ frames = << >>
  /\ results = << >>
  /\ outcome = "envelope"
  /\ items = {}
  /\ honest = (options /\ shape = HonestShape(request.path))
  /\ checked = {}

\* _verify_proof: the envelope first, then the root layer.
CheckEnvelope ==
  /\ outcome = "envelope"
  /\ IF options /\ Descends(request.path)
       THEN /\ Open(<< >>)
            /\ outcome' = "layers"
            /\ UNCHANGED <<request, shape, options, results, items, checked>>
       ELSE Refuse

-----------------------------------------------------------------------------
Top == Last(frames)
Entry == Top.entries[Top.next]
AtEntry == outcome = "layers" /\ Top.next =< Len(Top.entries)
HasLower == Entry.key \in LowerKeys(Top.path)

\* The top layer's current entry is done.
Advance(fs, key) ==
  LET further == [Last(fs) EXCEPT !.next = @ + 1]
  IN [fs EXCEPT ![Len(fs)] = [further EXCEPT !.consumed = further.consumed \cup key]]

\* A layer whose operations do not execute, or leave another root.
Malformed ==
  /\ outcome = "layers"
  /\ Top.next = 1
  /\ outcome' = "refused"
  /\ honest' = FALSE
  /\ UNCHANGED <<request, shape, options, frames, results, items, checked>>

\* An entry with a lower layer is a non-empty subtree's; its layer is next.
Descend ==
  /\ AtEntry /\ HasLower
  /\ IF Entry.value # NoValue /\ HasRootKey(Entry.value)
       THEN /\ Open(Append(Top.path, Entry.key))
            /\ UNCHANGED <<request, shape, options, results, outcome, items, checked>>
       ELSE Refuse

\* _is_ambiguous: bytes whose hash has the form of a subtree's.
Ambiguous(e) ==
  \/ e.type = "KV" /\ Is63(e.value)
  \/ e.type = "KVRefValueHash" /\ Is95(e.value)

\* _bind_leaf_value: whether the node's hash is computed from its bytes, which
\* a KVValueHash's is for an empty subtree only.
Bound(e) ==
  IF e.type = "KVValueHash" THEN IsTree(e.value) /\ ~HasRootKey(e.value) ELSE ~Ambiguous(e)

\* Mutant of Contradicts: a subtree's own bytes are hashed like a value's.
ContradictsAny(e) == e.type = "KVValueHash" /\ e.hash # ValueHash(e.value)

\* Bytes beside a value hash are refused when it is not theirs; a non-empty
\* subtree's cannot be compared without its lower layer.
Contradicts(e) ==
  /\ e.type = "KVValueHash" /\ ~HasRootKey(e.value)
  /\ e.hash # IF IsTree(e.value) THEN CombineHash(ValueHash(e.value), NullHash)
              ELSE ValueHash(e.value)

\* An entry without one is a value, bound to its node or held back.
Result(e) ==
  [path |-> Top.path, key |-> e.key, type |-> e.type,
   value |-> IF Bound(e) THEN e.value ELSE NoValue,
   ambiguous |-> IF Ambiguous(e) THEN e.value ELSE NoValue]

TakeLeaf ==
  /\ AtEntry /\ ~HasLower /\ Entry.value # NoValue
  /\ IF Contradicts(Entry) THEN Refuse
     ELSE /\ results' = Append(results, Result(Entry))
          /\ frames' = Advance(frames, {})
          /\ UNCHANGED <<request, shape, options, outcome, items, honest, checked>>

\* A KVDigest proves no value.
TakeDigest ==
  /\ AtEntry /\ ~HasLower /\ Entry.value = NoValue
  /\ frames' = Advance(frames, {})
  /\ UNCHANGED <<request, shape, options, results, outcome, items, honest, checked>>

-----------------------------------------------------------------------------
AtEnd == outcome = "layers" /\ Top.next > Len(Top.entries)
Unproven == LowerKeys(Top.path) \ Top.consumed

\* The parent's entry commits to the lower layer's root.
Binds(e, root) == CombineHash(ValueHash(e.value), root) = e.hash

\* A lower layer is done: its parent goes on when it commits to its root.
Return ==
  /\ AtEnd /\ Len(frames) > 1
  /\ LET parents == Front(frames)
         e == Last(parents).entries[Last(parents).next]
     IN IF Unproven = {} /\ Binds(e, Top.root)
          THEN /\ frames' = Advance(parents, {e.key})
               /\ checked' = checked \cup {Top.path}
               /\ UNCHANGED <<request, shape, options, results, outcome, items, honest>>
          ELSE Refuse

\* _proven_items: the Items in KV nodes at the path, the ambiguous ones only
\* where the caller says there is nothing else.
ItemsOf(rs, r) ==
  {x \in {[key |-> e.key, value |-> IF e.value = NoValue /\ r.only THEN e.ambiguous ELSE e.value] :
            e \in {y \in ToSet(rs) : y.type = "KV" /\ y.path = r.path}} :
     x.value # NoValue /\ IsItem(x.value)}

\* The root layer is done: its root is the chain's, or it is not.
Finish ==
  /\ AtEnd /\ Len(frames) = 1
  /\ IF Unproven = {} /\ Top.root = Root[<< >>]
       THEN /\ outcome' = "verified"
            /\ items' = ItemsOf(results, request)
            /\ UNCHANGED <<request, shape, options, frames, results, honest, checked>>
       ELSE Refuse

GroveNext ==
  \/ CheckEnvelope \/ Malformed \/ Descend \/ TakeLeaf \/ TakeDigest \/ Return \/ Finish

GroveSpec == GroveInit /\ [][GroveNext]_groveVars

-----------------------------------------------------------------------------
Verified == outcome = "verified"
Stored(p, k) == Grove[p][k]

\* Every value a verified proof gives is what the chain stores there: an
\* element as its bytes, a reference as the value it refers to, whatever nodes
\* the prover chose (executor.py, tree.py, _bind_leaf_value).  And every Item
\* returned is stored at the path asked for, also one of 63 bytes that
\* only_items_at_path lets through.
ProvenIsStored ==
  /\ Verified =>
       \A r \in ToSet(results) :
         r.value # NoValue =>
           /\ r.path \in Paths /\ r.key \in Keys(r.path)
           /\ IF r.type = "KVRefValueHash"
                THEN Stored(r.path, r.key) = Reference /\ r.value = Referenced
                ELSE Stored(r.path, r.key) = r.value
  /\ \A x \in items : x.key \in Keys(request.path) /\ Stored(request.path, x.key) = x.value

\* A verified proof was checked down to the path asked for: what it does not
\* give there, its prover did not prove, rather than proved and had dropped by
\* a lower layer renamed or left out (check_envelope).
CheckedToPath ==
  Verified => \A i \in 1..Len(request.path) : SubSeq(request.path, 1, i) \in checked

\* What the chain's own prover makes is never refused by a check of the layers,
\* and gives the Items it proves, but for those of 63 bytes where the path may
\* hold something else.
HonestAccepted ==
  honest =>
    /\ outcome # "refused"
    /\ \A r \in {x \in ToSet(results) : x.path = request.path /\ x.type = "KV"} :
         Verified /\ (request.only \/ ~Is63(Stored(request.path, r.key)))
           => [key |-> r.key, value |-> Stored(request.path, r.key)] \in items
=============================================================================
