----------------------------- MODULE MerkleTrie -----------------------------
(***************************************************************************)
(* Ethereum's Merkle Patricia trie and the walk of a proof of one of its   *)
(* keys (src/willow/eth_state.py, verify_mpt_proof).                       *)
(*                                                                         *)
(* A hash is the node it is of.  Keys are hashes of one length, so honest  *)
(* tries keep no value at a branch; a node of less than 32 bytes is put    *)
(* into its parent instead of its hash, which is the case here for a leaf  *)
(* that has no path left and a short value.                                *)
(***************************************************************************)
EXTENDS Integers, Sequences, SequencesExt, FiniteSets, FiniteSetsExt

CONSTANT Nibbles  \* the digits of a key

\* What a walk finds where the trie has nothing: the empty string, which is
\* not the encoding of anything.
Absent == << >>
NoPath == << >>

Missing == <<"missing">>   \* an empty child
Short == <<"short">>       \* a child whose bytes are no hash
Keccak(node) == <<"hash", node>>

NoChildren == [n \in Nibbles |-> Missing]
Leaf(path, value) ==
  [type |-> "leaf", path |-> path, children |-> NoChildren, ref |-> Missing, value |-> value]
Extension(path, ref) ==
  [type |-> "extension", path |-> path, children |-> NoChildren, ref |-> ref, value |-> Absent]
Branch(children) ==
  [type |-> "branch", path |-> NoPath, children |-> children, ref |-> Missing, value |-> Absent]
\* Bytes that decode to no node: a string, or a list of another length.
Other == [type |-> "other", path |-> NoPath, children |-> NoChildren, ref |-> Missing, value |-> Absent]

-----------------------------------------------------------------------------
\* The trie of a function from keys of one length to values.
Ref(node) ==
  IF node.type = "leaf" /\ node.path = NoPath /\ node.value[1] = "short"
    THEN <<"inline", node>> ELSE Keccak(node)

Below(map, n) ==
  LET keys == {k \in DOMAIN map : Head(k) = n}
  IN [k \in {Tail(key) : key \in keys} |-> map[<<n>> \o k]]

Tops(map) == {Head(k) : k \in DOMAIN map}

CommonPath(keys) ==
  LET key == CHOOSE k \in keys : TRUE
      common == {n \in 0..Len(key) : \A k \in keys : SubSeq(k, 1, n) = SubSeq(key, 1, n)}
  IN SubSeq(key, 1, Max(common))

After(map, path) ==
  [k \in {SubSeq(key, Len(path) + 1, Len(key)) : key \in DOMAIN map} |-> map[path \o k]]

\* The trie's top node; one of a map with nothing in it is no node.
RECURSIVE Trie(_)
Trie(map) ==
  LET path == CommonPath(DOMAIN map)
      branch(rest) ==
        Branch([n \in Nibbles |-> IF n \in Tops(rest) THEN Ref(Trie(Below(rest, n))) ELSE Missing])
  IN IF map = << >> THEN Other
     ELSE IF Cardinality(DOMAIN map) = 1 THEN Leaf(path, map[path])
     ELSE IF path = NoPath THEN branch(map)
     ELSE Extension(path, Ref(branch(After(map, path))))

\* The nodes at and below one.
RECURSIVE NodesOf(_)
NodesOf(node) ==
  LET refs == {node.ref} \cup {node.children[n] : n \in Nibbles}
  IN {node} \cup UNION {NodesOf(r[2]) : r \in {x \in refs : x[1] = "hash"}}

-----------------------------------------------------------------------------
\* A proof being walked: the hash its next node must have, what is left of
\* the key, and the value it must come to.
Walk(root, key, value) == [next |-> root, key |-> key, value |-> value, verdict |-> "going"]

\* _check_value.
Check(w, actual) == [w EXCEPT !.verdict = IF actual = w.value THEN "ok" ELSE "mismatch"]
Broken(w) == [w EXCEPT !.verdict = "broken"]
Onward(w, ref, taken) ==
  [w EXCEPT !.next = ref, !.key = SubSeq(@, taken + 1, Len(@))]

\* Mutant of OnPath: only its length is compared.
OnPathOfLength(path, key) == Len(path) =< Len(key)

OnPath(path, key) == IsPrefix(path, key)

\* A branch: an empty child means the key is not there, and so does, since it
\* is a list and not bytes, a node put in place of its hash.
WalkBranch(w, node) ==
  IF w.key = NoPath THEN Check(w, node.value)
  ELSE LET child == node.children[Head(w.key)]
       IN IF child[1] \in {"missing", "inline"} THEN Check(w, Absent)
          ELSE IF child = Short THEN Broken(w)
          ELSE Onward(w, child, 1)

\* Mutant of WalkPath: an extension takes one nibble.
WalkPathByOne(w, node) ==
  IF ~OnPath(node.path, w.key) THEN Check(w, Absent)
  ELSE IF node.type = "leaf"
    THEN Check(w, IF Len(node.path) = Len(w.key) THEN node.value ELSE Absent)
  ELSE IF node.ref[1] # "hash" THEN Broken(w)
  ELSE Onward(w, node.ref, 1)

\* A leaf or an extension.
WalkPath(w, node) ==
  IF ~OnPath(node.path, w.key) THEN Check(w, Absent)
  ELSE IF node.type = "leaf"
    THEN Check(w, IF Len(node.path) = Len(w.key) THEN node.value ELSE Absent)
  ELSE IF node.ref[1] # "hash" THEN Broken(w)
  ELSE Onward(w, node.ref, Len(node.path))

\* The loop's body, on the next node of the proof.
WalkNode(w, node) ==
  IF Keccak(node) # w.next \/ node.type = "other" THEN Broken(w)
  ELSE IF node.type = "branch" THEN WalkBranch(w, node)
  ELSE WalkPath(w, node)
=============================================================================
