----------------------------- MODULE GroveState -----------------------------
(***************************************************************************)
(* The state a proof is of, and its hashes (src/willow/grovedb/hash.py,    *)
(* element.py).  The chain keeps a grove: merk trees of elements, each     *)
(* below the tree element that names it.  The grove itself is not in the   *)
(* repository; what its trees hash to is, since the verifier recomputes    *)
(* it.                                                                     *)
(*                                                                         *)
(* A hash is the term it is computed from, so that equal hashes have equal *)
(* inputs, but for the lengths verifier.py knows to be ambiguous: a value  *)
(* <<"pun63", p, k>> is 63 bytes that decode as an Item and have the value *)
(* hash of the element stored at key k of path p, and <<"pun95", p, k>> is *)
(* 95 bytes with the root of the subtree there.                            *)
(***************************************************************************)
EXTENDS Naturals, Sequences, FiniteSets

CONSTANT Grove  \* path -> the elements its merk tree holds, in key order

Paths == DOMAIN Grove
Keys(p) == DOMAIN Grove[p]

\* The elements: Items (one of them 63 bytes long), a subtree's, an empty
\* subtree's, and a reference to the first Item.
Item == <<"item", 1>>
OtherItem == <<"item", 2>>
LongItem == <<"item63">>
Tree == <<"tree">>
EmptyTree == <<"empty">>
Reference == <<"reference">>
Referenced == Item
Elements == {Item, OtherItem, LongItem, Tree, EmptyTree, Reference}

\* Two keys make every shape of node the checks tell apart: one with a child
\* and one without.  A path is the keys that lead to its tree, each a subtree's
\* element, and each such element has its tree.
ASSUME GroveAssumption ==
  /\ << >> \in Paths /\ IsFiniteSet(Paths)
  /\ \A p \in Paths :
       /\ p \in Seq(1..2) /\ Len(p) < Cardinality(Paths)
       /\ \A i \in 1..Len(p) : LET above == SubSeq(p, 1, i - 1)
                              IN above \in Paths /\ p[i] \in Keys(above) /\ Grove[above][p[i]] = Tree
       /\ Grove[p] \in Seq(Elements) /\ Len(Grove[p]) \in 1..2
       /\ \A k \in Keys(p) : Grove[p][k] = Tree => Append(p, k) \in Paths

\* What _try_deserialize makes of a value.
IsItem(v) == v[1] \in {"item", "item63", "pun63", "pun95"}
IsTree(v) == v[1] \in {"tree", "empty"}
HasRootKey(v) == v[1] = "tree"
Is63(v) == v[1] \in {"item63", "pun63"}
Is95(v) == v[1] = "pun95"

-----------------------------------------------------------------------------
NullHash == <<"null">>
Hashed(v) == <<"value", v>>
CombineHash(a, b) == <<"combined", a, b>>
KvDigestToKvHash(key, valueHash) == <<"kv", key, valueHash>>
NodeHash(kv, left, right) == <<"node", kv, left, right>>

\* What the chain commits to for the element e, whose subtree has this root.
CommittedHash(e, root) ==
  CASE e = Tree -> CombineHash(Hashed(e), root)
    [] e = EmptyTree -> CombineHash(Hashed(e), NullHash)
    [] e = Reference -> CombineHash(Hashed(e), Hashed(Referenced))
    [] OTHER -> Hashed(e)

\* The same of key k of path p, when the subtrees' roots are these.
HashAt(roots, p, k) ==
  CommittedHash(Grove[p][k], IF Grove[p][k] = Tree THEN roots[Append(p, k)] ELSE NullHash)
KvAt(roots, p, k) == KvDigestToKvHash(k, HashAt(roots, p, k))

\* The root of each subtree: its first key's node, with the second's to its right.
RootAt(roots, p) ==
  NodeHash(KvAt(roots, p, 1), NullHash,
           IF Len(Grove[p]) = 2 THEN NodeHash(KvAt(roots, p, 2), NullHash, NullHash) ELSE NullHash)
Root[p \in Paths] == RootAt(Root, p)

StoredHash(p, k) == HashAt(Root, p, k)

\* value_hash.
ValueHash(v) ==
  CASE v[1] = "pun63" -> StoredHash(v[2], v[3])
    [] v[1] = "pun95" -> Root[Append(v[2], v[3])]
    [] OTHER -> Hashed(v)
=============================================================================
