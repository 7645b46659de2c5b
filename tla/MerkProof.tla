----------------------------- MODULE MerkProof ------------------------------
(***************************************************************************)
(* The stack machine that executes a merk proof: the operations push nodes *)
(* and attach them to each other, and what is left is a tree whose hash is *)
(* the layer's root (src/willow/grovedb/executor.py, tree.py).             *)
(*                                                                         *)
(* A child is collapsed to its hash when it is attached, as                *)
(* execute_merk_proof_with_query does it, so a tree is its top node and    *)
(* the hashes of its two children.  Every attached child then has height   *)
(* one, and the balance check at the end cannot fail.                      *)
(***************************************************************************)
EXTENDS GroveState, SequencesExt

NoKey == 0
NoValue == <<"none">>
NoHash == <<"none">>

\* A Hash, KVHash, KV, KVValueHash, KVRefValueHash or KVDigest node, and what it carries.
Node(type, key, value, hash) ==
  [type |-> type, key |-> key, value |-> value, hash |-> hash]

Pushes == {"Push", "PushInverted"}
Attaches == {"Parent", "Child", "ParentInverted", "ChildInverted"}

-----------------------------------------------------------------------------
\* Tree._compute_kv_hash; a KVValueHashFeatureType node is as a KVValueHash.
KvHash(n) ==
  CASE n.type = "KVHash" -> n.hash
    [] n.type = "KV" -> KvDigestToKvHash(n.key, ValueHash(n.value))
    [] n.type \in {"KVValueHash", "KVDigest"} -> KvDigestToKvHash(n.key, n.hash)
    [] n.type = "KVRefValueHash" ->
         KvDigestToKvHash(n.key, CombineHash(n.hash, ValueHash(n.value)))

Leaf(n) == [node |-> n, left |-> NoHash, right |-> NoHash]
ChildHash(h) == IF h = NoHash THEN NullHash ELSE h

\* Tree.hash: a Hash node's is the whole subtree's.
TreeHash(t) ==
  IF t.node.type = "Hash" THEN t.node.hash
  ELSE NodeHash(KvHash(t.node), ChildHash(t.left), ChildHash(t.right))

\* Mutant of MayAttach: a Hash node takes children like any other.
MayAttachAny(t, side) == t[side] = NoHash

\* attach_with_height refuses a Hash node and a side that is taken.
MayAttach(t, side) == t.node.type # "Hash" /\ t[side] = NoHash

-----------------------------------------------------------------------------
\* visit_node: what a pushed node says it proves.
Visited(n) ==
  CASE n.type = "KV" -> <<[type |-> n.type, key |-> n.key, value |-> n.value,
                           hash |-> ValueHash(n.value)]>>
    [] n.type \in {"Hash", "KVHash"} -> << >>
    [] OTHER -> <<n>>

\* Keys ascend from the last one pushed, or descend in an inverted push.
InOrder(op, key, last) ==
  \/ key = NoKey \/ last = NoKey
  \/ IF op = "Push" THEN key > last ELSE key < last

Machine(stack, last, proved) == [ok |-> TRUE, stack |-> stack, last |-> last, proved |-> proved]
Start == Machine(<< >>, NoKey, << >>)
Failed == [ok |-> FALSE, stack |-> << >>, last |-> NoKey, proved |-> << >>]

PushNode(m, op, n) ==
  IF InOrder(op, n.key, m.last)
    THEN Machine(Append(m.stack, Leaf(n)), IF n.key = NoKey THEN m.last ELSE n.key,
                 m.proved \o Visited(n))
    ELSE Failed

\* The top two trees: Parent and ParentInverted pop the parent first, Child
\* and ChildInverted the child.
AttachTop(m, op) ==
  LET size == Len(m.stack)
      parentOnTop == op \in {"Parent", "ParentInverted"}
      side == IF op \in {"Parent", "ChildInverted"} THEN "left" ELSE "right"
      parent == m.stack[IF parentOnTop THEN size ELSE size - 1]
      child == m.stack[IF parentOnTop THEN size - 1 ELSE size]
  IN IF size >= 2 /\ MayAttach(parent, side)
       THEN Machine(Append(SubSeq(m.stack, 1, size - 2),
                           [parent EXCEPT ![side] = TreeHash(child)]), m.last, m.proved)
       ELSE Failed

\* One operation; nothing follows a failed one.
Step(m, o) ==
  IF ~m.ok THEN m
  ELSE IF o.op \in Pushes THEN PushNode(m, o.op, o.node) ELSE AttachTop(m, o.op)

\* execute_ops.
Execute(ops) ==
  LET run[i \in 0..Len(ops)] == IF i = 0 THEN Start ELSE Step(run[i - 1], ops[i])
  IN run[Len(ops)]

\* A proof is a tree when one is left.
IsTreeProof(m) == m.ok /\ Len(m.stack) = 1

\* execute_merk_proof_with_query, of operations that leave a tree.
LayerOf(m) == [root |-> TreeHash(m.stack[1]), entries |-> m.proved]
=============================================================================
