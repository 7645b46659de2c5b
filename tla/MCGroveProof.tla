---------------------------- MODULE MCGroveProof ----------------------------
(***************************************************************************)
(* GroveProof on a grove of four trees: two below the root, one with an    *)
(* Item beside a subtree, one with Items only, the first of 63 bytes; and, *)
(* below the first, a reference beside an empty subtree.                   *)
(***************************************************************************)
EXTENDS GroveProof, TLC

MCGrove ==
  (<< >> :> <<Tree, Tree>>) @@
  (<<1>> :> <<Item, Tree>>) @@
  (<<2>> :> <<LongItem, OtherItem>>) @@
  (<<1, 2>> :> <<Reference, EmptyTree>>)

\* Lower layers at any of these paths, <<1, 1>> being an Item's.
MCShapes ==
  {S \in SUBSET {<<1>>, <<2>>, <<1, 1>>, <<1, 2>>} : \A p \in S : Len(p) = 2 => Front(p) \in S}

MCRequests ==
  {[path |-> p, only |-> FALSE] : p \in {<<1>>, <<2>>, <<1, 2>>}}
  \cup {[path |-> <<2>>, only |-> TRUE]}
=============================================================================
