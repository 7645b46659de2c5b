----------------------------- MODULE MCAnchored -----------------------------
(***************************************************************************)
(* EthState and Completeness.  They share nothing, so a behaviour does     *)
(* one of them: a completeness check, unless the client has no URL for it. *)
(* The chain has two blocks, a token and an account without storage; keys  *)
(* have three binary digits, under which a storage trie has each shape: an *)
(* extension, a branch in a branch, leaves with a path and without, one of *)
(* them kept inside its branch.                                            *)
(***************************************************************************)
EXTENDS EthState, Completeness, TLC

Token == <<"token">>
Owner == <<"owner">>
NoOne == <<"no one">>
Holders == {"alice", "bob"}

MCAddressKey == (Token :> <<0, 1, 0>>) @@ (Owner :> <<0, 1, 1>>) @@ (NoOne :> <<1, 1, 0>>)
MCSlotKey ==
  (<<"plain", 0>> :> <<0, 0, 0>>) @@ (<<"plain", 1>> :> <<0, 0, 1>>) @@
  (<<"mapping", "alice", 0>> :> <<0, 1, 0>>) @@ (<<"mapping", "alice", 1>> :> <<1, 1, 1>>) @@
  (<<"mapping", "bob", 0>> :> <<1, 0, 1>>) @@ (<<"mapping", "bob", 1>> :> <<1, 0, 0>>)

Account(nonce, storage) == [nonce |-> nonce, storage |-> storage]

MCChain ==
  <<(Token :> Account(1, (<<"plain", 0>> :> 1) @@ (<<"plain", 1>> :> 2))) @@
    (Owner :> Account(2, << >>)),
    (Token :> Account(1, (<<"plain", 0>> :> 2) @@ (<<"mapping", "alice", 0>> :> 1) @@
                         (<<"mapping", "bob", 0>> :> 1)))>>

Call(op, address, slots, holder, index, block) ==
  [op |-> op, address |-> address, slots |-> slots, holder |-> holder, index |-> index,
   block |-> block, mode |-> "strict"]

MCEthCalls ==
  {Call("get_state", a, s, "alice", 0, b) :
     a \in {Token, Owner, NoOne}, s \in {<< >>, <<<<"plain", 0>>, <<"plain", 1>>>>}, b \in {1, 2}}
  \cup {Call("erc20_balance", Token, << >>, h, i, 2) : h \in Holders, i \in 0..1}
  \cup {Call("erc20_total_supply", Token, << >>, "alice", i, b) : i \in 0..2, b \in {1, 2}}
  \cup {Call("get_call", Token, <<<<"plain", 0>>>>, "alice", 0, 1)}
  \cup {[Call("erc20_balance", Token, << >>, "bob", 0, b) EXCEPT !.mode = m] :
          m \in {"anchor_only", "disabled"}, b \in {1, 2}}

Slots == DOMAIN MCSlotKey
Claim(s, v) == [slot |-> s, value |-> v]
MCClaims ==
  {<< >>} \cup {<<Claim(s, v)>> : s \in Slots, v \in 0..2}
  \cup {<<Claim(<<"plain", 0>>, v), Claim(<<"plain", 1>>, w)>> : v, w \in 0..2}

\* Logs of one-byte addresses and topics; and one with a topic of two.
Log(address, topics, data) == [address |-> address, topics |-> topics, data |-> data]
MCEntries ==
  {Log(<<a>>, t, d) : a \in {0, 1}, t \in {<< >>, <<<<<<0>>>>>>, <<<<<<1>>, <<0>>>>>>},
                      d \in {<< >>, <<<<0>>>>, <<<<1, 0>>>>, <<<<1, 0, 0>>>>}}
  \cup {Log(<<0>>, <<<<<<0, 1>>>>>>, <<<<1>>>>)}
MCServedLogs == {<< >>} \cup {<<e>> : e \in MCEntries} \cup {<<e, f>> : e, f \in MCEntries}

MCMatchedLogs ==
  {<< >>, <<Log(<<0>>, << >>, <<1, 0>>)>>,
   <<Log(<<0>>, <<<<1>>, <<0>>>>, << >>), Log(<<1>>, << >>, <<0>>)>>,
   <<Log(<<1>>, << >>, << >>), Log(<<0>>, <<<<0>>>>, <<0>>)>>}

MCConfigured == SUBSET {"consensus_rpc_url", "indexer_url"}

-----------------------------------------------------------------------------
Init ==
  /\ EthInit /\ DoneInit
  /\ IF urls = {} THEN matched = << >> ELSE ethCall.op = "get_call"
Next ==
  \/ urls = {} /\ EthNext /\ UNCHANGED doneVars
  \/ ethAt = "called" /\ reads = << >> /\ DoneNext /\ UNCHANGED ethVars
Spec == Init /\ [][Next]_<<ethVars, doneVars>>
=============================================================================
