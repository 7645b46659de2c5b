------------------------------ MODULE EthState ------------------------------
(***************************************************************************)
(* EthOperations (src/willow/eth_state.py): a read of an account and of    *)
(* slots of it, or the reads of a call, from an indexer that sends a proof *)
(* of them, walked node by node.                                           *)
(*                                                                         *)
(* The indexer is not in the repository.  It sends any claims and any      *)
(* nodes; one that sends what the chain has is told apart (ethHonest).     *)
(***************************************************************************)
EXTENDS MerkleTrie

CONSTANTS
  Chain,      \* block -> address -> [nonce, storage], storage: slot -> value
  AddressKey, \* the hashes of the addresses: sequences of nibbles
  SlotKey,    \* and of the slots
  SlotLimit,  \* the slot indices that fit into a byte
  EthCalls,   \* [op, address, slots, holder, index, block, mode]: calls of the
              \* operations, and the client's StateVerifyMode
  Claims,     \* sequences of [slot, value] a proof may give
  MaxReads    \* the most proofs an answer carries

ASSUME EthStateAssumption ==
  /\ SlotLimit \in Nat \ {0}
  /\ \A a, b \in DOMAIN AddressKey : AddressKey[a] = AddressKey[b] => a = b
  /\ \A s, t \in DOMAIN SlotKey : SlotKey[s] = SlotKey[t] => s = t
  /\ \A b \in DOMAIN Chain : \A a \in DOMAIN Chain[b] : \A s \in DOMAIN Chain[b][a].storage :
       Chain[b][a].storage[s] > 0

VARIABLES
  ethCall,     \* the operation called
  ethAt,       \* "called", "account", "slots", "returned" or "raised"
  proof,       \* the claims of the proof being verified
  walk,        \* the walk of the node list being verified
  slotsDone,   \* how many of its storage proofs are verified
  reads,       \* the proofs verified and returned
  ethHonest    \* history: everything sent is what the chain has

ethVars == <<ethCall, ethAt, proof, walk, slotsDone, reads, ethHonest>>

-----------------------------------------------------------------------------
\* verify_state_proof's encodings: a zero is the empty string's, which no trie keeps.
ValueRlp(v) == IF v =< 1 THEN <<"short", v>> ELSE <<"long", v>>
AccountRlp(a) == <<"account", a.nonce, a.storageHash>>

\* _mapping_slot_for_address and _slot_index_to_bytes32: of the index, its last byte.
MappingSlot(holder, index) == <<"mapping", holder, index % SlotLimit>>
PlainSlot(index) == <<"plain", index % SlotLimit>>

\* The slots a call asks the indexer for; those a call reads are its own affair.
SlotsOf(c) ==
  CASE c.op = "erc20_balance" -> <<MappingSlot(c.holder, c.index)>>
    [] c.op = "erc20_total_supply" -> <<PlainSlot(c.index)>>
    [] OTHER -> c.slots

\* The chain's tries.
StorageTrie(account) ==
  Trie([k \in {SlotKey[s] : s \in DOMAIN account.storage} |->
          ValueRlp(account.storage[CHOOSE s \in DOMAIN account.storage : SlotKey[s] = k])])
Committed(account) == [nonce |-> account.nonce, storageHash |-> Keccak(StorageTrie(account))]
StateTrie(state) ==
  Trie([k \in {AddressKey[a] : a \in DOMAIN state} |->
          AccountRlp(Committed(state[CHOOSE a \in DOMAIN state : AddressKey[a] = k]))])
StateRoot[b \in DOMAIN Chain] == Keccak(StateTrie(Chain[b]))

Accounts == UNION {{Chain[b][a] : a \in DOMAIN Chain[b]} : b \in DOMAIN Chain}
Tries == {StateTrie(Chain[b]) : b \in DOMAIN Chain} \cup {StorageTrie(a) : a \in Accounts}

\* The nodes an indexer may send: the chain's, and some no honest trie has.
Nodes ==
  UNION {NodesOf(t) : t \in Tries}
  \cup {Other, Extension(NoPath, Short), Branch([n \in Nibbles |-> Short])}

\* A slot's value; a slot or an account the state does not have is zero.
StoredAt(state, address, slot) ==
  IF address \in DOMAIN state /\ slot \in DOMAIN state[address].storage
    THEN state[address].storage[slot] ELSE 0

-----------------------------------------------------------------------------
\* What a proof claims.
Proof(root, address, account, storage) ==
  [root |-> root, address |-> address, account |-> account, storage |-> storage]
NoAccount == [nonce |-> 0, storageHash |-> Keccak(Other)]
NoProof == Proof(Missing, <<"none">>, NoAccount, << >>)
NoWalk == Walk(Missing, NoPath, Absent)

ClaimedProofs ==
  {Proof(root, a, account, storage) :
     root \in {Keccak(t) : t \in Tries \cup {Other}},
     a \in {c.address : c \in EthCalls},
     account \in {NoAccount} \cup {Committed(x) : x \in Accounts},
     storage \in Claims}

\* The proof the chain's own data makes of a call.
IsHonest(p) ==
  LET state == Chain[ethCall.block]
  IN /\ p.root = StateRoot[ethCall.block]
     /\ p.address = ethCall.address
     /\ p.address \in DOMAIN state /\ p.account = Committed(state[p.address])
     /\ [i \in DOMAIN p.storage |-> p.storage[i].slot] = SlotsOf(ethCall)
     /\ \A i \in DOMAIN p.storage :
          p.storage[i].value = StoredAt(state, p.address, p.storage[i].slot)

EthInit ==
  /\ ethCall \in EthCalls
  /\ ethAt = "called" /\ proof = NoProof /\ walk = NoWalk
  /\ slotsDone = 0 /\ reads = << >>
  /\ ethHonest = TRUE

Raise ==
  /\ ethAt' = "raised"
  /\ UNCHANGED <<ethCall, proof, walk, slotsDone, reads>>

\* erc20_balance and erc20_total_supply take the first slot of an answer.
Usable(p) == ethCall.op \in {"get_state", "get_call"} \/ p.storage # << >>

\* The indexer's answer, or the next proof of it, where a call takes several.
TakeProof ==
  /\ ethAt = "called" /\ Len(reads) < MaxReads
  /\ \E p \in ClaimedProofs :
       /\ proof' = p
       /\ ethHonest' = (ethHonest /\ IsHonest(p))
       /\ IF ethCall.mode = "strict"
            THEN /\ ethAt' = "account"
                 /\ walk' = Walk(p.root, AddressKey[p.address], AccountRlp(p.account))
                 /\ UNCHANGED reads
            ELSE /\ ethAt' = IF ethCall.op = "get_call" THEN "called"
                             ELSE IF Usable(p) THEN "returned" ELSE "raised"
                 /\ reads' = Append(reads, p)
                 /\ UNCHANGED walk
  /\ slotsDone' = 0
  /\ UNCHANGED ethCall

\* A call's proofs are all taken, or a read is answered with none.
NoMoreProofs ==
  /\ ethAt = "called"
  /\ ethAt' = IF ethCall.op = "get_call" THEN "returned" ELSE "raised"
  /\ ethHonest' = (ethHonest /\ ethCall.op = "get_call")
  /\ UNCHANGED <<ethCall, proof, walk, slotsDone, reads>>

\* A node list is walked to its end: the next storage proof's, or the proof is good.
Verified(done) ==
  /\ slotsDone' = done
  /\ IF done < Len(proof.storage)
       THEN LET claim == proof.storage[done + 1]
            IN /\ ethAt' = "slots"
               /\ walk' = Walk(proof.account.storageHash, SlotKey[claim.slot], ValueRlp(claim.value))
               /\ UNCHANGED reads
       ELSE /\ ethAt' = IF ethCall.op = "get_call" THEN "called"
                        ELSE IF Usable(proof) THEN "returned" ELSE "raised"
            /\ walk' = NoWalk
            /\ reads' = Append(reads, proof)
  /\ UNCHANGED <<ethCall, proof>>

\* verify_mpt_proof takes a node.
TakeNode ==
  /\ ethAt \in {"account", "slots"}
  /\ \E n \in Nodes :
       LET w == WalkNode(walk, n)
       IN /\ ethHonest' = (ethHonest /\ Keccak(n) = walk.next)
          /\ CASE w.verdict = "going" ->
                    walk' = w /\ UNCHANGED <<ethCall, ethAt, proof, slotsDone, reads>>
               [] w.verdict = "ok" -> Verified(IF ethAt = "account" THEN 0 ELSE slotsDone + 1)
               [] OTHER -> Raise

\* It has no node left.
RunOut ==
  /\ ethAt \in {"account", "slots"}
  /\ ethHonest' = FALSE
  /\ Raise

EthNext == TakeProof \/ NoMoreProofs \/ TakeNode \/ RunOut

-----------------------------------------------------------------------------
\* A read a strict client returns, of a root that is the chain's at a block,
\* is the state of that block at the address and the slots it names, whatever
\* nodes and claims the indexer chose (verify_state_proof, verify_mpt_proof).
ReadIsState ==
  \A i \in DOMAIN reads : \A b \in DOMAIN Chain :
    ethCall.mode = "strict" /\ reads[i].root = StateRoot[b] =>
      /\ reads[i].address \in DOMAIN Chain[b]
      /\ reads[i].account = Committed(Chain[b][reads[i].address])
      /\ \A j \in DOMAIN reads[i].storage :
           reads[i].storage[j].value =
             StoredAt(Chain[b], reads[i].address, reads[i].storage[j].slot)

\* A slot the walk cannot prove: one that is zero, or whose short leaf is kept
\* inside the branch that another slot's key shares with it.
Unprovable(slot, value) ==
  \/ value = 0
  \/ /\ value = 1
     /\ \E s \in DOMAIN Chain[ethCall.block][ethCall.address].storage :
          s # slot /\ Front(SlotKey[s]) = Front(SlotKey[slot])

\* What the chain's own data makes is refused for nothing but such a slot
\* (verify_state_proof's encodings are those of the tries, and each walk gets
\* to where they keep the key).
HonestReadAccepted ==
  ethHonest /\ ethAt = "raised" =>
    /\ slotsDone < Len(proof.storage)
    /\ Unprovable(proof.storage[slotsDone + 1].slot, proof.storage[slotsDone + 1].value)

=============================================================================
