------------------------------ MODULE Signing -------------------------------
(***************************************************************************)
(* Calls that write: what the caller asks for becomes transactions, each   *)
(* signed and sent, and the node builds the message again from the body it *)
(* decodes and takes it if that is what its owner signed.                  *)
(*                                                                         *)
(* A ConsensusClient call (or a caller that uses the builders itself) is   *)
(* given its key. A WillowClient call signs with the identity set on the   *)
(* client: its owner is read when the call starts, the account whose nonce *)
(* it takes just before the nonce, the key after it; set_identity and      *)
(* clear_identity may come between. data.store sends one transaction a     *)
(* key, one at a time.                                                     *)
(***************************************************************************)
EXTENDS SignedMessages, FiniteSets

CONSTANTS
  Requests,    \* the transactions of calls given their key
  Identities,  \* the DIDs the client may be given
  Batches,     \* what data.store is asked to write: sequences of StoreData transactions
  OwnRequests, \* the transactions of the client's other methods
  MaxChanges   \* how often the identity changes during a call

ASSUME SigningAssumption ==
  /\ MaxChanges \in Nat
  /\ Requests \subseteq Transactions /\ OwnRequests \subseteq Transactions
  /\ Identities \subseteq Text
  /\ \A batch \in Batches : batch \in Seq(StoreDataTxs)
  \* a schema is what its text parses to
  /\ \A tx, other \in Requests \cup OwnRequests :
       tx.kind = "RegisterSubgrove" /\ other.kind = "RegisterSubgrove" /\ tx.schema.text = other.schema.text
         => tx.schema = other.schema

VARIABLES
  identity,  \* the DID whose key the client holds, or none
  call,      \* the call: where it is, its transactions, the one it is at
  node,      \* of the call's transactions: those received, taken, refused for their signature
  changes    \* history: how often the identity changed during the call

signingVars == <<identity, call, node, changes>>

\* The DID a transaction is signed as: its owner, sender or subject.
Signer(tx) ==
  CASE tx.kind \in {"StoreData", "StoreFileManifest", "DeleteFileManifest", "RegisterSubgrove", "DeregisterSubgrove"} -> tx.owner_did
    [] tx.kind \in {"GrantSubgroveKey", "RotateSubgroveKey", "RevokeSubgroveKey"} -> tx.sender_did
    [] tx.kind = "UnregisterStorageNode" -> tx.node_did
    [] tx.kind = "RegisterDid" -> tx.did_document.id
    [] tx.kind = "Transfer" -> tx.from_did

\* The transaction as the identity's: the client fills in who owns or sends it.
AsOwner(tx, did) ==
  IF tx.kind \in {"GrantSubgroveKey", "RotateSubgroveKey", "RevokeSubgroveKey"} THEN [tx EXCEPT !.sender_did = did]
  ELSE [tx EXCEPT !.owner_did = did]

Idle == [at |-> "idle", client |-> "none", txs |-> << >>, next |-> 1, did |-> None, key |-> None,
         message |-> << >>, results |-> << >>]
NothingSeen == [received |-> {}, taken |-> {}, refused |-> {}]
Over == {"refused", "done", "failed"}

SigningInit ==
  /\ identity = None
  /\ call = Idle
  /\ node = NothingSeen
  /\ changes = 0

-----------------------------------------------------------------------------
(* The calls.                                                              *)
Starts(client, txs, key) ==
  /\ call' = [Idle EXCEPT !.at = IF txs = << >> THEN "done" ELSE "next", !.client = client, !.txs = txs, !.key = key]
  /\ node' = NothingSeen
  /\ changes' = 0
  /\ UNCHANGED identity

\* create_sign_message raises on what can't be signed: nothing is sent.
Raises ==
  /\ call' = [Idle EXCEPT !.at = "refused"]
  /\ node' = NothingSeen
  /\ changes' = 0
  /\ UNCHANGED identity

Asks(client, txs, key) ==
  /\ call.at = "idle"
  /\ IF \A i \in DOMAIN txs : Signable(txs[i]) THEN Starts(client, txs, key) ELSE Raises

\* A call given its key: the ConsensusClient's writes.
ConsensusCall(kind) == \E tx \in Requests : tx.kind = kind /\ Asks("consensus", <<tx>>, Some(Signer(tx)))

ConsensusStoreData == ConsensusCall("StoreData")
ConsensusStoreManifest == ConsensusCall("StoreFileManifest")
ConsensusDeleteManifest == ConsensusCall("DeleteFileManifest")
ConsensusRegisterSubgrove == ConsensusCall("RegisterSubgrove")
ConsensusRegisterDid == ConsensusCall("RegisterDid")
ConsensusTransfer == ConsensusCall("Transfer")
ConsensusDeregister == ConsensusCall("DeregisterSubgrove")

\* A caller that builds and signs the message itself.
OwnBuilder ==
  \E kind \in {"GrantSubgroveKey", "RotateSubgroveKey", "RevokeSubgroveKey", "UnregisterStorageNode"} : ConsensusCall(kind)

\* data.store (store_item, batch_store), of no keys too: every transaction refused that can't be signed before any is sent.
Store ==
  /\ identity # None
  /\ \E batch \in Batches :
       Asks("willow", [i \in DOMAIN batch |-> AsOwner(batch[i], identity[1])], None)

\* RegistrationOperations.register_subgrove: the owner must be the identity.
RegisterSubgrove ==
  /\ identity # None
  /\ \E tx \in OwnRequests :
       /\ tx.kind = "RegisterSubgrove"
       /\ IF tx.owner_did = identity[1] THEN Asks("willow", <<tx>>, None) ELSE call.at = "idle" /\ Raises

GrantKey ==
  /\ identity # None
  /\ \E tx \in OwnRequests : tx.kind = "GrantSubgroveKey" /\ Asks("willow", <<AsOwner(tx, identity[1])>>, None)

RevokeKey ==
  /\ identity # None
  /\ \E tx \in OwnRequests : tx.kind = "RevokeSubgroveKey" /\ Asks("willow", <<AsOwner(tx, identity[1])>>, None)

RotateKey ==
  /\ identity # None
  /\ \E tx \in OwnRequests : tx.kind = "RotateSubgroveKey" /\ Asks("willow", <<AsOwner(tx, identity[1])>>, None)

\* WillowClient.register_did with no key given: the identity must be the document's,
\* and signs before anything is awaited.
RegisterDid ==
  /\ identity # None
  /\ \E tx \in OwnRequests :
       /\ tx.kind = "RegisterDid"
       /\ IF tx.did_document.id = identity[1] THEN Asks("willow", <<tx>>, identity) ELSE call.at = "idle" /\ Raises

-----------------------------------------------------------------------------
(* One transaction of a call.                                              *)
Current == call.txs[call.next]

\* The call ends with an error: the transactions before this one were accepted
\* (error.submitted), this one is error.failed_key.
Fails == call' = [call EXCEPT !.at = "failed"]

\* The account whose nonce is taken: the identity's now, or the signer's, a
\* RegisterDid's document in either client.
Account ==
  IF call.client = "willow" /\ Current.kind # "RegisterDid" THEN identity ELSE Some(Signer(Current))

\* _take_nonce
TakeNonce ==
  /\ call.at = "next"
  /\ call' = [call EXCEPT !.at = "taking", !.did = Account]
  /\ UNCHANGED <<identity, node, changes>>

\* The key: the one given, else the identity's now.
SigningKey == IF call.key # None THEN call.key ELSE identity

\* _sign_transaction and the wrapper: with no key, or bytes the wrapper does not take, nothing is sent.
Sign ==
  /\ call.at = "taking"
  /\ IF SigningKey # None /\ WireRule(Current)
     THEN /\ call' = [call EXCEPT !.at = "sent", !.key = SigningKey, !.message = SignMessage(Current)]
          /\ node' = [node EXCEPT !.received = @ \cup {call.next}]
     ELSE /\ Fails
          /\ UNCHANGED node
  /\ UNCHANGED <<identity, changes>>

\* The node: the body decodes, and its message is the one its signer's key signed.
Verifies == NodeReads(WireBody(Current)) /\ SignMessage(WireBody(Current)) = call.message /\ call.key = Some(Signer(Current))

\* Mutant of Goes: after a failure the batch goes on.
GoesOn == {"accepted", "refused"}

\* The answers after which data.store sends the next key.
Goes == {"accepted"}

KeyAfter == IF call.client = "willow" /\ Len(call.txs) > 1 THEN None ELSE call.key

Returns(answer) ==
  IF answer \notin Goes THEN Fails
  ELSE call' = [call EXCEPT !.results = Append(call.results, [tx |-> Current, did |-> call.did]),
                            !.message = << >>, !.key = KeyAfter,
                            !.at = IF call.next = Len(call.txs) THEN "done" ELSE "next",
                            !.next = IF call.next = Len(call.txs) THEN call.next ELSE call.next + 1]

\* CheckTx takes it, and says so or the answer is lost; or refuses it.
Accept ==
  /\ call.at = "sent"
  /\ Verifies
  /\ node' = [node EXCEPT !.taken = @ \cup {call.next}]
  /\ Returns("accepted") \/ Returns("lost")
  /\ UNCHANGED <<identity, changes>>

Reject ==
  /\ call.at = "sent"
  /\ node' = [node EXCEPT !.refused = IF Verifies THEN @ ELSE @ \cup {call.next}]
  /\ Returns("refused")
  /\ UNCHANGED <<identity, changes>>

\* Cancelled, or out of time for a nonce.
Cancel ==
  /\ call.at \in {"taking", "sent"}
  /\ Fails
  /\ UNCHANGED <<identity, node, changes>>

\* The caller has its results, or its error.
Ends ==
  /\ call.at \in Over
  /\ call' = Idle
  /\ node' = NothingSeen
  /\ changes' = 0
  /\ UNCHANGED identity

-----------------------------------------------------------------------------
Changes ==
  /\ call.at \notin Over
  /\ IF call.at = "idle" THEN changes' = changes ELSE changes < MaxChanges /\ changes' = changes + 1
  /\ UNCHANGED <<call, node>>

SetIdentity == (\E did \in Identities : identity' = Some(did) /\ identity' # identity) /\ Changes
ClearIdentity == identity # None /\ identity' = None /\ Changes

SigningNext ==
  \/ ConsensusStoreData \/ ConsensusStoreManifest \/ ConsensusDeleteManifest
  \/ ConsensusRegisterSubgrove \/ ConsensusRegisterDid \/ ConsensusTransfer \/ ConsensusDeregister
  \/ OwnBuilder
  \/ Store \/ RegisterSubgrove \/ GrantKey \/ RevokeKey \/ RotateKey \/ RegisterDid
  \/ TakeNonce \/ Sign \/ Accept \/ Reject \/ Cancel \/ Ends
  \/ SetIdentity \/ ClearIdentity

SigningSpec == SigningInit /\ [][SigningNext]_signingVars

-----------------------------------------------------------------------------
(* Properties.                                                             *)

\* The kinds create_sign_message says bind the nonce and every field written.
BoundKinds == {"StoreData", "StoreFileManifest", "DeleteFileManifest", "RegisterSubgrove", "GrantSubgroveKey",
               "RotateSubgroveKey", "RevokeSubgroveKey", "UnregisterStorageNode", "RegisterDid"}

\* Every message of Requests that can be signed, with the body sent under it.
SignedBodies ==
  {[message |-> SignMessage(tx), body |-> WireBody(tx)] :
     tx \in {r \in Requests : r.kind \in BoundKinds /\ Signable(r) /\ WireRule(r)}}

\* A signature is good for one body only: no other transaction the SDK would
\* sign reads as the same message. Texts that hold a label or a colon, lists
\* next to lists and optional fields must not run into each other
\* (signed_messages.py: "the lines must read back one way only").
SignatureBindsFields ==
  call.at = "sent" /\ Current.kind \in BoundKinds =>
    \A other \in SignedBodies : other.message = call.message => other.body = WireBody(Current)

\* The node takes what was signed: the message it builds from the body it
\* decodes is the one the SDK built from the caller's fields, in whatever form
\* they came, and the key is the owner's, unless the identity was changed while
\* the call waited ("Send exactly what this returns, so the node hashes what
\* was signed").
NodeTakesSigned == node.refused # {} => call.client = "willow" /\ changes > 0

\* The grants of a signed transaction can be taken back: the subgrove and
\* grantee of every key a grant, a rotation or the first grant of a private
\* data subgrove gives are ones a revoke takes (_grant_rules: "a grantee that
\* isn't a DID (a revoke could not remove it)").
Granted(tx) ==
  CASE tx.kind = "GrantSubgroveKey" -> {tx.grant}
    [] tx.kind = "RotateSubgroveKey" -> ToSet(tx.new_grants)
    [] tx.kind = "RegisterSubgrove" ->
         IF Default(MergedMode(tx), NoMode).type = "DataStorage" /\ tx.privacy # None
         THEN ToSet(tx.initial_owner_key_grant) ELSE {}
    [] OTHER -> {}

GrantsCanBeRevoked ==
  call.at = "sent" =>
    \A g \in Granted(Current) : KeySubgroveRule(Current.subgrove_id) /\ DidRule(g.grantee_did)

\* A batch's account of itself is true however it ends: the keys it reports
\* submitted are the ones before the failed key, in order, each taken by the
\* node under the owner it was asked for, and no key after the failed one
\* reached the node (data.store, error.submitted and error.failed_key).
BatchSaysWhatHappened ==
  /\ \A i \in DOMAIN call.results : i \in node.taken /\ call.results[i].tx = call.txs[i]
  /\ call.at = "failed" => node.received \subseteq 1..call.next /\ Len(call.results) = call.next - 1
  /\ call.at = "done" => Len(call.results) = Len(call.txs)

=============================================================================
