--------------------------- MODULE SignedMessages ---------------------------
(***************************************************************************)
(* A transaction from the caller's fields to the wire: the message it is   *)
(* signed over (create_sign_message, signed_messages.py) and the body it   *)
(* is sent as (to_dict, create_transaction_wrapper). A transaction is a    *)
(* record of its kind and fields, under the nonce handed out for it.       *)
(***************************************************************************)
EXTENDS RegisterSubgrove

CONSTANTS
  EncryptionNonceLen,  \* the bytes of a file's nonce: 24 in the code
  EphemeralKeyLen,     \* _EPHEMERAL_KEY_BYTES
  MaxEncryptedLen,     \* _MAX_ENCRYPTED_KEY_BYTES
  MaxGrants            \* _MAX_ROTATION_GRANTS

ASSUME SignedMessagesAssumption == {EncryptionNonceLen, EphemeralKeyLen, MaxEncryptedLen, MaxGrants} \subseteq Nat

NonceLine(tx) == Line("Nonce", <<Number(tx.nonce)>>)
Kind(tx) == <<Label(tx.kind)>>

-----------------------------------------------------------------------------
(* Data and files.                                                         *)
StoreDataTxs ==
  [kind : {"StoreData"}, subgrove_id : Text, key : Text, owner_did : Text, data : Text, nonce : Int]

StoreDataMessage(tx) ==
  JoinLines(<< Kind(tx), Line("Subgrove", tx.subgrove_id), Line("Key", tx.key), Line("Owner", tx.owner_did),
               Line("DataHash", <<Sha256(tx.data)>>), NonceLine(tx) >>)

StoreDataRule(tx) ==
  FieldRule(tx.subgrove_id) /\ FieldRule(tx.key) /\ FieldRule(tx.owner_did) /\ Unsigned(tx.nonce, 8)

\* Encryption goes with a manifest only from a caller of the builder, who sends
\* its nonce as the list of bytes the node reads.
Encryptions == [key_epoch : Int, nonce : {f \in ByteField : f.form = "list"}]

StoreFileManifestTxs ==
  [kind : {"StoreFileManifest"}, subgrove_id : Text, file_key : Text, owner_did : Text, filename : Text,
   content_type : Text, total_size : Int, content_hash : ByteField, chunk_count : Int, chunk_size : Int,
   chunk_merkle_root : ByteField, encryption : Optional(Encryptions), nonce : Int]

\* The line of a manifest without encryption, or of one under a key epoch and nonce.
EncryptionLine(option) ==
  Line("Encryption",
       IF option = None THEN <<Word("none")>>
       ELSE <<Number(option[1].key_epoch), Colon, Hex(option[1].nonce.bytes)>>)

StoreFileManifestMessage(tx) ==
  JoinLines(<< Kind(tx), Line("Subgrove", tx.subgrove_id), Line("Key", tx.file_key), Line("Owner", tx.owner_did),
               Line("Filename", tx.filename), Line("ContentType", tx.content_type),
               Line("TotalSize", <<Number(tx.total_size)>>),
               Line("ContentHash", <<Hex(tx.content_hash.bytes)>>),
               Line("ChunkCount", <<Number(tx.chunk_count)>>), Line("ChunkSize", <<Number(tx.chunk_size)>>),
               Line("ChunkMerkleRoot", <<Hex(tx.chunk_merkle_root.bytes)>>),
               EncryptionLine(tx.encryption), NonceLine(tx) >>)

StoreFileManifestRule(tx) ==
  /\ FieldRule(tx.subgrove_id) /\ FieldRule(tx.file_key) /\ FieldRule(tx.owner_did)
  /\ FieldRule(tx.filename) /\ FieldRule(tx.content_type)
  /\ Unsigned(tx.total_size, 8) /\ Unsigned(tx.chunk_count, 4) /\ Unsigned(tx.chunk_size, 4)
  /\ HexRule(tx.content_hash, HashLen) /\ HexRule(tx.chunk_merkle_root, HashLen)
  /\ Holds(tx.encryption, LAMBDA e : Unsigned(e.key_epoch, 8) /\ HexRule(e.nonce, EncryptionNonceLen))
  /\ Unsigned(tx.nonce, 8)

DeleteFileManifestTxs ==
  [kind : {"DeleteFileManifest"}, subgrove_id : Text, file_key : Text, owner_did : Text, nonce : Int]

DeleteFileManifestMessage(tx) ==
  JoinLines(<< Kind(tx), Line("Subgrove", tx.subgrove_id), Line("Key", tx.file_key),
               Line("Owner", tx.owner_did), NonceLine(tx) >>)

DeleteFileManifestRule(tx) ==
  FieldRule(tx.subgrove_id) /\ FieldRule(tx.file_key) /\ FieldRule(tx.owner_did) /\ Unsigned(tx.nonce, 8)

-----------------------------------------------------------------------------
(* Key grants.                                                             *)

GrantTxs ==
  [kind : {"GrantSubgroveKey"}, subgrove_id : Text, sender_did : Text, grant : EncryptedKeyGrants, nonce : Int]
RotateTxs ==
  [kind : {"RotateSubgroveKey"}, subgrove_id : Text, sender_did : Text, new_epoch : Int,
   new_grants : Seq(EncryptedKeyGrants), nonce : Int]
RevokeTxs ==
  [kind : {"RevokeSubgroveKey"}, subgrove_id : Text, revokee_did : Text, sender_did : Text, nonce : Int]
UnregisterTxs == [kind : {"UnregisterStorageNode"}, node_did : Text, nonce : Int]

\* _grant_lines
GrantLines(g) ==
  << Line("Grantee", g.grantee_did), Line("GranteeKey", g.grantee_public_key_id),
     Line("KeyEpoch", <<Number(g.key_epoch)>>), Line("EphemeralKey", <<Hex(g.ephemeral_public_key.bytes)>>),
     Line("EncryptedKey", <<Hex(g.encrypted_key.bytes)>>), Line("GrantedBy", g.granted_by),
     Line("GrantedAt", <<Number(g.granted_at)>>) >>

\* Mutant of GrantRules: any text may be the grantee.
GrantRulesAnyone(g) == Len(g.encrypted_key.bytes) \in 1..MaxEncryptedLen

\* _grant_rules
GrantRules(g) ==
  /\ DidRule(g.grantee_did)
  /\ Len(g.ephemeral_public_key.bytes) = EphemeralKeyLen
  /\ Len(g.encrypted_key.bytes) \in 1..MaxEncryptedLen

GrantFields(g) ==
  KeyGrantNumbers(g) /\ FieldRule(g.grantee_did) /\ FieldRule(g.grantee_public_key_id) /\ FieldRule(g.granted_by)

GrantMessage(tx) ==
  JoinLines(<< Kind(tx), Line("Subgrove", tx.subgrove_id), Line("Sender", tx.sender_did) >>
            \o GrantLines(tx.grant) \o <<NonceLine(tx)>>)

GrantRule(tx) ==
  /\ FieldRule(tx.subgrove_id) /\ FieldRule(tx.sender_did) /\ GrantFields(tx.grant) /\ Unsigned(tx.nonce, 8)
  /\ KeySubgroveRule(tx.subgrove_id)
  /\ tx.sender_did # << >>
  /\ GrantRules(tx.grant)

RotateMessage(tx) ==
  JoinLines(<< Kind(tx), Line("Subgrove", tx.subgrove_id), Line("Sender", tx.sender_did),
               Line("NewEpoch", <<Number(tx.new_epoch)>>), Line("Grants", <<Number(Len(tx.new_grants))>>) >>
            \o FlattenSeq([i \in DOMAIN tx.new_grants |-> GrantLines(tx.new_grants[i])]) \o <<NonceLine(tx)>>)

RotateRule(tx) ==
  /\ FieldRule(tx.subgrove_id) /\ FieldRule(tx.sender_did) /\ Unsigned(tx.new_epoch, 4) /\ Unsigned(tx.nonce, 8)
  /\ KeySubgroveRule(tx.subgrove_id)
  /\ Len(tx.new_grants) \in 1..MaxGrants
  /\ \A i \in DOMAIN tx.new_grants : GrantFields(tx.new_grants[i]) /\ GrantRules(tx.new_grants[i])

\* Joined with colons, not in lines.
RevokeMessage(tx) ==
  Kind(tx) \o <<Colon>> \o tx.subgrove_id \o <<Colon>> \o tx.revokee_did \o <<Colon>> \o tx.sender_did
  \o <<Colon, Number(tx.nonce)>>

RevokeRule(tx) ==
  KeySubgroveRule(tx.subgrove_id) /\ DidRule(tx.revokee_did) /\ DidRule(tx.sender_did) /\ Unsigned(tx.nonce, 8)

UnregisterMessage(tx) == JoinLines(<< Kind(tx), Line("Node", tx.node_did), NonceLine(tx) >>)

UnregisterRule(tx) == FieldRule(tx.node_did) /\ Unsigned(tx.nonce, 8)

-----------------------------------------------------------------------------
(* RegisterDid: the node's compact JSON of the document. A field may come  *)
(* under the node's name or the SDK's ("alias"); others are dropped.       *)

PublicKeys ==
  [id : Text, type : Text, controller : Text, public_key_base58 : Optional(Text), public_key_hex : Optional(Text),
   alias : BOOLEAN]
Services == [id : Text, type : Text, service_endpoint : Text, alias : BOOLEAN]
DidProofs ==
  [type : Text, created : Int, verification_method : Text, proof_purpose : Text, jws : Text, alias : BOOLEAN]
DidDocuments ==
  [id : Text, public_keys : Seq(PublicKeys), authentication : Seq(Text), service : Optional(Seq(Services)),
   created : Int, updated : Int, proof : Optional(DidProofs), extra : BOOLEAN]
RegisterDidTxs == [kind : {"RegisterDid"}, did_document : DidDocuments]

\* A key of the document as sent.
PublicKey(k) == [k EXCEPT !.alias = FALSE]
Service(s) == [s EXCEPT !.alias = FALSE]
Proof(p) == [p EXCEPT !.alias = FALSE]

\* did_document_body
DidDocumentBody(d) ==
  [d EXCEPT !.public_keys = [i \in DOMAIN d.public_keys |-> PublicKey(d.public_keys[i])],
            !.service = Some([i \in DOMAIN Default(d.service, << >>) |-> Service(d.service[1][i])]),
            !.proof = Mapped(d.proof, Proof), !.extra = FALSE]

DidDocumentRule(d) ==
  Unsigned(d.created, 8) /\ Unsigned(d.updated, 8) /\ Holds(d.proof, LAMBDA p : Unsigned(p.created, 8))

\* json.dumps of a text: JSON's escapes, and quotes around it.
JsonText(text) ==
  <<Quote>>
  \o FlattenSeq([i \in DOMAIN text |->
       IF text[i] \in {Quote, LineBreak, <<"mark", "backslash">>} THEN <<<<"mark", "backslash">>, text[i]>>
       ELSE <<text[i]>>])
  \o <<Quote>>

JsonOption(option, Json(_)) == IF option = None THEN <<Word("null")>> ELSE Json(option[1])
JsonMember(name, json) == <<Label(name)>> \o json
JsonObject(members) == <<<<"mark", "{">>>> \o FlattenSeq(members) \o <<<<"mark", "}">>>>
JsonList(items) ==
  <<<<"mark", "[">>>> \o FlattenSeq([i \in DOMAIN items |-> items[i] \o <<<<"mark", ",">>>>]) \o <<<<"mark", "]">>>>

KeyJson(k) ==
  JsonObject(<< JsonMember("id", JsonText(k.id)), JsonMember("type", JsonText(k.type)),
                JsonMember("controller", JsonText(k.controller)),
                JsonMember("public_key_base58", JsonOption(k.public_key_base58, JsonText)),
                JsonMember("public_key_hex", JsonOption(k.public_key_hex, JsonText)) >>)

ServiceJson(s) ==
  JsonObject(<< JsonMember("id", JsonText(s.id)), JsonMember("type", JsonText(s.type)),
                JsonMember("service_endpoint", JsonText(s.service_endpoint)) >>)

ProofJson(p) ==
  JsonObject(<< JsonMember("type", JsonText(p.type)), JsonMember("created", <<Number(p.created)>>),
                JsonMember("verification_method", JsonText(p.verification_method)),
                JsonMember("proof_purpose", JsonText(p.proof_purpose)), JsonMember("jws", JsonText(p.jws)) >>)

\* register_did_message
RegisterDidMessage(tx) ==
  LET d == DidDocumentBody(tx.did_document)
  IN JsonObject(<< JsonMember("id", JsonText(d.id)),
                   JsonMember("public_keys", JsonList([i \in DOMAIN d.public_keys |-> KeyJson(d.public_keys[i])])),
                   JsonMember("authentication", JsonList([i \in DOMAIN d.authentication |-> JsonText(d.authentication[i])])),
                   JsonMember("service", JsonList([i \in DOMAIN d.service[1] |-> ServiceJson(d.service[1][i])])),
                   JsonMember("created", <<Number(d.created)>>), JsonMember("updated", <<Number(d.updated)>>),
                   JsonMember("proof", JsonOption(d.proof, ProofJson)) >>)

-----------------------------------------------------------------------------
(* Transfers and deregistrations: their texts go in with no rule.          *)
TransferTxs ==
  [kind : {"Transfer"}, from_did : Text, to_did : Text, amount : Int, memo : Optional(Text), nonce : Int]
DeregisterTxs == [kind : {"DeregisterSubgrove"}, subgrove_id : Text, owner_did : Text, nonce : Int]

TransferMessage(tx) ==
  JoinLines(<< Kind(tx), Line("From", tx.from_did), Line("To", tx.to_did), Line("Amount", <<Number(tx.amount)>>),
               Line("Memo", Default(tx.memo, << >>)), NonceLine(tx) >>)

DeregisterMessage(tx) ==
  Kind(tx) \o <<Colon>> \o tx.subgrove_id \o <<Colon>> \o tx.owner_did \o <<Colon, Number(tx.nonce)>>

-----------------------------------------------------------------------------
(* Any transaction: what it takes to sign it, its message, its body.       *)

Transactions ==
  StoreDataTxs \cup StoreFileManifestTxs \cup DeleteFileManifestTxs \cup GrantTxs \cup RotateTxs \cup RevokeTxs
  \cup UnregisterTxs \cup RegisterDidTxs \cup RegisterSubgroveTxs \cup TransferTxs \cup DeregisterTxs

\* create_sign_message: the transactions it takes, and their messages.
Signable(tx) ==
  CASE tx.kind = "StoreData" -> StoreDataRule(tx)
    [] tx.kind = "StoreFileManifest" -> StoreFileManifestRule(tx)
    [] tx.kind = "DeleteFileManifest" -> DeleteFileManifestRule(tx)
    [] tx.kind = "GrantSubgroveKey" -> GrantRule(tx)
    [] tx.kind = "RotateSubgroveKey" -> RotateRule(tx)
    [] tx.kind = "RevokeSubgroveKey" -> RevokeRule(tx)
    [] tx.kind = "UnregisterStorageNode" -> UnregisterRule(tx)
    [] tx.kind = "RegisterDid" -> DidDocumentRule(tx.did_document)
    [] tx.kind = "RegisterSubgrove" -> ModeRule(tx) /\ RegisterSubgroveRule(ToDict(tx))
    [] OTHER -> TRUE

SignMessage(tx) ==
  CASE tx.kind = "StoreData" -> StoreDataMessage(tx)
    [] tx.kind = "StoreFileManifest" -> StoreFileManifestMessage(tx)
    [] tx.kind = "DeleteFileManifest" -> DeleteFileManifestMessage(tx)
    [] tx.kind = "GrantSubgroveKey" -> GrantMessage(tx)
    [] tx.kind = "RotateSubgroveKey" -> RotateMessage(tx)
    [] tx.kind = "RevokeSubgroveKey" -> RevokeMessage(tx)
    [] tx.kind = "UnregisterStorageNode" -> UnregisterMessage(tx)
    [] tx.kind = "RegisterDid" -> RegisterDidMessage(tx)
    [] tx.kind = "RegisterSubgrove" -> RegisterSubgroveMessage(ToDict(tx))
    [] tx.kind = "Transfer" -> TransferMessage(tx)
    [] tx.kind = "DeregisterSubgrove" -> DeregisterMessage(tx)

\* _hex_signature_to_bytes takes an 0x, not an 0X.
WireRule(tx) ==
  tx.kind = "StoreFileManifest" => tx.content_hash.form # "0X" /\ tx.chunk_merkle_root.form # "0X"

\* create_transaction_wrapper of to_dict
WireBody(tx) ==
  CASE tx.kind = "StoreFileManifest" ->
         [tx EXCEPT !.content_hash = ByteValues(tx.content_hash), !.chunk_merkle_root = ByteValues(tx.chunk_merkle_root)]
    [] tx.kind = "GrantSubgroveKey" -> [tx EXCEPT !.grant = KeyGrant(tx.grant)]
    [] tx.kind = "RotateSubgroveKey" ->
         [tx EXCEPT !.new_grants = [i \in DOMAIN tx.new_grants |-> KeyGrant(tx.new_grants[i])]]
    [] tx.kind = "RegisterDid" -> [tx EXCEPT !.did_document = DidDocumentBody(tx.did_document)]
    [] tx.kind = "RegisterSubgrove" -> Normalize(ToDict(tx))
    [] OTHER -> tx

\* What the node reads: byte fields only as lists, a document under its own
\* names, a registration with every field explicit.
GrantReads(g) == g.ephemeral_public_key.form = "list" /\ g.encrypted_key.form = "list"

NodeReads(body) ==
  CASE body.kind = "StoreFileManifest" ->
         body.content_hash.form = "list" /\ body.chunk_merkle_root.form = "list"
    [] body.kind = "GrantSubgroveKey" -> GrantReads(body.grant)
    [] body.kind = "RotateSubgroveKey" -> \A i \in DOMAIN body.new_grants : GrantReads(body.new_grants[i])
    [] body.kind = "RegisterDid" -> body.did_document = DidDocumentBody(body.did_document)
    [] body.kind = "RegisterSubgrove" -> body = Normalize(body)
    [] OTHER -> TRUE
=============================================================================
