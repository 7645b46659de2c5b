-------------------------- MODULE RegisterSubgrove --------------------------
(***************************************************************************)
(* A RegisterSubgrove transaction: as the caller gives it, as the node     *)
(* decodes it (every field explicit), its bincode, and the message its     *)
(* owner signs (signed_messages.py; RegisterSubgroveTx of                  *)
(* consensus/types.py). Fields of the wrong type, and required ones left   *)
(* out, are refused before anything here and are not modelled.             *)
(***************************************************************************)
EXTENDS TextFields

CONSTANTS
  MaxIdLen,   \* the longest storage subgrove ID, in tokens: 64 in the code
  HashLen     \* the bytes of a hash: 32 in the code

ASSUME RegisterSubgroveAssumption == MaxIdLen \in Nat /\ HashLen \in Nat

SubgroveModes == <<"DataStorage", "FileStorage", "BlockchainIndexing">>
TeeTypes == <<"AwsNitro", "IntelSgx", "AmdSev">>
ExecutionModes == <<"ConsensusExecution", "IndexerExecution", "TeeExecution">>
RetentionWindows == <<"Blocks", "Seconds", "Indefinite", "VerifyOnly">>
HistoricalAuthModes == <<"BftEquivalent", "CanonizedAccumulator">>
CommitmentFrequencies == <<"EveryUpdate", "EveryNBlocks", "EveryNSeconds", "Never">>
SchemaFieldTypes == {"string", "number", "boolean", "array", "object", "bytes"}

DefaultEpochLength == 100

-----------------------------------------------------------------------------
(* The transaction as the caller gives it, every field of its type.        *)
Counted(types) == [type : types, value : Optional(Int)]
Amounts == [text : BOOLEAN, value : Int]   \* a number, or its decimal text

\* A schema: its text, and what that parses to.
Schemas ==
  [text : Text, object : BOOLEAN, duplicates : SUBSET STRING, version : Int, types : SUBSET STRING,
   indexes : BOOLEAN, required_names : BOOLEAN]

EncryptedKeyGrants ==
  [grantee_did : Text, key_epoch : Int, grantee_public_key_id : Text, ephemeral_public_key : ByteField,
   encrypted_key : ByteField, granted_by : Text, granted_at : Int]

ReadPricings == [enabled : BOOLEAN, price_per_query : Int, owner_revenue_share_bps : Int]

\* The readers of a storage mode, under one name of the field, the other, or both.
ReaderLists == [key : {"free_readers", "readers", "both"}, list : List(Text)]

DataStorages ==
  [type : {"DataStorage"}, name : Text, writers : List(Text), readers : ReaderLists, read_pricing : Optional(ReadPricings)]

FileStorages ==
  [type : {"FileStorage"}, name : Text, max_file_size : Int, replication_factor : Int, writers : List(Text),
   readers : ReaderLists, read_pricing : Optional(ReadPricings), retention_period : Optional(Int)]

WasmSources == [name : Text, hash : ByteField, content : ByteField]

\* Each of the modes that carry a value carries its own.
Executions ==
  {e \in [type : ToSet(ExecutionModes), sampling_rate_percent : Optional(Int), tee_type : Optional(ToSet(TeeTypes))] :
     /\ e.sampling_rate_percent # None <=> e.type = "IndexerExecution"
     /\ e.tee_type # None <=> e.type = "TeeExecution"}

IndexerConfigs ==
  [min_indexers : Int, max_indexers : Int, reward_per_epoch : Amounts, epoch_length : Optional(Int),
   min_indexer_stake : Amounts]

Completenesses ==
  [log_config_hash : Seq(Int), tx_config_hash : Seq(Int), deferred : Optional(BOOLEAN), bond_amount : Optional(Int)]

BlockchainIndexings ==
  [type : {"BlockchainIndexing"}, manifest_content : ByteField, wasm_modules : Optional(List(WasmSources)),
   execution_mode : Executions, indexer_config : IndexerConfigs,
   retention_window : Optional(Counted(ToSet(RetentionWindows))), completeness : Optional(Completenesses),
   historical_auth_mode : Optional(ToSet(HistoricalAuthModes))]

Modes == DataStorages \cup FileStorages \cup BlockchainIndexings

PrivacyConfigs ==
  [allowed_indexers : Optional(List(Text)), commitment_frequency : Counted(ToSet(CommitmentFrequencies))]

TemplateConfigs ==
  [template_id : Text, template_version : Int, variant_id : Text, parameters : ByteField, contracts : List(Text),
   event_signatures : List(Text), chain : Optional(Text)]

RegisterSubgroveTxs ==
  [kind : {"RegisterSubgrove"}, subgrove_id : Text, name : Optional(Text), description : Optional(Text),
   schema : Schemas, owner_did : Text, admins : Optional(List(Text)), initial_funding : Optional(Amounts),
   required_tee : Optional(ToSet(TeeTypes)), mode : Optional(Modes),
   retention_window : Optional(Counted(ToSet(RetentionWindows))), privacy : Optional(PrivacyConfigs),
   initial_owner_key_grant : Optional(EncryptedKeyGrants), template_config : Optional(TemplateConfigs),
   confirmation_depth : Optional(Int), public_key_id : Text, nonce : Int, cryptographic_completeness : Optional(BOOLEAN)]

-----------------------------------------------------------------------------
(* RegisterSubgroveTx.to_dict: the retention window goes into the mode, a  *)
(* name left out is the mode's.                                            *)
ModeRule(tx) ==
  tx.retention_window # None =>
    /\ tx.mode # None
    /\ tx.mode[1].type = "BlockchainIndexing"
    /\ tx.mode[1].retention_window = None

MergedMode(tx) ==
  IF tx.retention_window = None THEN tx.mode
  ELSE Some([tx.mode[1] EXCEPT !.retention_window = tx.retention_window])

NameOf(tx) ==
  IF tx.name # None THEN tx.name[1]
  ELSE IF tx.mode # None /\ "name" \in DOMAIN tx.mode[1] THEN tx.mode[1].name ELSE << >>

ToDict(tx) ==
  [tx EXCEPT !.mode = MergedMode(tx), !.name = Some(NameOf(tx)), !.retention_window = None]

-----------------------------------------------------------------------------
\* _free_readers: a DataStorage mode takes its readers under either name.
FreeReadersRule(mode) ==
  mode.readers.key = "free_readers" \/ (mode.type = "DataStorage" /\ mode.readers.key = "readers")

KeyGrantNumbers(g) == Unsigned(g.key_epoch, 4) /\ Unsigned(g.granted_at, 8)

PricingRule(p) == Unsigned(p.price_per_query, 16) /\ Unsigned(p.owner_revenue_share_bps, 4)

\* _retention_window and _commitment_frequency: only the counted variants take a value.
CountedRule(v, counted) ==
  IF v.type \in counted THEN v.value # None /\ Unsigned(v.value[1], 8) ELSE v.value = None

ExecutionRule(e) == e.sampling_rate_percent # None => Unsigned(e.sampling_rate_percent[1], 1)

IndexerConfigRule(c) ==
  /\ Unsigned(c.min_indexers, 1) /\ Unsigned(c.max_indexers, 1)
  /\ Unsigned(c.reward_per_epoch.value, 16) /\ Unsigned(c.min_indexer_stake.value, 16)
  /\ Unsigned(Default(c.epoch_length, DefaultEpochLength), 8)

CompletenessRule(c) ==
  /\ \A h \in {c.log_config_hash, c.tx_config_hash} :
       Len(h) = 4 /\ \A i \in DOMAIN h : Unsigned(h[i], 4)
  /\ Unsigned(Default(c.bond_amount, 0), 16)

WasmRule(modules) == \A i \in DOMAIN modules : HexRule(modules[i].hash, HashLen)

SubgroveModeRule(mode) ==
  CASE mode.type = "DataStorage" -> FreeReadersRule(mode) /\ Holds(mode.read_pricing, PricingRule)
    [] mode.type = "FileStorage" ->
         /\ FreeReadersRule(mode) /\ Holds(mode.read_pricing, PricingRule)
         /\ Unsigned(mode.max_file_size, 8) /\ Unsigned(mode.replication_factor, 1)
         /\ Unsigned(Default(mode.retention_period, 0), 8)
    [] OTHER ->
         /\ Holds(mode.wasm_modules, WasmRule)
         /\ ExecutionRule(mode.execution_mode)
         /\ IndexerConfigRule(mode.indexer_config)
         /\ Holds(mode.retention_window, LAMBDA w : CountedRule(w, {"Blocks", "Seconds"}))
         /\ Holds(mode.completeness, CompletenessRule)

\* normalize_register_subgrove: the transactions it takes.
NormalRule(tx) ==
  /\ Holds(tx.initial_funding, LAMBDA n : Unsigned(n.value, 16))
  /\ Holds(tx.mode, SubgroveModeRule)
  /\ Holds(tx.privacy, LAMBDA p : CountedRule(p.commitment_frequency, {"EveryNBlocks", "EveryNSeconds"}))
  /\ Holds(tx.initial_owner_key_grant, KeyGrantNumbers)
  /\ Holds(tx.template_config, LAMBDA c : Unsigned(c.template_version, 4))
  /\ Unsigned(Default(tx.confirmation_depth, 0), 4)
  /\ Unsigned(tx.nonce, 8)

-----------------------------------------------------------------------------
(* normalize_register_subgrove: what it makes of one. A decimal text       *)
(* becomes a number, a byte field a list, a default is written out.        *)
AsNumber(amount) == [amount EXCEPT !.text = FALSE]
AsFreeReaders(mode) == [mode EXCEPT !.readers.key = "free_readers"]
Written(option, default) == Some(Default(option, default))
Mapped(option, Op(_)) == IF option = None THEN None ELSE Some(Op(option[1]))

\* _key_grant
KeyGrant(g) ==
  [g EXCEPT !.ephemeral_public_key = ByteValues(g.ephemeral_public_key), !.encrypted_key = ByteValues(g.encrypted_key)]

WasmModules(modules) ==
  [i \in DOMAIN modules |->
     [modules[i] EXCEPT !.hash = ByteValues(modules[i].hash), !.content = ByteValues(modules[i].content)]]

IndexerConfig(c) ==
  [c EXCEPT !.reward_per_epoch = AsNumber(c.reward_per_epoch), !.min_indexer_stake = AsNumber(c.min_indexer_stake),
            !.epoch_length = Written(c.epoch_length, DefaultEpochLength)]

Completeness(c) == [c EXCEPT !.deferred = Written(c.deferred, FALSE), !.bond_amount = Written(c.bond_amount, 0)]

\* The node's mode for a body without one.
NoMode == [type |-> "DataStorage", name |-> << >>, writers |-> << >>,
           readers |-> [key |-> "free_readers", list |-> << >>], read_pricing |-> None]

\* _subgrove_mode
SubgroveMode(mode) ==
  CASE mode.type = "DataStorage" -> AsFreeReaders(mode)
    [] mode.type = "FileStorage" -> [mode EXCEPT !.retention_period = Written(mode.retention_period, 0)]
    [] OTHER ->
         [mode EXCEPT !.manifest_content = ByteValues(mode.manifest_content),
                      !.wasm_modules = Mapped(Written(mode.wasm_modules, << >>), WasmModules),
                      !.indexer_config = IndexerConfig(mode.indexer_config),
                      !.retention_window = Written(mode.retention_window, [type |-> "Indefinite", value |-> None]),
                      !.completeness = Mapped(mode.completeness, Completeness),
                      !.historical_auth_mode = Written(mode.historical_auth_mode, "BftEquivalent")]

\* _template_config
TemplateConfig(c) == [c EXCEPT !.parameters = ByteValues(c.parameters)]

Normalize(tx) ==
  [tx EXCEPT !.description = Written(tx.description, << >>),
             !.admins = Written(tx.admins, << >>),
             !.initial_funding = Mapped(tx.initial_funding, AsNumber),
             !.mode = Some(SubgroveMode(Default(tx.mode, NoMode))),
             !.initial_owner_key_grant = Mapped(tx.initial_owner_key_grant, KeyGrant),
             !.template_config = Mapped(tx.template_config, TemplateConfig),
             !.confirmation_depth = Written(tx.confirmation_depth, 0),
             !.cryptographic_completeness = Written(tx.cryptographic_completeness, FALSE)]

-----------------------------------------------------------------------------
(* register_subgrove_unsigned_bincode, of a normalized transaction.        *)
EncodeReadPricing(p) == Bool(p.enabled) \o U128(p.price_per_query) \o U32(p.owner_revenue_share_bps)

EncodeKeyGrant(g) ==
  String(g.grantee_did) \o U32(g.key_epoch) \o String(g.grantee_public_key_id)
  \o ByteVec(Bytes(g.ephemeral_public_key)) \o ByteVec(Bytes(g.encrypted_key))
  \o String(g.granted_by) \o U64(g.granted_at)

EncodeWasm(m) == String(m.name) \o Bytes(m.hash) \o ByteVec(Bytes(m.content))

EncodeExecution(e) ==
  Variant(e.type, ExecutionModes)
  \o (CASE e.type = "IndexerExecution" -> U8(e.sampling_rate_percent[1])
        [] e.type = "TeeExecution" -> Variant(e.tee_type[1], TeeTypes)
        [] OTHER -> << >>)

EncodeCounted(v, variants) == Variant(v.type, variants) \o (IF v.value = None THEN << >> ELSE U64(v.value[1]))

EncodeCompleteness(c) ==
  FlattenSeq([i \in 1..8 |-> U32((c.log_config_hash \o c.tx_config_hash)[i])])
  \o Bool(c.deferred[1]) \o U128(c.bond_amount[1])

EncodeIndexing(m) ==
  LET c == m.indexer_config
  IN ByteVec(Bytes(m.manifest_content))
     \o U64(Len(m.wasm_modules[1]))
     \o FlattenSeq([i \in DOMAIN m.wasm_modules[1] |-> EncodeWasm(m.wasm_modules[1][i])])
     \o EncodeExecution(m.execution_mode)
     \o U8(c.min_indexers) \o U8(c.max_indexers) \o U128(c.reward_per_epoch.value)
     \o U64(c.epoch_length[1]) \o U128(c.min_indexer_stake.value)
     \o EncodeCounted(m.retention_window[1], RetentionWindows)
     \o Option(m.completeness, EncodeCompleteness)
     \o Variant(m.historical_auth_mode[1], HistoricalAuthModes)

EncodeMode(m) ==
  Variant(m.type, SubgroveModes)
  \o (CASE m.type = "DataStorage" ->
             String(m.name) \o Strings(m.writers) \o Strings(m.readers.list)
             \o Option(m.read_pricing, EncodeReadPricing)
        [] m.type = "FileStorage" ->
             String(m.name) \o U64(m.max_file_size) \o U8(m.replication_factor)
             \o Strings(m.writers) \o Strings(m.readers.list)
             \o Option(m.read_pricing, EncodeReadPricing) \o U64(m.retention_period[1])
        [] OTHER -> EncodeIndexing(m))

EncodePrivacy(p) ==
  Option(p.allowed_indexers, Strings) \o EncodeCounted(p.commitment_frequency, CommitmentFrequencies)

EncodeTemplate(c) ==
  String(c.template_id) \o U32(c.template_version) \o String(c.variant_id)
  \o ByteVec(Bytes(c.parameters)) \o Strings(c.contracts) \o Strings(c.event_signatures)
  \o Option(c.chain, String)

UnsignedBincode(t) ==
  String(t.subgrove_id) \o String(t.name[1]) \o String(t.description[1]) \o String(t.schema.text)
  \o String(t.owner_did) \o Strings(t.admins[1])
  \o Option(t.initial_funding, LAMBDA n : U128(n.value))
  \o Option(t.required_tee, LAMBDA v : Variant(v, TeeTypes))
  \o EncodeMode(t.mode[1])
  \o Option(t.privacy, EncodePrivacy)
  \o Option(t.initial_owner_key_grant, EncodeKeyGrant)
  \o Option(t.template_config, EncodeTemplate)
  \o U32(t.confirmation_depth[1])
  \o ByteVec(<< >>)
  \o String(t.public_key_id) \o U64(t.nonce) \o Bool(t.cryptographic_completeness[1])

-----------------------------------------------------------------------------
(* The rules the node checks in a storage registration's block.            *)

\* _schema_definition_rules. A schema: its text, and what it parses to.
SchemaDefinitionRule(s) ==
  /\ s.object
  /\ s.duplicates \cap {"version", "fields", "indexes", "required_fields"} = {}
  /\ Unsigned(s.version, 4)
  /\ s.types \subseteq SchemaFieldTypes
  /\ ~s.indexes
  /\ s.required_names

\* _STORAGE_SUBGROVE_ID
StorageIdRule(id) == id # << >> /\ Len(id) <= MaxIdLen /\ id[1][1] = "word" /\ IdChars(id)

\* _storage_registration_rules
StorageRegistrationRules(t) ==
  LET mode == t.mode[1]
  IN mode.type # "BlockchainIndexing" =>
       /\ StorageIdRule(t.subgrove_id)
       /\ \A did \in ToSet(t.admins[1]) \cup ToSet(mode.writers) \cup ToSet(mode.readers.list) : DidRule(did)
       /\ SchemaDefinitionRule(t.schema)

\* _initial_grant_rules
InitialGrantRules(t) ==
  (t.mode[1].type = "DataStorage" /\ t.privacy # None) =>
    Holds(t.initial_owner_key_grant,
          LAMBDA g : g.key_epoch = 0 /\ g.grantee_did = t.owner_did /\ DidRule(g.grantee_did))

\* register_subgrove_message
RegisterSubgroveRule(t) ==
  /\ NormalRule(t)
  /\ FieldRule(t.subgrove_id) /\ FieldRule(t.owner_did)
  /\ StorageRegistrationRules(Normalize(t))
  /\ InitialGrantRules(Normalize(t))

RegisterSubgroveMessage(t) ==
  JoinLines(<< <<Label("RegisterSubgrove")>>,
               Line("Subgrove", t.subgrove_id),
               Line("Owner", t.owner_did),
               Line("Config", <<Sha256(UnsignedBincode(Normalize(t)))>>),
               Line("Nonce", <<Number(t.nonce)>>) >>)
=============================================================================
