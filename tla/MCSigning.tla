----------------------------- MODULE MCSigning -----------------------------
(***************************************************************************)
(* Transactions for Signing.  A byte counts to two, so that a u8 ends at   *)
(* 1, a u32 at 15 and a u64 at 255.  The texts hold what could run into    *)
(* the next field: a line break and the next label, a colon, a quote.      *)
(* Each registration is a base one with its mode, or one or two other      *)
(* fields, changed.                                                        *)
(***************************************************************************)
EXTENDS Signing

A == <<Word("a")>>
B == <<Word("b")>>
Then(label) == A \o <<LineBreak, Label(label)>> \o A   \* "a", and what looks like the next line
Did(text) == DidPrefix \o text
DidA == Did(A)
DidB == Did(B)
TwoDids == DidA \o <<Colon>> \o DidB
Words(n) == [i \in 1..n |-> Word("b")]
LongDid == Did(Words(8))

Field(form, bytes) == [form |-> form, bytes |-> bytes]
Hash == Field("hex", <<0, 1>>)

MCChars ==
  {Word(w) : w \in {"a", "b", "did", "willow", "null"}} \cup {Colon, LineBreak, Quote, <<"mark", ",">>, <<"dash", "-">>}
  \cup {Label(l) : l \in {"Key", "Owner", "ContentType", "GranteeKey", "KeyEpoch", "Sender", "Nonce", "Config", "type"}}

StoreDatas ==
  [kind : {"StoreData"}, subgrove_id : {A, Then("Key")}, key : {A, Then("Owner")}, owner_did : {DidA, A, Then("Owner")},
   data : {<< >>, A}, nonce : {1, 2, 256}]

Deletes ==
  [kind : {"DeleteFileManifest"}, subgrove_id : {A, Then("Key")}, file_key : {A, B, Then("Owner")},
   owner_did : {A, Then("Owner")}, nonce : {1, 2}]

Manifests ==
  LET base == [kind |-> "StoreFileManifest", subgrove_id |-> A, file_key |-> A, owner_did |-> DidA, filename |-> A,
               content_type |-> A, total_size |-> 3, content_hash |-> Hash, chunk_count |-> 2, chunk_size |-> 2,
               chunk_merkle_root |-> Hash, encryption |-> None, nonce |-> 1]
  IN {[base EXCEPT !.filename = f, !.content_type = c, !.encryption = e] :
        f \in {A, << >>, Then("ContentType")}, c \in {A, << >>, Then("ContentType")},
        e \in {None} \cup {Some([key_epoch |-> k, nonce |-> Field("list", <<b>>)]) : k \in {0, 1}, b \in {0, 1}}}
     \cup {[base EXCEPT !.content_hash = Field(form, bytes), !.chunk_merkle_root = Field(other, <<1, 1>>)] :
        form \in ByteForms, other \in ByteForms, bytes \in {<<0, 1>>, <<1, 0>>, <<0>>}}
     \cup {[base EXCEPT !.total_size = t, !.chunk_count = n, !.chunk_size = s] :
        t \in {0, 2, 255, 256}, n \in {2, 15, 16}, s \in {2, 3, 16}}

BaseGrant ==
  [grantee_did |-> DidA, key_epoch |-> 0, grantee_public_key_id |-> A, ephemeral_public_key |-> Field("hex", <<0, 1>>),
   encrypted_key |-> Field("list", <<1>>), granted_by |-> A, granted_at |-> 1]

SomeGrants ==
  {[BaseGrant EXCEPT !.grantee_did = d, !.grantee_public_key_id = k] :
     d \in {DidA, DidB, TwoDids, LongDid, A, Then("GranteeKey")}, k \in {A, Then("KeyEpoch"), Then("GranteeKey")}}
  \cup {[BaseGrant EXCEPT !.ephemeral_public_key = Field(f, e), !.encrypted_key = Field(f, k)] :
          f \in ByteForms, e \in {<<0, 1>>, <<1, 1>>, <<1>>}, k \in {<< >>, <<0>>, <<1, 1>>, <<1, 1, 1>>}}
  \cup {[BaseGrant EXCEPT !.key_epoch = e, !.granted_by = b, !.granted_at = t] :
          e \in {0, 15, 16}, b \in {A, << >>}, t \in {0, 255, 256}}

Grants ==
  {[kind |-> "GrantSubgroveKey", subgrove_id |-> A, sender_did |-> DidA, grant |-> g, nonce |-> 1] : g \in SomeGrants}
  \cup {[kind |-> "GrantSubgroveKey", subgrove_id |-> s, sender_did |-> d, grant |-> BaseGrant, nonce |-> n] :
          s \in {A, << >>, A \o <<Colon>> \o A, Then("Sender")}, d \in {DidA, << >>, A, Then("Sender")}, n \in {1, 2}}

Rotations ==
  LET two == {BaseGrant, [BaseGrant EXCEPT !.grantee_did = DidB], [BaseGrant EXCEPT !.grantee_did = A]}
  IN {[kind |-> "RotateSubgroveKey", subgrove_id |-> A, sender_did |-> DidA, new_epoch |-> e, new_grants |-> gs,
       nonce |-> 1] :
        e \in {1, 2, 16},
        gs \in {<< >>} \cup {<<g>> : g \in two} \cup {<<g, h>> : g \in two, h \in two} \cup {<<BaseGrant, BaseGrant, BaseGrant>>}}

Revokes ==
  LET dids == {DidA, DidB, TwoDids, A, A \o <<Colon>> \o A}
  IN [kind : {"RevokeSubgroveKey"}, subgrove_id : {A, << >>, A \o <<Colon>> \o DidA, A \o <<Colon>> \o A},
      revokee_did : dids, sender_did : dids, nonce : {1, 2}]

Others ==
  [kind : {"UnregisterStorageNode"}, node_did : {DidA, A, Then("Nonce")}, nonce : {1, 2}]
  \cup [kind : {"Transfer"}, from_did : {DidA}, to_did : {DidB}, amount : {1, 2}, memo : {None, Some(<< >>), Some(A)}, nonce : {1, 2}]
  \cup [kind : {"DeregisterSubgrove"}, subgrove_id : {A, B}, owner_did : {DidA}, nonce : {1, 2}]

Documents ==
  LET quoted == A \o <<Quote, <<"mark", ",">>, Label("type"), Quote>> \o A   \* looks like the next member
      key == [id |-> A, type |-> A, controller |-> DidA, public_key_base58 |-> None, public_key_hex |-> Some(A), alias |-> FALSE]
      service == [id |-> A, type |-> A, service_endpoint |-> B, alias |-> TRUE]
      proof == [type |-> A, created |-> 1, verification_method |-> A, proof_purpose |-> A, jws |-> B, alias |-> TRUE]
      base == [id |-> DidA, public_keys |-> <<key>>, authentication |-> <<A>>, service |-> None, created |-> 1, updated |-> 1,
               proof |-> None, extra |-> FALSE]
  IN {[base EXCEPT !.public_keys = <<[key EXCEPT !.id = i, !.type = t, !.alias = a]>>] :
        i \in {A, quoted}, t \in {A, quoted}, a \in BOOLEAN}
     \cup {[base EXCEPT !.public_keys = <<[key EXCEPT !.public_key_base58 = p, !.public_key_hex = q]>>] :
        p \in {None, Some(A), Some(<<Word("null")>>)}, q \in {None, Some(A)}}
     \cup {[base EXCEPT !.authentication = l, !.public_keys = ks] :
        l \in {<< >>, <<A>>, <<A, A>>, <<quoted>>}, ks \in {<< >>, <<key>>, <<key, key>>}}
     \cup {[base EXCEPT !.service = s, !.proof = p, !.extra = x, !.updated = u] :
        s \in {None, Some(<< >>), Some(<<service>>), Some(<<service, service>>)}, p \in {None, Some(proof), Some([proof EXCEPT !.jws = A])},
        x \in BOOLEAN, u \in {1, 256}}

Dids == [kind : {"RegisterDid"}, did_document : Documents]

-----------------------------------------------------------------------------
Amount(n) == [text |-> FALSE, value |-> n]
Decimal(n) == [text |-> TRUE, value |-> n]
Pricing(n) == [enabled |-> TRUE, price_per_query |-> n, owner_revenue_share_bps |-> 0]
Readers(key, list) == [key |-> key, list |-> list]
Lists == {<< >>, <<DidA>>, <<DidA, DidA>>, <<DidA, DidB>>}

DataModes ==
  [type : {"DataStorage"}, name : {A}, writers : Lists, readers : [key : {"free_readers"}, list : Lists],
   read_pricing : {None, Some(Pricing(0)), Some(Pricing(1))}]
  \cup [type : {"DataStorage"}, name : {<< >>, B}, writers : {<<DidA>>, <<A>>},
        readers : {Readers("readers", <<DidA>>), Readers("both", <<DidA>>), Readers("free_readers", <<TwoDids>>)}, read_pricing : {None}]

FileModes ==
  [type : {"FileStorage"}, name : {A}, max_file_size : {1, 256}, replication_factor : {0, 1, 2}, writers : {<< >>, <<DidA>>},
   readers : {Readers("readers", <<DidA>>), Readers("free_readers", << >>), Readers("free_readers", <<DidA>>)}, read_pricing : {None},
   retention_period : {None, Some(0), Some(1)}]

Window(t, v) == [type |-> t, value |-> v]

BaseIndexing ==
  [type |-> "BlockchainIndexing", manifest_content |-> Field("hex", <<1>>), wasm_modules |-> None,
   execution_mode |-> [type |-> "ConsensusExecution", sampling_rate_percent |-> None, tee_type |-> None],
   indexer_config |-> [min_indexers |-> 0, max_indexers |-> 1, reward_per_epoch |-> Decimal(1), epoch_length |-> None,
                       min_indexer_stake |-> Amount(0)],
   retention_window |-> None, completeness |-> None, historical_auth_mode |-> None]

Module(name, hash, content) == [name |-> name, hash |-> Field("0x", hash), content |-> Field("list", content)]
Filter(h, d, b) == [log_config_hash |-> h, tx_config_hash |-> <<0, 0, 0, 1>>, deferred |-> d, bond_amount |-> b]

IndexingModes ==
  {[BaseIndexing EXCEPT !.wasm_modules = m, !.manifest_content = Field("hex", c)] :
     c \in {<< >>, <<0>>, <<1>>, <<1, 1>>},
     m \in {None, Some(<< >>), Some(<<Module(A, <<0, 0>>, << >>)>>), Some(<<Module(A, <<0, 0>>, <<1>>)>>), Some(<<Module(A, <<0>>, <<1>>)>>),
            Some(<<Module(A, <<0, 0>>, <<1>>), Module(B, <<1, 0>>, << >>)>>)}}
  \cup {[BaseIndexing EXCEPT !.execution_mode = [type |-> "IndexerExecution", sampling_rate_percent |-> Some(r), tee_type |-> None],
                             !.indexer_config.epoch_length = e] : r \in {0, 1, 2}, e \in {None, Some(0), Some(100), Some(256)}}
  \cup {[BaseIndexing EXCEPT !.execution_mode = [type |-> "TeeExecution", sampling_rate_percent |-> None, tee_type |-> Some(t)],
                             !.indexer_config.min_indexer_stake = s] : t \in ToSet(TeeTypes), s \in {Decimal(0), Amount(3), Amount(65536)}}
  \cup {[BaseIndexing EXCEPT !.retention_window = w, !.historical_auth_mode = h] :
          w \in {None} \cup {Some(Window(t, v)) : t \in ToSet(RetentionWindows), v \in {None, Some(0), Some(256)}},
          h \in {None} \cup {Some(m) : m \in ToSet(HistoricalAuthModes)}}
  \cup {[BaseIndexing EXCEPT !.completeness = Some(Filter(h, d, b))] :
          h \in {<<0, 0, 0, 0>>, <<0, 0, 1, 0>>, <<16, 0, 0, 0>>, <<0>>}, d \in {None, Some(FALSE), Some(TRUE)}, b \in {None, Some(0), Some(1)}}

Schema(text) ==
  [text |-> text, object |-> TRUE, duplicates |-> {}, version |-> 1, types |-> {"string"}, indexes |-> FALSE, required_names |-> TRUE]

BaseTx ==
  [kind |-> "RegisterSubgrove", subgrove_id |-> A, name |-> None, description |-> None, schema |-> Schema(A), owner_did |-> DidA,
   admins |-> None, initial_funding |-> None, required_tee |-> None, mode |-> None, retention_window |-> None, privacy |-> None,
   initial_owner_key_grant |-> None, template_config |-> None, confirmation_depth |-> None, public_key_id |-> A, nonce |-> 1,
   cryptographic_completeness |-> None]

Privacy(list, t, v) == [allowed_indexers |-> list, commitment_frequency |-> Window(t, v)]
Template(chain, p) ==
  [template_id |-> A, template_version |-> 1, variant_id |-> A, parameters |-> Field("hex", p), contracts |-> <<A>>,
   event_signatures |-> << >>, chain |-> chain]

SomeModes == {None, Some(BaseIndexing), Some([NoMode EXCEPT !.name = A, !.writers = <<DidB>>])}

Registrations ==
  {[BaseTx EXCEPT !.mode = Some(m)] : m \in DataModes \cup FileModes \cup IndexingModes}
  \cup {[BaseTx EXCEPT !.mode = m, !.subgrove_id = i, !.name = n, !.owner_did = o] :
          m \in SomeModes, i \in {A, << >>, A \o <<Colon>> \o A, <<<<"dash", "-">>>> \o A, Then("Owner"), A \o A \o A},
          n \in {None, Some(<< >>), Some(B)}, o \in {DidA, A, Then("Config")}}
  \cup {[BaseTx EXCEPT !.description = d, !.admins = a, !.initial_funding = f, !.required_tee = t] :
          d \in {None, Some(<< >>), Some(A)}, a \in {None, Some(<< >>), Some(<<DidA>>), Some(<<A>>)},
          f \in {None, Some(Decimal(0)), Some(Amount(0)), Some(Amount(65536))}, t \in {None, Some("AwsNitro"), Some("AmdSev")}}
  \cup {[BaseTx EXCEPT !.mode = m, !.privacy = Some(p), !.initial_owner_key_grant = g] :
          m \in SomeModes,
          p \in {Privacy(None, "Never", None), Privacy(Some(<< >>), "EveryUpdate", None), Privacy(Some(<<A>>), "EveryNBlocks", Some(1)),
                 Privacy(None, "EveryNBlocks", None), Privacy(None, "Never", Some(1))},
          g \in {None, Some(BaseGrant), Some([BaseGrant EXCEPT !.grantee_did = A]), Some([BaseGrant EXCEPT !.key_epoch = 1]),
                 Some([BaseGrant EXCEPT !.encrypted_key = Field("0X", <<1>>)])}}
  \cup {[BaseTx EXCEPT !.mode = m, !.initial_owner_key_grant = Some([BaseGrant EXCEPT !.grantee_did = A])] : m \in SomeModes}
  \cup {[BaseTx EXCEPT !.template_config = c, !.confirmation_depth = n, !.cryptographic_completeness = k, !.nonce = v] :
          c \in {None, Some(Template(None, <<1>>)), Some(Template(Some(A), <<1>>)), Some(Template(Some(<< >>), << >>))},
          n \in {None, Some(0), Some(1), Some(16)}, k \in {None, Some(FALSE), Some(TRUE)}, v \in {1, 2}}
  \cup {[BaseTx EXCEPT !.mode = m, !.retention_window = w] :
          m \in SomeModes \cup {Some([BaseIndexing EXCEPT !.retention_window = Some(Window("Blocks", Some(1)))])},
          w \in {None, Some(Window("Blocks", Some(1))), Some(Window("VerifyOnly", None))}}
  \cup {[BaseTx EXCEPT !.mode = m, !.schema = s] :
          m \in SomeModes,
          s \in {Schema(B), [Schema(Words(8)) EXCEPT !.object = FALSE], [Schema(Words(2)) EXCEPT !.duplicates = {"fields"}],
                 [Schema(Words(3)) EXCEPT !.duplicates = {"title"}], [Schema(Words(4)) EXCEPT !.version = 16],
                 [Schema(Words(5)) EXCEPT !.types = {"date"}], [Schema(Words(6)) EXCEPT !.indexes = TRUE],
                 [Schema(Words(7)) EXCEPT !.required_names = FALSE]}}

MCRequests ==
  StoreDatas \cup Deletes \cup Manifests \cup Grants \cup Rotations \cup Revokes \cup Others \cup Dids \cup Registrations

\* Writes of the client itself: its identities A and B, batches of up to three keys.
Item(key, nonce) == [kind |-> "StoreData", subgrove_id |-> A, key |-> key, owner_did |-> << >>, data |-> A, nonce |-> nonce]

MCBatches == {<< >>, <<Item(A, 1)>>, <<Item(A, 1), Item(B, 2), Item(A \o B, 3)>>, <<Item(A, 1), Item(Then("Owner"), 2)>>}

MCOwnRequests ==
  {[BaseTx EXCEPT !.mode = Some([NoMode EXCEPT !.name = A])], [BaseTx EXCEPT !.owner_did = DidB]}
  \cup {[kind |-> "GrantSubgroveKey", subgrove_id |-> A, sender_did |-> << >>, grant |-> BaseGrant, nonce |-> 1],
        [kind |-> "RotateSubgroveKey", subgrove_id |-> A, sender_did |-> << >>, new_epoch |-> 1, new_grants |-> <<BaseGrant>>, nonce |-> 1],
        [kind |-> "RevokeSubgroveKey", subgrove_id |-> A, revokee_did |-> DidB, sender_did |-> << >>, nonce |-> 1]}
  \cup {d \in Dids : d.did_document.service = None /\ d.did_document.updated = 1}

MCIdentities == {DidA, DidB}
=============================================================================
