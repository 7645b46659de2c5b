SPECIFICATION SigningSpec
CONSTANTS
  Chars <- MCChars
  Base = 2
  MaxDidLen = 11
  MaxIdLen = 2
  HashLen = 2
  EncryptionNonceLen = 1
  EphemeralKeyLen = 2
  MaxEncryptedLen = 2
  MaxGrants = 2
  MaxChanges = 2
  Requests <- MCRequests
  Batches <- MCBatches
  OwnRequests <- MCOwnRequests
  Identities <- MCIdentities
INVARIANTS
  SignatureBindsFields
  NodeTakesSigned
  GrantsCanBeRevoked
  BatchSaysWhatHappened
