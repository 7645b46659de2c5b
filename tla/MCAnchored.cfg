SPECIFICATION Spec
CONSTANTS
  Nibbles = {0, 1}
  Chain <- MCChain
  AddressKey <- MCAddressKey
  SlotKey <- MCSlotKey
  SlotLimit = 2
  EthCalls <- MCEthCalls
  Claims <- MCClaims
  MaxReads = 2
  AddressLen = 1
  TopicLen = 1
  MatchedLogs <- MCMatchedLogs
  ServedLogs <- MCServedLogs
  Configured <- MCConfigured
INVARIANTS
  ReadIsState
  HonestReadAccepted
  CompleteIsChains
CHECK_DEADLOCK FALSE
