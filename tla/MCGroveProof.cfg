SPECIFICATION GroveSpec
CONSTANTS
  Grove <- MCGrove
  Shapes <- MCShapes
  Requests <- MCRequests
INVARIANTS
  ProvenIsStored
  CheckedToPath
  HonestAccepted
CHECK_DEADLOCK FALSE
