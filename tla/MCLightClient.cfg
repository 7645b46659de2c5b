SPECIFICATION Spec
CONSTANTS
  c1 = c1
  rootA = rootA
  rootB = rootB
  rootX = rootX
  Callers = {c1}
  Endpoints = 3
  Wrong = {1}
  MinValidators = 2
  MaxDrift = 1
  AppHash <- MCAppHash
  OtherHash = rootX
  Results <- MCResults
  MaxStarts = 2
INVARIANTS
  HeldIsVouched
  HeldAppIsChains
  RangeIsHeld
  ProvedIsState
  StoppedHoldsNothing
CHECK_DEADLOCK FALSE
