SPECIFICATION Spec
CONSTANTS
  Program = "program"
  Chain <- MCChain
  Refused = {"bad"}
  MaxIncludeDepth = 1
  MaxArguments = 4
INVARIANTS
  ChainIsStored
