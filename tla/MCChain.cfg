SPECIFICATION FairSpec
CONSTANTS
  Program = "program"
  Chain <- MCChain
  Refused = {"bad"}
  MaxIncludeDepth = 1
  MaxArguments = 6
INVARIANTS
  FramesKeepContract
  ErrorsReachTheClient
  SuccessMeansAllComplete
  ErrorsShownOnce
  ExceptionsArrive
PROPERTIES
  ChainImplementsContract
  ChainTerminates
