SPECIFICATION Spec
CONSTANTS
  IntTypes   <- MCIntTypes
  IntType    <- MCIntType
  LLongMax   = 15
  ULLongMax  = 31
  Bodies     <- MCBodies
  MaxMinuses = 2
INVARIANTS
  NumberIsTheOneWritten
  NumberInRangeIsAccepted
  ConversionsAreIndependent
CHECK_DEADLOCK FALSE
