SPECIFICATION FairCallSpec
CONSTANTS
  Options <- FullOptions
  Positional <- FullPositional
  Defined <- FullDefined
  Values <- FullValues
  Names <- FullNames
  Texts <- MCTexts
  Commands = {}
  Groups = {"X", "G"}
  Exclusive = {"X"}
  RequiredGroups = {"G"}
  Def <- FullDef
  ValueKind <- FullKind
  Convertible <- MCConvertible
  Zero = "0"
  NoOption = NoOption
  NoCommand = NoCommand
  NoGroup = NoGroup
  NoText = NoText
  Args <- FullArgs
  SubResults <- NoSubResults
  InitialTargets <- MCInitialTargets
  TopLevel = TRUE
  MaxIncludeDepth = 1
  MaxArguments = 4
  MaxCalls = 2
INVARIANTS
  SuccessIsComplete
  ExclusiveInInput
  NoStaleTargets
  SuccessTargetsValid
  FailureIsVisible
PROPERTIES
  DefaultsYieldToInput
  CallReturns
