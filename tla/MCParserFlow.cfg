SPECIFICATION FairSpec
CONSTANTS
  Options <- FlowOptions
  Positional <- FlowPositional
  Values <- FlowValues
  Names <- FlowNames
  Texts <- MCTexts
  Commands = {"cmd"}
  Groups = {}
  Exclusive = {}
  RequiredGroups = {}
  Def <- FlowDef
  ValueKind <- FlowKind
  Convertible <- MCConvertible
  Zero = "0"
  NoOption = NoOption
  NoCommand = NoCommand
  NoGroup = NoGroup
  NoText = NoText
  Args <- FlowArgs
  SubResults <- SomeSubResults
  MaxIncludeDepth = 1
  MaxArguments = 5
INVARIANTS
  TypeOK
  ResultOK
  MissingArgumentReported
PROPERTIES
  OptionsFrozenAfterDashDash
  ImplementsContract
  ParseTerminates
