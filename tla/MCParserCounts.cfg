SPECIFICATION Spec
CONSTANTS
  Options <- CountOptions
  Positional <- CountPositional
  Values <- CountValues
  Names <- CountNames
  Texts <- MCTexts
  Commands = {}
  Groups = {}
  Exclusive = {}
  RequiredGroups = {}
  Def <- CountDef
  ValueKind <- CountKind
  Convertible <- MCConvertible
  Zero = "0"
  NoOption = NoOption
  NoCommand = NoCommand
  NoGroup = NoGroup
  NoText = NoText
  Args <- CountArgs
  SubResults <- NoSubResults
  MaxIncludeDepth = 1
  MaxArguments = 4
INVARIANTS
  LastOptionTakesWords
  PositionalOrder
  CountsBounded
  ValuesAssignedByParameters
  AssignedTargetsHaveContent
