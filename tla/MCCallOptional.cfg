SPECIFICATION CallSpec
CONSTANTS
  Options <- DefaultOptions
  Positional <- DefaultPositional
  Defined <- DefaultDefined
  Values <- DefaultValues
  Names <- DefaultNames
  Texts <- MCTexts
  Commands = {}
  Groups = {"G"}
  Exclusive = {}
  RequiredGroups = {"G"}
  Def <- DefaultDef
  ValueKind <- DefaultKind
  Convertible <- MCConvertible
  Zero = "0"
  NoOption = NoOption
  NoCommand = NoCommand
  NoGroup = NoGroup
  NoText = NoText
  Args <- DefaultArgs
  SubResults <- NoSubResults
  InitialTargets <- PlainTargets
  TopLevel = TRUE
  MaxIncludeDepth = 1
  MaxArguments = 4
  MaxCalls = 1
INVARIANTS
  OptionalPositionalMayBeAbsent
