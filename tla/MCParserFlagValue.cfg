SPECIFICATION Spec
CONSTANTS
  Options <- PlainOptions
  Positional <- PlainPositional
  Values <- PlainValues
  Names <- PlainNames
  Texts <- MCTexts
  Commands = {}
  Groups = {}
  Exclusive = {}
  RequiredGroups = {}
  Def <- PlainDef
  ValueKind <- PlainKind
  Convertible <- MCConvertible
  Zero = "0"
  NoOption = NoOption
  NoCommand = NoCommand
  NoGroup = NoGroup
  NoText = NoText
  Args <- PlainArgs
  SubResults <- NoSubResults
  MaxIncludeDepth = 0
  MaxArguments = 3
INVARIANTS
  FlagValueIsStored
