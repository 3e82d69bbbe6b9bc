SPECIFICATION HelpSpec
CONSTANTS
  Parameters <- MCParameters
  Groups     <- MCGroups
  Configs    <- MCConfigs
  size       <- MCSize
  cased      <- MCCased
  ArgumentIndent = 2
  MaxDescriptionIndent = 12
  MaxParameters = 3
  Width      = 24
  NoName     = ""
  NoGroup    = ""
INVARIANTS
  LinesReadable
  ArgumentsDenoteCounts
  HelpShowsDefinition
  DescriptionsAligned
CHECK_DEADLOCK FALSE
