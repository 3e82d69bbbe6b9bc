SPECIFICATION Spec
CONSTANTS
  ShortNames = {"-a", "-h"}
  LongNames = {"--all", "--help"}
  PlainNames = {"arg"}
  BareNames = {"--"}
  WideNames = {"-ab"}
  SpacedNames = {"a b"}
  NameLists <- MCNameLists
  HelpShort = "-h"
  HelpLong = "--help"
  GroupNames = {"g", "G", ""}
  lower <- MCLower
  CommandNames = {"cmd", "-a", ""}
  Counts <- MCCounts
  MaxOps = 4
  NoName = ""
  NoGroup = NoGroup
CHECK_DEADLOCK FALSE
INVARIANTS
  NamesUnique
  ParsableDefinition
PROPERTIES
  GroupsSettled
