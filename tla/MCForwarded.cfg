SPECIFICATION Spec
CONSTANTS
  Letters = {"c", "d"}
  MaxLength = 6
  MaxValues = 3
  MaxValueLength = 3
CHECK_DEADLOCK FALSE
INVARIANTS
  ListsArrive
  LettersArrive
