CONSTANTS
  Capacity = 4
  Values <- MCValues
SPECIFICATION Spec
INVARIANTS ShownIsRemembered BackMoves
PROPERTIES KeepsHistory
