SPECIFICATION MainSpec
CONSTANTS
  Callers <- MCCallers
  CommandLines <- MCCommandLines
  MaxArgc = 6
  Toupper <- MCToupper
  MaxArgs = 3
INVARIANTS
  MainTypeOK
  ShownAsAsked
PROPERTY OptionLoopEnds
CHECK_DEADLOCK FALSE
