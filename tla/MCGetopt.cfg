SPECIFICATION GetoptSpec
CONSTANTS
  Callers <- MCCallers
  CommandLines <- MCCommandLines
  MaxArgc = 7
  MaxAny = 3
  MaxFew = 4
  MaxOther = 3
INVARIANTS
  GetoptTypeOK
  OptionsInOrder
  OptionsComeFirst
  BeyondOnlyAfterW
PROPERTIES
  ScanEnds
  ScanMovesOn
CHECK_DEADLOCK FALSE
