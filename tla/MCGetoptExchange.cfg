SPECIFICATION ExchangeSpec
CONSTANTS
  MaxArgc = 12
  Argvs <- MCArgvs
INVARIANTS
  ExchangeTypeOK
  SwapsApart
  OutsideInPlace
  Exchanged
PROPERTY
  ExchangeEnds
CHECK_DEADLOCK FALSE
