SPECIFICATION LimitsSpec
CONSTANTS
  interval = 3
  enclosing_deadline = 14
  enclosing_gas_limit = 11
  MaxOverrun = 4
CHECK_DEADLOCK FALSE
INVARIANTS
  TypeOK
  AllGasIsOffered
PROPERTIES
  ShareNeverShrinks
