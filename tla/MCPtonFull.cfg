SPECIFICATION Spec
CONSTANTS
  Bits = 3
  MaxWords = 1
  MaxIov = 2
  MaxBytes = 1
INVARIANTS FullIgnored
CHECK_DEADLOCK FALSE
