CONSTANTS
  KSYM_NAME_LEN = 3
  MaxNameLen = 5
INIT Init
NEXT Next
INVARIANTS
  ValidMatchesSpec
