CONSTANTS
  Words <- MCWords
  MaxOpts = 2
  MaxArgs = 3
  UINTMAX_BITS = 6
  UINT_BITS = 4
  Null = Null
  Databases <- MCDatabases
SPECIFICATION FairSpec
INVARIANTS
  ClassParamsListed
  ExitStatusReportsErrors
