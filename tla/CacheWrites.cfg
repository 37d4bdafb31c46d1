SPECIFICATION FairSpec
CONSTANTS
  viewPage = viewPage
  statusPage = statusPage
  stock = stock
  run = run
  ann = ann
  bob = bob
  NoUser = NoUser
  Key <- MCKey
  Primes <- MCPrimes
  Write <- MCWrite
  Invalidates <- MCInvalidates
  Seeds <- MCSeeds
  Hook <- MCHook
  HookKey <- MCHookKey
  User <- OneUser
  MaxServer = 2
INVARIANTS
  TypeOK
  StaleIsFlagged
PROPERTIES
  StaleIsRefreshed
