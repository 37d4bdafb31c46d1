SPECIFICATION Spec
CONSTANTS
  viewPage = viewPage
  statusPage = statusPage
  stock = stock
  run = run
  ann = ann
  bob = bob
  NoUser = NoUser
  Key <- MCKey
  Primes <- MCPrimes
  Write <- MCWrite
  Invalidates <- MCInvalidates
  Seeds <- MCSeeds
  Hook <- MCHook
  HookKey <- MCHookKey
  User <- TwoUsers
  MaxServer = 1
INVARIANTS
  OpenPagesListen
