SPECIFICATION FairSpec
CONSTANTS
  v1 = v1
  v2 = v2
  v3 = v3
  w1 = w1
  north = north
  south = south
  t1 = t1
  t2 = t2
  t3 = t3
  NoVersion = NoVersion
  NoTxn = NoTxn
  Version <- MCVersion
  Scope <- MCScope
  Home <- MCHome
  Txn <- MCTxn
INVARIANTS
  IInv
  AtMostOneActive
PROPERTIES
  NeverWithoutMaster
  ArchivedForGood
  ImplementsActiveMaster
  ActivationsEnd
