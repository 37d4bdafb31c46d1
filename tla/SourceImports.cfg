SPECIFICATION MCSpec
CONSTANTS
  r1 = r1
  r2 = r2
  here = here
  north = north
  south = south
  m1 = m1
  m2 = m2
  planA = planA
  planBad = planBad
  stockA = stockA
  stockB = stockB
  orders = orders
  NoLocation = NoLocation
  NoVersion = NoVersion
  Req <- MCReq
  Scope <- MCScope
  Here = here
  Version <- MCVersion
  Home <- MCHome
  Location <- TwoLocations
  Upload <- AllUploads
  KindOf <- MCKindOf
  Malformed <- MCMalformed
  Fits <- MCFits
  OpenIn <- MCOpenIn
  Covers <- MCCovers
  Window = 25
  MaxStamp = 5
SYMMETRY Symmetry
INVARIANTS
  TypeOK
  VersionsBacked
  StockHasPlan
PROPERTIES
  NewContentSortsLast
  RetryStoresOnce
  ImplementsLedger
