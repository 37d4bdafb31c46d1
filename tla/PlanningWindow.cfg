SPECIFICATION ReadySpec
CONSTANTS
  q1 = q1
  q2 = q2
  d1 = d1
  here = here
  north = north
  south = south
  m1 = m1
  m2 = m2
  planN = planN
  planN2 = planN2
  planS = planS
  stockA = stockA
  stockB = stockB
  ordersA = ordersA
  ordersB = ordersB
  NoLocation = NoLocation
  NoVersion = NoVersion
  Here = here
  Scope <- MCScope
  Version <- OneVersion
  Home <- MCHome
  Location <- MCLocation
  OpenIn <- MCOpenIn
  Upload <- NewPlan
  KindOf <- MCKindOf
  Covers <- MCCovers
  Text <- OwnText
  Plannable <- MCPlannable
  AsOf <- OneAsOf
  Pinnable <- Nothing
  ImportStatus <- OnlyAccepted
  Runner <- OneRunner
  Reader <- OneReader
  Window = 1
  MaxRows = 5
  MaxRuns = 1
INVARIANTS
  CurrentIsCurrent
