SPECIFICATION MixSpec
CONSTANTS
  q1 = q1
  q2 = q2
  d1 = d1
  here = here
  north = north
  south = south
  m1 = m1
  m2 = m2
  planN = planN
  planN2 = planN2
  planS = planS
  stockA = stockA
  stockB = stockB
  ordersA = ordersA
  ordersB = ordersB
  NoLocation = NoLocation
  NoVersion = NoVersion
  Here = here
  Scope <- MCScope
  Version <- MCVersion
  Home <- MCHome
  Location <- TwoLocations
  OpenIn <- NorthOnly
  Upload <- NewInputs
  KindOf <- MCKindOf
  Covers <- MCCovers
  Text <- OwnText
  Plannable <- MCPlannable
  AsOf <- OneAsOf
  Pinnable <- PinStock
  ImportStatus <- AnyStatus
  Runner <- TwoRunners
  Reader <- OneReader
  Window = 25
  MaxRows = 5
  MaxRuns = 2
SYMMETRY Symmetry
INVARIANTS
  TypeOK
  CurrentIsCurrent
  RecalculationCatchesUp
  OneRunPerKey
  InputsAdmissible
