SPECIFICATION MCSpec
CONSTANTS
  End = 5
  Last = 12
  Offset = 1
  Instance <- AllCases
  Source <- AllSources
INVARIANTS
  TypeOK
  CoverageNested
  LateReceiptsDoNotCount
  ProposalsAreSafe
  NothingExpires
  PlanWorks
  NoOrderWithoutNeed
  RunOK
  ValidatedIsAnswered
  StrictRestsOnCounts
  GapsAreReported
  NoOrderIsLost
  OrdersCountedOnce
  ImportersAgree
  SilenceIsSafe
PROPERTIES
  ImplementsProjection
