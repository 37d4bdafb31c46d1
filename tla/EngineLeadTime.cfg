SPECIFICATION Spec
CONSTANTS
  End = 5
  Last = 12
  Instance <- LongLeadCases
INVARIANTS
  ShortForecastIsAnswered
