SPECIFICATION FairPagesSpec
CONSTANTS
  Rows <- MCRows
  TimeOf <- MCTimeOf
  LocationOf <- MCLocationOf
  Routes <- MCRoutes
  Caps = {0, 2}
  Limits = {0, 1, 3}
  Filters <- MCFilters
  MaxRetries = 1
  MaxRemovals = 2
INVARIANTS PagesTypeOK EveryRowOnce
PROPERTIES RoleLimitHolds EveryPageAnswered
