SPECIFICATION FairSpec
CONSTANTS
  Handlers = {h1, h2}
  Reaper = reaper
  Routes <- AllRoutes
  PoolSize = 4
  Outages = TRUE
CHECK_DEADLOCK FALSE
INVARIANTS
  TypeOK
  SafeLoad
PROPERTIES
  RequestAnswered
  ReaperSurvives
