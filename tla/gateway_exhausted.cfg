SPECIFICATION FairSpec
CONSTANTS
  Handlers = {h1, h2}
  Reaper = reaper
  Routes <- OnlyChats
  PoolSize = 2
  Outages = FALSE
CHECK_DEADLOCK FALSE
PROPERTY
  PoolRecovers
