CONSTANTS
  NoProc = NoProc
  Tasks = {"sync"}
  Handlers = {"viewer"}
  Detached = {"maintenance"}
  Syncs = {"sync"}
  Main = "main"
  Procs = {"sync", "viewer", "maintenance", "main"}
  Locks <- MCLocks
  Studied = {"session", "birdConf", "pool", "bird"}
  Longest = 10
  Endless <- MCEndless
  Rank <- MCRank
  MaxRank = 3
  Plans <- MCPlans
  Shutdown <- MCShutdown
  Count = 1
SPECIFICATION FairLifecycleSpec
INVARIANTS LifecycleTypeOK NoDeadlock LocksAreOrdered
PROPERTIES RoundsEnd ShutdownEnds
\* The agent exits.
CHECK_DEADLOCK FALSE
