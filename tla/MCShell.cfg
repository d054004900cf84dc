CONSTANTS
  WebServers <- MCServers
  Programs <- MCPrograms
  Interrupted = {"main"}
  MaxSignals = 1
SPECIFICATION FairSpec
INVARIANTS
  NoOrphans
  NothingLeft
  UsersDieFirst
  NoBug
PROPERTIES
  Ends
CHECK_DEADLOCK FALSE
