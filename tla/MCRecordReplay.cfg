SPECIFICATION FairSpec
CONSTANTS
  Scripts <- MCScripts
  Directories = {"plain", "save"}
  Servers <- MCServers
  Replayed <- MCReplayed
INVARIANTS
  LeavesNothing
  RefusesOnlyDamaged
  ReplaysWhatWasSeen
PROPERTIES
  NeverOverstated
  Answers
CHECK_DEADLOCK FALSE
