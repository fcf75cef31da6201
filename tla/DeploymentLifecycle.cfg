SPECIFICATION FairSpec
CONSTANTS
  Name = {a, p, f}
  Platform = p
  Foreign = {f}
  Deployed = {a}
  DeployedType = "ShardedCluster"
  Kinds = {"Add", "Delete", "Database", "Reconcile", "Recover"}
  MaxCommands = 3
  MaxFaults = 2
INVARIANTS
  LifecycleInv
  RecordedIsLive
  StatusIsHonest
  ApplyGoesOn
PROPERTIES
  RecordKept
  InUseKept
  AddedIsFresh
  DeletionIsComplete
  RecoveredIsClean
  ServiceSpec
  AcceptedCompletes
CHECK_DEADLOCK FALSE
