SPECIFICATION Spec
CONSTANTS
  Name = {a, p, f}
  Platform = p
  Foreign = {f}
  Deployed = {a}
  DeployedType = "ShardedCluster"
  Kinds = {"Add", "Delete", "Database", "Reconcile", "Recover"}
  MaxCommands = 3
  MaxFaults = 2
PROPERTIES
  DeleteLeavesNothing
CHECK_DEADLOCK FALSE
