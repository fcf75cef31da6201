SPECIFICATION Spec
CONSTANTS
  Account = {owner, reader}
  Owner = owner
  Sharded = FALSE
  Kinds = {"AddDatabase", "Reconcile"}
  MaxCommands = 2
  MaxFaults = 1
PROPERTIES
  ReconcileConverges
CHECK_DEADLOCK FALSE
