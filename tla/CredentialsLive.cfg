SPECIFICATION FairSpec
CONSTANTS
  Account = {owner}
  Owner = owner
  Sharded = FALSE
  Kinds = {"AddDatabase", "DeleteDatabase", "RotatePasswords", "DisableOwner", "EnableOwner", "Reconcile", "Other"}
  MaxCommands = 3
  MaxFaults = 2
PROPERTIES
  RotationSucceeds
  DeletionSucceeds
CHECK_DEADLOCK FALSE
