SPECIFICATION Spec
CONSTANTS
  Account = {owner, reader}
  Owner = owner
  Sharded = TRUE
  Kinds = {"AddDatabase", "DeleteDatabase", "RotatePasswords", "DisableOwner", "EnableOwner", "Reconcile", "Other"}
  MaxCommands = 3
  MaxFaults = 2
INVARIANTS
  MetadataLeads
  CredentialInv
PROPERTIES
  SinksConverge
  OwnerAsReported
  OwnerStaysOut
  DeletedIsGone
  DatabaseFirst
  ServiceSpec
CHECK_DEADLOCK FALSE
