SPECIFICATION Spec
CONSTANTS
  Worker = {w1, w2}
  NoWorker = NoWorker
  MaxShards = 4
  InitShards = 3
  Counts = {1, 2}
  Kinds = {"AddShard", "DeleteShard", "Database", "Other", "Reconcile", "Recover"}
  MaxCommands = 3
  MaxFaults = 2
SYMMETRY WorkerSymmetry
INVARIANTS
  StorageUnderShards
  LockDescribesTopology
  SnapshotCurrent
  TopologyInv
PROPERTIES
  LockReleasedWhenSettled
  TopologyChangeSpec
CHECK_DEADLOCK FALSE
