SPECIFICATION FairSpec
CONSTANTS
  Worker = {w1, w2}
  NoWorker = NoWorker
  MaxShards = 3
  InitShards = 2
  Counts = {1}
  Kinds = {"AddShard", "DeleteShard", "Other"}
  MaxCommands = 3
  MaxFaults = 2
PROPERTIES
  CommandEnds
  ResumeCompletes
CHECK_DEADLOCK FALSE
