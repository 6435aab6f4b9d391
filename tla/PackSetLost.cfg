CONSTANTS
  None = None
  restore = restore
  agent = agent
  good = good
  bad = bad
  new = new
  t1 = t1
  t2 = t2
  Proc <- TwoProcs
  Obj = {good, bad, new}
  Thread <- TwoThreads
  InitialPacks <- OnePack
  Wanted <- BothRead
  Puttable <- AgentPuts
  Deletable <- BothDelete
  StorageTypes = {"S3", "S3Glacier"}
  CachePackFilesToDisk = {"S3"}
  MaxRetries = 2
  MaxCalls = 2
  MaxTrouble = 1
SPECIFICATION Spec
CHECK_DEADLOCK FALSE
INVARIANT SavedBeforeDeleted
