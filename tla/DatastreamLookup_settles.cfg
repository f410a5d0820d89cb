SPECIFICATION FairSpec
CONSTANTS
  t1 = t1
  t2 = t2
  Threads <- OneThread
  Purposes = {"push"}
  Readings <- BothSources
  Streams <- AllStreams
  TTL = 1
  Roles = {"primary", "further"}
  MaxDeletions = 1
  MaxFaults = 1
PROPERTIES Resolves
