SPECIFICATION Spec
CONSTANTS
  t1 = t1
  t2 = t2
  Threads <- TwoThreads
  Purposes = {"push", "bridge"}
  Readings <- OfDevice
  Streams <- DeviceStreams
  TTL = 1
  Roles = {"primary"}
  MaxDeletions = 0
  MaxFaults = 1
SYMMETRY Symmetry
INVARIANTS AstrayNeedsCause ForwardedAsPushed UnresolvedNeedsCause
