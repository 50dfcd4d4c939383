SPECIFICATION FairSpec
CONSTANTS
  w1 = w1
  w2 = w2
  dev1 = dev1
  dev2 = dev2
  NumSlots = 4
  Devices = {dev1, dev2}
  DeviceOf <- TwoDevices
  Unmapped = {4}
  NotWriteCode = {2}
  Values = {1, 2}
  Zero = 0
  Engine = engine
  WebThreads = {}
  MaxSubmits = 2
  MaxCollectorCrashes = 1
  MaxSubmitterCrashes = 0
INVARIANT SuccessIsForDesired
PROPERTY MailboxSpec
PROPERTY EveryCommandEnds
