SPECIFICATION Spec
CONSTANTS
  w1 = w1
  w2 = w2
  dev1 = dev1
  dev2 = dev2
  NumSlots = 1
  Devices = {dev1}
  DeviceOf <- OneDevice
  Unmapped = {}
  NotWriteCode = {}
  Values = {1, 2}
  Zero = 0
  Engine = engine
  WebThreads = {w1, w2}
  MaxSubmits = 3
  MaxCollectorCrashes = 1
  MaxSubmitterCrashes = 1
INVARIANT ExecutedWasSubmitted
INVARIANT NoReplay
PROPERTY StatusLifeCycle
SYMMETRY WebSymmetry
