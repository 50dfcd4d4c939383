SPECIFICATION FairSpec
CONSTANTS
  modbus = modbus
  iec104 = iec104
  engine = engine
  alarm = alarm
  Writers = {modbus}
  Readers = {engine, alarm}
  Fields = {value, valid}
  Builds = {"release", "debug"}
  MaxWrites = 2
  MaxCrashes = 1
INVARIANT EvenReadConsistent
INVARIANT NeverStale
INVARIANT ParityRepaired
PROPERTY OnlyMidWriteReadsHang
