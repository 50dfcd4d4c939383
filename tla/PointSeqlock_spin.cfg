SPECIFICATION FairSpec
CONSTANTS
  modbus = modbus
  iec104 = iec104
  engine = engine
  alarm = alarm
  Writers = {modbus}
  Readers = {engine, alarm}
  Fields = {value, valid}
  Builds = {"release"}
  MaxWrites = 2
  MaxCrashes = 0
PROPERTY EveryReadReturns
