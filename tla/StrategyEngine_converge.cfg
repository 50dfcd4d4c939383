SPECIFICATION FairSpec
CONSTANTS
  b1 = b1
  b2 = b2
  Pv = Pv
  None = None
  Bad = Bad
  Groups <- Two
  ChargeLimit <- SameLimits
  DischargeLimit <- SameLimits
  Left <- AtRest
  Blocks <- BatteryBlocks
  MaxCharge = 6
  MaxDischarge = 6
  ExportLimit = 0
  Deadband = 0
  SocLow = 0
  SocHigh = 2
  DefaultLimit = 6
  DefaultDeadband = 1
  DefaultLow = 0
  DefaultHigh = 2
  HasSoc = TRUE
  EnablePv = FALSE
  LimitMin = 8
  LimitMax = 8
  RecoveryStep = 2
  RecoveryDeadband = 1
  ReloadInterval = 1
  Again = FALSE
  Loads = {0}
  PvPowers = {2}
  Socs = {1, 2}
  MaxChanges = 1
  MaxFaults = 0
PROPERTY SettlesDown
PROPERTY OthersTakeOver
PROPERTY FullStationStopsCharging
