SPECIFICATION FairSpec
CONSTANTS
  b1 = b1
  b2 = b2
  Pv = Pv
  None = None
  Bad = Bad
  Groups <- One
  ChargeLimit <- SameLimits
  DischargeLimit <- SameLimits
  Left <- AtRest
  Blocks <- SplitBlocks
  MaxCharge = 1
  MaxDischarge = 0
  ExportLimit = 0
  Deadband = 0
  SocLow = 0
  SocHigh = 2
  DefaultLimit = 2
  DefaultDeadband = 0
  DefaultLow = 1
  DefaultHigh = 2
  HasSoc = TRUE
  EnablePv = TRUE
  LimitMin = 2
  LimitMax = 3
  RecoveryStep = 1
  RecoveryDeadband = 0
  ReloadInterval = 2
  Again = FALSE
  Loads = {2, 3}
  PvPowers = {3}
  Socs = {1, 2}
  MaxChanges = 1
  MaxFaults = 1
PROPERTY ExportEnds
PROPERTY CurtailmentIsLifted
INVARIANT TargetInRange
