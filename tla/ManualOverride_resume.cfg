SPECIFICATION FairSpec
CONSTANTS
  Strategies = {arf, soc}
  arf = arf
  soc = soc
  Engine = Engine
  Operator = Operator
  None = None
  Duration = 3
  Day = 4
  DbZone = 2
  EngineZone = 0
  Start = 4
  ReloadInterval = 2
  MaxTime = 11
  MaxFaults = 2
INVARIANT NeverOutwaits
INVARIANT RowsRespected
PROPERTY EngineResumes
