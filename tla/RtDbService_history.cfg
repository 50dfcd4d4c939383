\* Two runs of rtdb_service, a collector and the history service.
SPECIFICATION FairSpec
CONSTANTS
    p1 = p1
    p2 = p2
    Tables <- FourTables
    Points <- OneOfEach
    Category <- Mixed
    Clients = {history_service, modbus_collector}
    History = history_service
    None = None
    Zero = Zero
    Stray = Stray
    MaxRuns = 2
INVARIANT HistoryRowsAreOwn
PROPERTY AttachIsWhole
PROPERTY WaitersAttach
