\* A poll thread alone, and a poll and a control thread, on one client.
SPECIFICATION FairSpec
CONSTANTS
    Poll = poll
    Control = control
    None = none
    Late = late
    Sockets = {s1, s2, s3}
    MaxAttempts = 2
    MaxPending = 3
INVARIANT AloneGetsItsOwnAnswer
INVARIANT WrongAnswerIsALateOne
INVARIANT AloneLeaksNothing
PROPERTY AloneRecovers
