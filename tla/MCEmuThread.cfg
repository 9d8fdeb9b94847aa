CONSTANT Polls = 3
SPECIFICATION FairSpec
INVARIANTS TypeOK ExecNotReported FreshSuspendStops NoRequestLeft
PROPERTIES SuspendEnds CloseEnds RunsAgain
CHECK_DEADLOCK FALSE
