CONSTANTS
    Procs = {p1, p2}
    Refs = {r1}
    Cap = 2
    MaxClock = 3
    MaxDeaths = 1
SPECIFICATION FairSpec
INVARIANTS  OwnKept BreakerVolatile
CHECK_DEADLOCK FALSE
PROPERTIES RecordedPersists
