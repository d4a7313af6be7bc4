CONSTANTS
    Listers = {openrouter, ollama}
    Full <- MCFull
    Shrunk <- MCShrunk
    Cold <- MCCold
    Broken <- MCBroken
    None = None
    MaxEdits = 1
    MaxRestarts = 1
    MaxScans = 3
    MaxReloads = 1
SPECIFICATION FairConfigSpec
INVARIANTS SnapshotCurrent
PROPERTIES GoodSnapshotKept ScansEnd
CHECK_DEADLOCK FALSE
