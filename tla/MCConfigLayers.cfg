CONSTANTS
    Procs = {p1, p2}
    Paths <- MCPaths
    Patterns = {"gpt*"}
    Removed = {"strategic", "complex"}
    Categories = {"ask", "plan"}
    Registry = {"bridge"}
    Shipped <- MCShipped
    User <- MCUser
    Project <- MCProject
    Reports <- MCReports
    None = None
    Corrupt = Corrupt
    MaxChanges = 3
SYMMETRY Symmetry
SPECIFICATION LayersSpec
INVARIANT LivesByTheFiles
PROPERTY ProvidersKept
CHECK_DEADLOCK FALSE
