CONSTANTS
    a1 = a1
    a2 = a2
    Agents = {a1, a2}
    Blocks = {"raw", "bin"}
    MaxFile = 2
    MaxCalls = 2
    MaxChanges = 1
SPECIFICATION FairSpec
CHECK_DEADLOCK FALSE
INVARIANTS
    DownloadIsVerbatim
