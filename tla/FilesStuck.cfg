CONSTANTS
    a1 = a1
    Agents = {a1}
    Blocks = {"raw"}
    MaxFile = 1
    MaxCalls = 1
    MaxChanges = 1
SPECIFICATION FairSpec
CHECK_DEADLOCK FALSE
PROPERTIES
    ConnectionIsClosed
