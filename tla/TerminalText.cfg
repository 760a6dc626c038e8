CONSTANTS
    Alphabet = {"let", "dig", "par", "osc", "esc", "bel", "sp", "nl", "cr"}
    MaxText = 5
SPECIFICATION Spec
CHECK_DEADLOCK FALSE
INVARIANTS
    FinalContentIsShown
    CompactedIsClean
    WholeLinesCompose
    StripIsLeftmostFirst
