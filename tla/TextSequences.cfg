CONSTANTS
    Alphabet = {"let", "osc", "st", "esc", "bel", "nl", "cr"}
    MaxText = 6
SPECIFICATION Spec
CHECK_DEADLOCK FALSE
INVARIANTS
    FinalContentIsShown
    CompactedIsClean
    WholeLinesCompose
    StripIsLeftmostFirst
