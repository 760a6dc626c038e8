CONSTANTS
    Alphabet = {"let", "csi", "osc", "st", "dig", "par", "mrk", "esc", "bel", "ctl", "sp", "nl", "cr"}
    MaxText = 4
SPECIFICATION Spec
CHECK_DEADLOCK FALSE
INVARIANTS
    FinalContentIsShown
    CompactedIsClean
    WholeLinesCompose
    StripIsLeftmostFirst
