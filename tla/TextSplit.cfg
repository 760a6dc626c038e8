CONSTANTS
    Alphabet = {"let", "esc", "ctl", "sp", "nl", "cr"}
    MaxText = 5
SPECIFICATION Spec
CHECK_DEADLOCK FALSE
INVARIANTS
    EndedLinesAreShown
