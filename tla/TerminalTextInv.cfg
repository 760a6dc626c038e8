CONSTANTS
    Alphabet = {"let", "par", "osc", "esc", "bel", "sp", "nl", "cr"}
    MaxText = 5
SPECIFICATION Spec
CHECK_DEADLOCK FALSE
INVARIANTS
    TextInv
    FinalInv
    ComposeInv
