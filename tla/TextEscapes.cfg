CONSTANTS
    Alphabet = {"let", "dig", "par", "osc", "esc", "bel", "nl", "cr"}
    MaxText = 5
SPECIFICATION Spec
CHECK_DEADLOCK FALSE
INVARIANTS
    EscapesAreNotShown
