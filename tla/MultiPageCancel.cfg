SPECIFICATION Spec
CONSTANTS
    Shapes <- OneBlankBack
    DocumentCap = 3
    Clicks = {c1}
    TerminalPasses = 1
CHECK_DEADLOCK FALSE
INVARIANTS
    CancelKeepsNothing
