CONSTANTS
    c1 = c1
    c2 = c2
    Client = {c1, c2}
    Limit = 2
    Window = 3
    MaxTime = 5
    MaxAdmitted = 5
    MaxBack = 2
    MaxForward = 2
SPECIFICATION Spec
SYMMETRY Symmetry
INVARIANTS LimitPerWindow RefusalJustified LimitAfterForwardSteps
CHECK_DEADLOCK FALSE
