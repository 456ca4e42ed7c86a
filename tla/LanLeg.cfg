CONSTANTS
    End = {a, b}
    Polite = b
    MaxRebuilds = 2
    Path = TRUE
    Flaky = TRUE
    Lossy = TRUE
    MaxMade = 3
    MaxRetries = 1
    a = a
    b = b
SPECIFICATION Spec
INVARIANTS TypeOK LegAdmitted TerminalIsSpent StormBounded
PROPERTIES TerminalSticks GoodLegKept
CHECK_DEADLOCK FALSE
