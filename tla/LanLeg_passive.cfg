CONSTANTS
    End = {a, b}
    Polite = b
    MaxRebuilds = 2
    Path = TRUE
    Flaky = FALSE
    Lossy = FALSE
    MaxMade = 4
    MaxRetries = 0
    a = a
    b = b
SPECIFICATION FairSpec
PROPERTY LegsSettle
CHECK_DEADLOCK FALSE
