\* A needle that names nothing, while something else is buried.
SPECIFICATION ErasureSpec
CONSTANTS
    Items = {i1, i2}
    Erasers = {p1}
    NoItem = noItem
    MaxErases = 1
    MaxFaults = 0
INVARIANT OnlyNamedRedacted
CHECK_DEADLOCK FALSE
