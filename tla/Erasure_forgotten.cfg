\* Forget it, and then erase it properly, by its id.
SPECIFICATION ErasureSpec
CONSTANTS
    Items = {i1}
    Erasers = {p1}
    NoItem = noItem
    MaxErases = 1
    MaxFaults = 0
PROPERTY ForgottenIsFound
CHECK_DEADLOCK FALSE
