\* A packet, a deletion, the same question: the cache answers.
SPECIFICATION ContextSpec
CONSTANTS
    narrow = narrow
    wide = wide
    Memories = {narrow}
    ScopeOf <- MCScopeOf
    Workspaces = {a}
    Whole = whole
    Simulated = {}
    Compilers = {c1}
    NoPacket = noPacket
    MaxCompiles = 2
PROPERTY ForgottenIsNotServed
CHECK_DEADLOCK FALSE
