SPECIFICATION Spec
CONSTANTS
    Adders = {a1, a2}
    Deleters = {d1}
    MaxNodes = 3
INVARIANTS OnlyLastDeleted
