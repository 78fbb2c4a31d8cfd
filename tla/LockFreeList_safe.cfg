\* The threads of main(): two that add, one that deletes.
SPECIFICATION Spec
CONSTANTS
    Adders = {a1, a2}
    Deleters = {d1}
    MaxNodes = 4
INVARIANTS OnePredecessor DeletedStaysOut
PROPERTIES LinksAreKept
