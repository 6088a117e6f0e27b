CONSTANTS
    a = a
    b = b
    m = m
    NoObject = NoObject
    Objects <- AllObjects
    Slots <- Properties
    Destructible = {a, b}
    NativeRoots = {}
    Targets = {b}
    Keyed <- Ephemerons
SPECIFICATION Spec
INVARIANT KeyIndexExact
PROPERTIES ReachableNotCollected CollectsAll
