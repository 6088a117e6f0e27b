CONSTANTS
    Threads = {t1, t2}
    Blocks = {b1, b2, b3}
    Units <- Lengths
    Budget = 1
    NoBlock = NoBlock
SPECIFICATION Spec
SYMMETRY Symmetry
INVARIANTS ZeroedIsZero WarmBytesCover ResidentBudget
