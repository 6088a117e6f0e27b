CONSTANTS
    AllocSizes <- AllSizes
    ReallocSizes <- EdgeSizes
    Aligns = {8, 16, 32}
SPECIFICATION Spec
INVARIANTS BlockHoldsRequest SmallestClass
