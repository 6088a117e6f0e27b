CONSTANTS
    Threads = {t1, t2, t3}
    Entries = {e1, e2}
    Nil = Nil
    VersionModulus = 4
SPECIFICATION Spec
SYMMETRY Symmetry
INVARIANTS TypeOK ExclusiveOwnership CountCoversStack
PROPERTY ImplementsAtomicStack
CHECK_DEADLOCK TRUE
