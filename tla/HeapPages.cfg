CONSTANTS
    Threads = {t1, t2}
    Pages = {p1, p2}
    Classes = {c1, c2}
    Capacity = 2
    MaxPushers = 2
    NoThread = NoThread
    NoPage = NoPage
    NoClass = NoClass
SPECIFICATION Spec
SYMMETRY Symmetry
INVARIANTS
    BlocksConserved
    EveryPageInOnePlace
    PooledPagesAreEmpty
    NoRemoteFreeLost
    NoRoomStranded
    OrphanCountLags
CHECK_DEADLOCK TRUE
