CONSTANTS
    Threads = {t1, t2, t3}
    Pages = {p1, p2}
    Classes = {c1}
    Capacity = 1
    MaxPushers = 1
    NoThread = NoThread
    NoPage = NoPage
    NoClass = NoClass
SPECIFICATION Spec
SYMMETRY Symmetry
INVARIANTS
    TypeOK
    QueuedExactlyOnce
    PushersPinOwner
PROPERTY ImplementsAllocator
CHECK_DEADLOCK TRUE
