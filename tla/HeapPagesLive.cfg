CONSTANTS
    Threads = {t1, t2}
    Pages = {p1, p2}
    Classes = {c1}
    Capacity = 1
    MaxPushers = 1
    NoThread = NoThread
    NoPage = NoPage
    NoClass = NoClass
SPECIFICATION FairSpec
PROPERTY GivingUpFinishes
CHECK_DEADLOCK TRUE
