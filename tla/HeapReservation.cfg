CONSTANTS
    Threads = {t1, t2}
    LARGE_UNIT = 4
    MEDIUM_PAGE_SIZE = 8
    HEADER_SIZE = 1
    Mappings <- TwoMappings
    MaxUnits = 1
    AddressSpace <- Addresses
    EnvModes = {1, 2}
SPECIFICATION FairSpec
INVARIANTS ClaimsDisjoint FreesGoHome HeadersApart OneReservation
PROPERTIES RequestsReturn
