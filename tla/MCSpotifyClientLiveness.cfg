SPECIFICATION FairSpec
CONSTANTS
    c1 = c1
    c2 = c2
    c3 = c3
    alice = alice
    bob = bob
    main = main
    nobody = nobody
    unknown = unknown
    NoCall = nobody
    Unknown = unknown
    Profile = {main}
    Call = {c1, c2, c3}
    Token = {alice}
    DefaultTTL = 1
    Skew = 1
    Lifetime = {unknown, 1}
    MaxTime = 0
    Budget = 1
INVARIANTS
    RequestsAreBounded
PROPERTIES
    EveryCallEnds
CHECK_DEADLOCK FALSE
