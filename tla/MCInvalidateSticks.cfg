SPECIFICATION Spec
CONSTANTS
    c1 = c1
    c2 = c2
    c3 = c3
    alice = alice
    bob = bob
    main = main
    nobody = nobody
    unknown = unknown
    NoCall = nobody
    Unknown = unknown
    Profile = {main}
    Call = {c1, c2}
    Token = {alice}
    DefaultTTL = 1
    Skew = 1
    Lifetime = {2, 3}
    MaxTime = 2
    Budget = 0
INVARIANTS
    InvalidateSticks
CHECK_DEADLOCK FALSE
