SPECIFICATION Spec
CONSTANTS
    c1 = c1
    c2 = c2
    c3 = c3
    alice = alice
    bob = bob
    main = main
    nobody = nobody
    unknown = unknown
    NoCall = nobody
    Unknown = unknown
    Profile = {main}
    Call = {c1, c2, c3}
    Token = {alice, bob}
    DefaultTTL = 1
    Skew = 1
    Lifetime = {0, 2}
    MaxTime = 1
    Budget = 0
SYMMETRY Symmetric
INVARIANTS
    TypeOK
    LockFollowsCalls
    OwnCredentialOnly
    FreshMeansGood
CHECK_DEADLOCK FALSE
