SPECIFICATION Spec
CONSTANTS
    alice = alice
    bob = bob
    main = main
    work = work
    pt = pt
    none = none
    notbearer = notbearer
    missing = missing
    refused = refused
    garbled = garbled
    Token = {alice, bob}
    NoToken = none
    NotBearer = notbearer
    Profile = {main, work}
    NoProfile = none
    Home = main
    Country = {pt}
    NoCountry = none
    HomeMarket = pt
    Cap <- Caps
    Ceiling <- Ceilings
    Mode <- Modes
    Missing = missing
    Refused = refused
    Garbled = garbled
    Answer <- UpToTwoAside
INVARIANTS
    TypeOK
    OnlyTheVerifiedToken
    OnlyScopedAnswersApply
    NothingIsGuessed
    CeilingsHold
CHECK_DEADLOCK FALSE
