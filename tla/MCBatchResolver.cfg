SPECIFICATION FairSpec
CONSTANTS
    plain = plain
    rude = rude
    broken = broken
    none = none
    Track = {plain, rude, broken}
    Explicit = {rude}
    Unreadable = {broken}
    NoTrack = none
    Permits = 2
    MaxItems = 3
    MaxHits = 2
INVARIANTS
    TypeOK
    PermitsAreExact
    PartialSuccess
    OnlyCleanTracks
PROPERTIES
    EveryLookupEnds
CHECK_DEADLOCK FALSE
