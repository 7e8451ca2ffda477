SPECIFICATION FairSpec
CONSTANTS
    clean = clean
    rude = rude
    none = none
    phone = phone
    desk = desk
    anywhere = anywhere
    nowhere = nowhere
    unset = unset
    on = on
    off = off
    Track = {clean, rude}
    Explicit = {rude}
    NoTrack = none
    Dial = {"shuffle", "repeat"}
    Value = {on, off}
    On = on
    Unset = unset
    Device = {phone, desk}
    Named = {phone}
    Anywhere = anywhere
    Nowhere = nowhere
    People <- ThreePeople
    MaxUris = 2
    Budget = 1
    Timeout = 1
    Interval = 2
INVARIANTS
    TypeOK
    AnswerMeetsRequest
    AllSentOrReported
    ModesOnlyWhenMeant
    ExplicitNeverSent
    GivesUpHonestly
PROPERTIES
    EveryCommandEnds
CHECK_DEADLOCK FALSE
