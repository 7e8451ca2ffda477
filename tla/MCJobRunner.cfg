SPECIFICATION FairSpec
CONSTANTS
    alice = alice
    bob = bob
    w1 = w1
    NoOne = NoOne
    Never = Never
    NoAccount = NoOne
    NoDeadline = Never
    TTL = 1
    MaxTime = 2
    MaxJobs = 2
    Account = {alice, bob}
    Waiter = {w1}
    Timeout = {0, 2}
    PageLimit = {1}
INVARIANTS
    TypeOK
    NoZombie
    EventTracksOutcome
    AnswersAreOwnAndFresh
    HeldUntilDone
    CancelStopsTheWork
PROPERTIES
    OnlyOwnerStops
    ImplementsContract
    EveryWaitIsAnswered
    EveryJobSettles
CHECK_DEADLOCK FALSE
