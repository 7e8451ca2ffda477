SPECIFICATION Spec
CONSTANTS
    alice = alice
    bob = bob
    w1 = w1
    NoOne = NoOne
    Never = Never
    NoAccount = NoOne
    NoDeadline = Never
    TTL = 2
    MaxTime = 3
    MaxJobs = 2
    Account = {alice}
    Waiter = {}
    Timeout = {}
    PageLimit = {}
INVARIANTS
    ShutdownCancelsEverything
CHECK_DEADLOCK FALSE
