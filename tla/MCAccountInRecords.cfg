SPECIFICATION Spec
CONSTANTS
    r1 = r1
    r2 = r2
    traced = traced
    noid = noid
    alice = alice
    bob = bob
    nobody = nobody
    Bare = {"KEYRING_BASE_URL"}
    Typo = {"SPOTIFY_API_MAX_RETRYS"}
    Foreign = {"PATH"}
    Environment <- Environments
    Request = {r1, r2}
    Id = {traced}
    NoId = noid
    Caller <- Callers
    NoAccount = nobody
    Fails = {"spotify_no_device", "keyring_unusable", "keyring_odd"}
    Field <- Fields
    MaxDepth = 1
INVARIANTS
    RecordsNameTheAccount
CHECK_DEADLOCK FALSE
