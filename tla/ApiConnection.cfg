SPECIFICATION Spec
INVARIANTS TypeOK TokenBelongsToLogin NoStaleToken AgreesWithServer RegisteredIsTrue
PROPERTIES ForgetsOnlyDeleted
CONSTANTS
    Logins = {l1, l2}
    NoLogin = NoLogin
    NoToken = NoToken
    MaxRot = 2
    Faults = {"lost", "cut", "gateway", "store", "crash"}
