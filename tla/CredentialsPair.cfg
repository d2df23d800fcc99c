SPECIFICATION Spec
INVARIANTS TypeOK TokenBelongsToLogin AnnouncedOnce TruncatedHasWriter NoStaleCredentials
SYMMETRY LoginSymmetry
CONSTANTS
    Logins = {l1, l2}
    Missing = Missing
    Truncated = Truncated
    NoToken = NoToken
    NoLogin = NoLogin
    user = user
    timer = timer
    Allowed <- MCAllowed
    Procs = {user, timer}
    MaxRot = 2
    MaxCalls = 1
    Faults = {"lost", "crash"}
