SPECIFICATION FairSpec
INVARIANTS NoStaleToken
PROPERTIES EnrSpec Terminates
CONSTANTS
    Logins = {l1, l2}
    Missing = Missing
    Truncated = Truncated
    NoToken = NoToken
    NoLogin = NoLogin
    user = user
    timer = timer
    Allowed <- MCAllowed
    Procs = {user}
    MaxRot = 2
    MaxCalls = 2
    Faults = {"lost", "crash"}
