SPECIFICATION Spec
INVARIANTS AnnouncedOnceDespiteOverlap
SYMMETRY LoginSymmetry
CONSTANTS
    Logins = {l1, l2}
    Missing = Missing
    Truncated = Truncated
    NoToken = NoToken
    NoLogin = NoLogin
    user = user
    timer = timer
    Allowed <- MCAllowed
    Procs = {user, timer}
    MaxRot = 1
    MaxCalls = 0
    Faults = {}
