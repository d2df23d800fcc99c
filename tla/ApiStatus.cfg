SPECIFICATION Spec
INVARIANTS UnregisteredIsTrue
SYMMETRY LoginSymmetry
CONSTANTS
    Logins = {l1, l2}
    NoLogin = NoLogin
    NoToken = NoToken
    MaxRot = 2
    Faults = {"lost"}
