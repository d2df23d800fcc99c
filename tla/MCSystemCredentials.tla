------------------------- MODULE MCSystemCredentials -------------------------
EXTENDS SystemCredentials, TLC
CONSTANTS user, timer
MCAllowed(p) == IF p = timer THEN {"keepalive"} ELSE Commands
LoginSymmetry == Permutations(Logins)
===============================================================================
