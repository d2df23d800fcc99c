--------------------------- MODULE MCApiConnection ---------------------------
EXTENDS ApiConnection, TLC
LoginSymmetry == Permutations(Logins)
===============================================================================
