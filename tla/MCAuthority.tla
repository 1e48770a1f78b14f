------------------------------ MODULE MCAuthority ------------------------------
EXTENDS Authority, TLC

ChecksAlike == Permutations(Checks)
===============================================================================
