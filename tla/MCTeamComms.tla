------------------------------ MODULE MCTeamComms ------------------------------
\* TeamComms requests alone.
EXTENDS TeamComms, TLC

CommsOnly  == [r \in Requests |-> {"teamcomms"}]
UsersAlike == Permutations(Users) \cup Permutations(Requests)
===============================================================================
