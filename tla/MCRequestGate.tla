----------------------------- MODULE MCRequestGate -----------------------------
\* Every kind of path whose view ends in the gate.
EXTENDS RequestGate, TLC

SiteOnly   == [r \in Requests |-> AllPaths \ {"teamcomms"}]
UsersAlike == Permutations(Users)
===============================================================================
