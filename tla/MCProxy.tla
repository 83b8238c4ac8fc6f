------------------------------- MODULE MCProxy -------------------------------
EXTENDS Proxy
\* Nothing tells one client from another but what it does.
ClientSymmetry == Permutations(Clients)
=============================================================================
