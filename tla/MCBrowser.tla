------------------------------ MODULE MCBrowser ------------------------------
EXTENDS Browser, TLC
Symmetry == Permutations(Insts) \cup Permutations(Hosts) \cup Permutations(Addrs)
=============================================================================
