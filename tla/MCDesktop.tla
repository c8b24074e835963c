------------------------------ MODULE MCDesktop ------------------------------
EXTENDS DesktopPlugin, TLC
Symmetry == Permutations(Browse) \cup Permutations(Types)
=============================================================================
