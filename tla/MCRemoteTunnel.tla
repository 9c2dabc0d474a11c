--------------------------- MODULE MCRemoteTunnel ---------------------------
EXTENDS RemoteTunnel, TLC

Symmetry == Permutations(Users)
=============================================================================
