---------------------------- MODULE MCClientChat ----------------------------
EXTENDS ClientChat, TLC

CONSTANTS k1, k2, k3

\* Runs differ in nothing but their name, where all or none may have an image.
MCSymmetry == Permutations(Requests)
=============================================================================
