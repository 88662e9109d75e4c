--------------------------- MODULE MCTokenRefresh ---------------------------
EXTENDS TokenRefresh, TLC

Symmetry == Permutations(Threads)

=============================================================================
