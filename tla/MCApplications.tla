--------------------------- MODULE MCApplications ---------------------------
EXTENDS Applications, TLC

CONSTANTS c1, c2

Symmetry == Permutations(Requests)

=============================================================================
