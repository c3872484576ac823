-------------------------- MODULE MCMenuRepository --------------------------
EXTENDS MenuRepository, TLC

CONSTANTS v1, v2, i1, i2

MCItemVenue == [i \in Item |-> v1]
Symmetry == Permutations(Tx)
=============================================================================
