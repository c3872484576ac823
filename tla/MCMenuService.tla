--------------------------- MODULE MCMenuService ---------------------------
EXTENDS MenuService

CONSTANTS v1, i1

MCItemVenue == [i \in Item |-> v1]
=============================================================================
