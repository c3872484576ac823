---------------------------- MODULE MCWritePath ----------------------------
EXTENDS WritePath

CONSTANTS v1, i1

MCItemVenue == [i \in Item |-> v1]
=============================================================================
