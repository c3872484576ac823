---------------------------- MODULE MCVenueSetup ----------------------------
EXTENDS VenueSetup, TLC

CONSTANTS v1, v2

FreshStack == <<>>

VenueSymmetry == Permutations(Venue)
=============================================================================
