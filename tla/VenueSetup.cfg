SPECIFICATION SetupSpec
CONSTANTS
    v1 = v1
    v2 = v2
    Venue = {v1, v2}
    FirstVenues <- FreshStack
    VenueScreen = {"menu"}
    Stale = Stale
    ENV_DEFAULT_VENUE_ID = Stale
    DemoItems = 1
    MaxCreations = 2
    None = None
    Refused = Refused
    Loading = Loading
SYMMETRY VenueSymmetry
INVARIANTS
    CreatedIsThere
    LinksLeadSomewhere
    HeaderAgreesWithScreen
