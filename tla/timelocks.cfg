SPECIFICATION Spec
CONSTANTS
    Settings = {"risk"}
    Limits <- MCLimits
    Values <- MCValues
    Venues = {"v1", "v2"}
    NoVenue = "none"
    Delay = 2
    MaxTime = 5
INVARIANT NoSurprise
INVARIANT NoVenueSurprise
