\* Two requests, one listing, in every setting.
SPECIFICATION Spec
CONSTANTS
    Listings = {l1}
    Requests = {r1, r2}
    Settings <- MCSettings
SYMMETRY Symmetry
INVARIANTS PublishedIsClean LogExplains
PROPERTIES CascadeSpares HostLeavesModeration
