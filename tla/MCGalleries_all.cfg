\* Two requests, two media, three sections, in the settings of MCGalleries.
SPECIFICATION Spec
CONSTANTS
    Media = {m1, m2}
    Sections = {s1, s2, s3}
    General = General
    Requests = {r1, r2}
    NoMedium = NoMedium
    MaxSections = 1
    MaxPosition = 2
    Settings <- MCSettings
SYMMETRY Symmetry
INVARIANTS PlacesDiffer ShownIsStored SectionsOutlive CapNearlyKept
PROPERTIES MovesAreTold KeepsAlbum
