\* One listing, three dates of four hours; two requests, one kind of change at a time.
SPECIFICATION Spec
CONSTANTS
    LastDate = 2
    DayLength = 4
    Weekday <- MCWeekday
    Weeks <- MCWeeks
    Rules = {1, 2, 3}
    Blocks = {b1, b2}
    Amounts = {2, 3}
    Hours = {1, 2}
    Kinds = {"categories", "amenities"}
    Choices = {{"studio", "garden"}, {"loft"}, {}}
    Bad = "nonesuch"
    Few <- MCFew
    Moving = {"half_day", "day"}
    MaxBooked = 2
    MaxHad = 2
    Requests = {r1, r2}
    Settings <- MCSettings
SYMMETRY Symmetry
INVARIANTS
    GateIsExact
    TagsAreOneChoice
PROPERTY
    BookedAsOffered
