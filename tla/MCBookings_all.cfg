\* Two requests, two bookings, in every setting.
SPECIFICATION Spec
CONSTANTS
    NoBooking = NoBooking
    Bookings = {b1, b2}
    Requests = {r1, r2}
    Blocks = {k1}
    Spans <- MCSpans
    Settings <- MCSettings
SYMMETRY Symmetry
INVARIANTS NotesAreTrue VerdictIsTold NeverDoubleBooked
PROPERTIES KeepsCalendar BookedIsOpen
