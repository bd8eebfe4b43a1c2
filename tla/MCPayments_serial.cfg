\* One request at a time: the guard on terminal statuses is enough.
SPECIFICATION Spec
CONSTANTS
    Payments = {p1, p2}
    Requests = {r1}
    NoPayment = NoPayment
    Charges = {"exact", "other"}
    MayOmitAmount = TRUE
    Faults = TRUE
SYMMETRY Symmetry
INVARIANTS NotesAgree OneCheckout
PROPERTIES KeepsLifecycle
CHECK_DEADLOCK FALSE
