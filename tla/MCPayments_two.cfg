\* Two requests at once, one attempt; every request that has begun goes on.
SPECIFICATION LiveSpec
CONSTANTS
    Payments = {p1}
    Requests = {r1, r2}
    NoPayment = NoPayment
    Charges = {"exact", "other"}
    MayOmitAmount = FALSE
    Faults = FALSE
INVARIANTS SuccessIsReal OrdersAreKnown
PROPERTIES EndsStay ChargeIsRecorded PaidIsTold
CHECK_DEADLOCK FALSE
