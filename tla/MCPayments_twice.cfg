\* payment.service.ts:231-236, one request at a time.
SPECIFICATION Spec
CONSTANTS
    Payments = {p1, p2}
    Requests = {r1}
    NoPayment = NoPayment
    Charges = {"exact"}
    MayOmitAmount = FALSE
    Faults = FALSE
INVARIANT ChargedOnce
CHECK_DEADLOCK FALSE
