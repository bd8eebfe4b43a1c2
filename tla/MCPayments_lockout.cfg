\* payment.service.ts:123-127.
SPECIFICATION Spec
CONSTANTS
    Payments = {p1}
    Requests = {r1}
    NoPayment = NoPayment
    Charges = {"exact"}
    MayOmitAmount = FALSE
    Faults = FALSE
INVARIANT FailedIsUncharged
CHECK_DEADLOCK FALSE
