\* payment.service.ts:50-52, two requests.
SPECIFICATION Spec
CONSTANTS
    Payments = {p1}
    Requests = {r1, r2}
    NoPayment = NoPayment
    Charges = {"exact"}
    MayOmitAmount = FALSE
    Faults = FALSE
PROPERTY NeverRegresses
CHECK_DEADLOCK FALSE
