\* Two requests over the refunds of a payment, in every setting.
SPECIFICATION Spec
CONSTANTS
    Refunds = {f1, f2}
    Handlers = {h1, h2}
    NoRefund = NoRefund
    Amount = 3
    Settings <- MCSettings
SYMMETRY Symmetry
INVARIANTS StatusIsReal StatusFollowsRefunds TakenIsRecorded
PROPERTY KeepsLedger
