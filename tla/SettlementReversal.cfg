SPECIFICATION Spec
CONSTANTS
    Request = {r1}
    Rails = {"stripe"}
    Op = {"ship", "confirm", "auto", "dispute", "review", "event", "pause", "release", "resolve"}
    MaxTransfer = 2
    MaxRefund = 2
INVARIANTS RefundTakesPayoutBack
CHECK_DEADLOCK FALSE
