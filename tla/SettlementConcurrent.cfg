SPECIFICATION Spec
CONSTANTS
    Request = {r1, r2}
    Rails = {"stripe", "batch", "wechat", "delayed"}
    Op = {"confirm", "dispute", "release", "event", "resolve", "lost", "late"}
    MaxTransfer = 1
    MaxRefund = 1
SYMMETRY Symmetry
INVARIANTS TypeOK ReleasedWasPaid RefundedWasReturned
CHECK_DEADLOCK FALSE
