SPECIFICATION FairSpec
CONSTANTS
    Request = {r1}
    Rails = {"stripe", "batch", "wechat", "delayed"}
    Op = {"ship", "confirm", "auto", "dispute", "review", "event", "pause", "release", "resolve"}
    MaxTransfer = 2
    MaxRefund = 2
INVARIANTS PaidOnce ReviewedIsCompleted
PROPERTIES NotPaidAfterRefund PausedIsHeld RefundedStays ReceiptHappens
CHECK_DEADLOCK FALSE
