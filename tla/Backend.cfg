SPECIFICATION MCSpec
CONSTANTS
    Request = {r1, r2}
    Worker = {w1, w2}
    Nobody = Nobody
    MaxAccount = 2
    Phone = {p1, p2}
    MaxLeaving = 1
    MaxJoining = 2
    Deployments = {{"alipay"}, {"wechat"}, {"google"}}
    Device = {"phone"}
    MaxToken = 3
    MaxOpened = 3
    Purpose = {"register", "login", "bind_phone"}
    MaxCode = 2
    MaxAttempts = 2
    MaxFailures = 1
    Choices = {{"in_app", "push", "sms"}, {"sms"}}
    MaxCycles = 2
    Block = 2
    MaxRetries = 1
    MaxAuto = 2
    MaxTaken = 2
    Conv = {c1, c2}
    MaxClock = 3
    Text = {"a", "x"}
    Blocked = {"x"}
    Reviewer = {r1}
    Platforms = {{"stripe"}, {"paypal", "alipay"}}
    MaxRow = 2
    MaxConnect = 2
    MaxLink = 2
    User = {"u1", "u2"}
    Kind = {"view", "payment"}
    MaxAccess = 1
    MaxEvents = 1
    Order = {1, 2}
INVARIANTS
    TypeOK
    SignInFindsOwner
    MergedIsEmpty
    RotateNeverClone
    LiveIsShown
    CodeIsProof
    ToldOnce
    RowsAreTrue
    SourceIsWhole
    ReadyIsApproved
    AckedWasShown
    OnSaleWasReviewed
    PaidWhereOnboarded
    SessionOfOne
    SpentOnce
PROPERTIES
    KeepsAMethod
CHECK_DEADLOCK FALSE
