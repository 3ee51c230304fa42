SPECIFICATION Spec
CONSTANTS
    I64Max = 1000
    RunIds <- MCOneRun
    Sources = {s1}
    Targets = {t1}
    Workers = {w1, w2}
    Handlers = {h1}
    NoRun = NoRun
    NoWorker = NoWorker
    Nobody = Nobody
    NoRequest = NoRequest
    LeaseSeconds = 2
    RetryBase = 1
    RetryMax = 2
    RunMaxAttempts = 2
    RecoveryLimit = 1
    Drift = 1
    RequestKinds = {"queue", "inline", "import", "retry"}
    OperatorStatuses = {"paused", "absent"}
SYMMETRY MCSymmetry
INVARIANTS
    TypeOK
    IInv
    QueuedRunIsClaimable
    ClaimedRunIsRecoverable
    OnlyCurrentAttemptIsActive
PROPERTIES
    CancelRequestStands
    OnlyOwnersExtendLeases
    ImplementsLifecycle
