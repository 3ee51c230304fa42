SPECIFICATION Spec
CONSTANTS
    I64Max = 1000
    RunIds <- MCTwoRuns
    Sources = {s1}
    Targets = {t1}
    Workers = {w1}
    Handlers = {h1, h2}
    NoRun = NoRun
    NoWorker = NoWorker
    Nobody = Nobody
    NoRequest = NoRequest
    LeaseSeconds = 1
    RetryBase = 1
    RetryMax = 2
    RunMaxAttempts = 1
    RecoveryLimit = 1
    Drift = 0
    RequestKinds = {"queue", "inline", "import", "retry"}
    OperatorStatuses = {"absent"}
SYMMETRY MCSymmetry
INVARIANTS
    IInv
    OneActiveRunPerKey
    RetriesFollowAFinishedRun
