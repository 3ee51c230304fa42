SPECIFICATION FairSpec
CONSTANTS
    I64Max = 1000
    RunIds <- MCOneRun
    Sources = {s1}
    Targets = {t1}
    Workers = {w1, w2}
    Handlers = {h1}
    NoRun = NoRun
    NoWorker = NoWorker
    Nobody = Nobody
    NoRequest = NoRequest
    LeaseSeconds = 2
    RetryBase = 1
    RetryMax = 2
    RunMaxAttempts = 2
    RecoveryLimit = 1
    Drift = 1
    RequestKinds = {"inline"}
    OperatorStatuses = {}
PROPERTY RunningRunsEnd
