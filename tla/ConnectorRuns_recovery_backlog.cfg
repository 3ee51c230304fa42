SPECIFICATION FairSpec
CONSTANTS
    I64Max = 1000
    RunIds <- MCTwoRuns
    Sources = {s1}
    Targets = {t1, t2, t3}
    Workers = {w1}
    Handlers = {h1}
    NoRun = NoRun
    NoWorker = NoWorker
    Nobody = Nobody
    NoRequest = NoRequest
    LeaseSeconds = 1
    RetryBase = 1
    RetryMax = 2
    RunMaxAttempts = 1
    RecoveryLimit = 1
    Drift = 0
    RequestKinds = {"queue"}
    OperatorStatuses = {}
PROPERTIES
    QueuedRunsEnd
