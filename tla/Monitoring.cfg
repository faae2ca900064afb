\* One message, one user: archiving, clearing, metrics that are re-typed, and alerts that log, on a custom metric and within operations.
SPECIFICATION Spec
CONSTANTS
    MsgIds = {m1}
    NoMsg = NoMsg
    Users = {u1}
    NoUser = NoUser
    Queue = queue
    CustomMetrics = {queue}
    MAX_UINT = 100
    MetricInputs <- MCMetricInputs
    ValueInputs = {1, 2}
    ThresholdInputs = {2}
    CooldownInputs = {1}
    LevelInputs <- MCLevelInputs
    MaxLogs = 2
    MaxAlerts = 1
    MaxTime = 2
    MaxSum = 3
    MaxUpdated = 1
CHECK_DEADLOCK FALSE
INVARIANTS
    TypeOK
    LogsListed
    MetricsCoherent
