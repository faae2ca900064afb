\* One message under every configuration change; the contract itself holds RECOVERY_ROLE, so batches work.
SPECIFICATION Spec
CONSTANTS
    MsgIds = {m1}
    Users = {u1}
    NoUser = NoUser
    Base = 84532
    ZetaChain = 7001
    Solana = 900
    Chains = {900}
    RecoveryRole = {manager}
    Self = manager
    MIN_RETRY_DELAY = 2
    MAX_UINT = 100
    InitialRetryConfig <- MCInitialRetryConfig
    InitialTimeoutConfig <- MCInitialTimeoutConfig
    InitialRecoveryWindow = 3
    RetryConfigInputs <- MCRetryConfigs
    TimeoutInputs = {3}
    WindowInputs = {1}
    FlagInputs = {TRUE, FALSE}
    MaxRetriesLimit = 3
    MinBaseDelay = 1
    MaxDelayLimit = 3
    MinTimeout = 1
    MaxTimeout = 3
    MinWindow = 1
    MaxWindow = 4
    MaxTime = 5
    MaxRegistrations = 1
    MaxCount = 1
    MaxRecovered = 2
CHECK_DEADLOCK FALSE
INVARIANTS
    AttemptsWithinBudget
    AttemptSpacing
    RetryHorizon
PROPERTIES
    GivenUpRetriedOnRequest
