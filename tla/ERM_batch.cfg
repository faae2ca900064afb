\* One message, RECOVERY_ROLE granted to an administrator only, as the deployment script does.
SPECIFICATION Spec
CONSTANTS
    MsgIds = {m1}
    Users = {u1}
    NoUser = NoUser
    Base = 84532
    ZetaChain = 7001
    Solana = 900
    Chains = {84532}
    RecoveryRole = {admin}
    Self = manager
    MIN_RETRY_DELAY = 1
    MAX_UINT = 100
    InitialRetryConfig <- MCShortRetryConfig
    InitialTimeoutConfig <- MCInitialTimeoutConfig
    InitialRecoveryWindow = 3
    RetryConfigInputs = {}
    TimeoutInputs = {}
    WindowInputs = {}
    FlagInputs = {}
    MaxRetriesLimit = 3
    MinBaseDelay = 1
    MaxDelayLimit = 3
    MinTimeout = 1
    MaxTimeout = 3
    MinWindow = 1
    MaxWindow = 4
    MaxTime = 4
    MaxRegistrations = 1
    MaxCount = 1
    MaxRecovered = 1
CHECK_DEADLOCK FALSE
INVARIANTS
    BatchRecoversMessages
