\* Is the token of a reverted transfer restored?
SPECIFICATION EnhancedSpec
CONSTANTS
    Users = {u1}
    SolanaKeys = {k1}
    Nobody = Nobody
    NoUser = NoUser
    Nfts = {n1, n2}
    NoChain = NoChain
    MAX_MESSAGE_AGE = 1
    ZetaChain = ZetaChain
    Base = Base
    Solana = Solana
    Nowhere = Nowhere
    ReceiversDeployed = TRUE
    MaxTime = 2
    MaxTokens = 2
    MIN_RETRY_DELAY = 1
    MAX_UINT = 100
    InitialRetryConfig <- MCInitialRetryConfig
    InitialTimeoutConfig <- MCInitialTimeoutConfig
    InitialRecoveryWindow = 2
    MaxRetriesLimit = 1
    MaxDelayLimit = 1
    InitialInterval = 2
    MinInterval = 1
    MaxInterval = 2
    IntervalInputs = {1}
    Destinations = {Base, ZetaChain}
    ReportInputs = {TRUE}
    MaxNonces = 2
    MaxRecoveries = 1
    ForeignIds <- MCForeignIds
    MaxOpenCalls = 1
CHECK_DEADLOCK FALSE
PROPERTIES
    RevertRestores
