\* Two NFTs and one user: redelivery, clocks that differ, and, as a unit of time is more than a day, expiry.
SPECIFICATION Spec
CONSTANTS
    Users = {u1}
    SolanaKeys = {k1}
    Nobody = Nobody
    Nfts = {n1, n2}
    NoChain = NoChain
    MAX_MESSAGE_AGE = 0
    ZetaChain = ZetaChain
    Base = Base
    Solana = Solana
    Nowhere = Nowhere
    ReceiversDeployed = TRUE
    MaxTime = 2
    MaxTokens = 2
CHECK_DEADLOCK FALSE
SYMMETRY MCSymmetry
INVARIANTS
    TypeOK
    OneCopy
    ProvenanceKept
PROPERTIES
    TokenIdsNotReused
    ImplementsLedger
