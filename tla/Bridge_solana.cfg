\* README.md:63 says an NFT sent from Base to Solana is minted on Solana.
SPECIFICATION Spec
CONSTANTS
    Users = {u1}
    SolanaKeys = {k1}
    Nobody = Nobody
    Nfts = {n1, n2}
    NoChain = NoChain
    MAX_MESSAGE_AGE = 1
    ZetaChain = ZetaChain
    Base = Base
    Solana = Solana
    Nowhere = Nowhere
    ReceiversDeployed = FALSE
    MaxTime = 2
    MaxTokens = 2
CHECK_DEADLOCK FALSE
INVARIANT MintedWhereSent
