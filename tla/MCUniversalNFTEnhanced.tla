----------------------- MODULE MCUniversalNFTEnhanced -----------------------
(* Small instances of UniversalNFTEnhanced. *)
EXTENDS UniversalNFTEnhanced, TLC

MCInitialRetryConfig ==
    [maxRetries |-> 1, baseDelay |-> 1, maxDelay |-> 1,
     backoffMultiplier |-> 2, exponentialBackoff |-> TRUE]

MCInitialTimeoutConfig ==
    [defaultTimeout |-> 1, extendedTimeout |-> 1,
     chainSpecificTimeouts |-> [c \in {Base, Solana} |-> 1]]

\* Strangers guess the id of the second token's transfer, if it is made in
\* the first block and is the user's first.
MCForeignIds == Users \X {1} \X {Base} \X {0} \X {1}

MCSymmetry == Permutations(Nfts)
=============================================================================
