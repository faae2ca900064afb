----------------------- MODULE MCErrorRecoveryManager -----------------------
(***************************************************************************)
(* Small instances of ErrorRecoveryManager.  Time is scaled: one block per *)
(* unit, MIN_RETRY_DELAY two units, so a floor, a cap and a doubled delay  *)
(* all differ.                                                             *)
(***************************************************************************)
EXTENDS ErrorRecoveryManager, TLC

CONSTANTS Base, ZetaChain

Config(max, base, cap, mult, exp) ==
    [maxRetries |-> max, baseDelay |-> base, maxDelay |-> cap,
     backoffMultiplier |-> mult, exponentialBackoff |-> exp]

MCInitialRetryConfig == Config(2, 2, 3, 2, TRUE)

MCShortRetryConfig == Config(2, 1, 2, 2, TRUE)

MCSymmetry == Permutations(MsgIds)

MCInitialTimeoutConfig ==
    [defaultTimeout |-> 1, extendedTimeout |-> 3,
     chainSpecificTimeouts |->
        [c \in Chains |-> IF c = Solana THEN 2 ELSE IF c = Base THEN 1 ELSE 0]]

\* A cap below the floor with no back-off; a back-off that overflows at the
\* second retry; and one whose maxRetries updateRetryConfig refuses.
MCRetryConfigs ==
    {Config(3, 1, 0, 1, FALSE), Config(2, 1, 3, 101, TRUE),
     Config(4, 1, 1, 1, FALSE)}
============================================================================
