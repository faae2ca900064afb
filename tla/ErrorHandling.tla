--------------------------- MODULE ErrorHandling ---------------------------
(***************************************************************************)
(* The library contracts/shared/ErrorHandling.sol: what it does to one     *)
(* tracked message.  Every operator takes the message's record (and the    *)
(* configuration and block timestamp the Solidity function reads) and      *)
(* returns the record the function leaves behind.  Events, log lines and   *)
(* error texts are left out; a failing `require` or a checked-arithmetic   *)
(* panic is a predicate the caller puts in its guard.                      *)
(***************************************************************************)
EXTENDS Naturals

CONSTANTS
    Users,               \* addresses that send messages
    NoUser,              \* address(0), the sender of a deleted record
    Chains,              \* destination chain ids
    Solana,              \* chain 900, the one with an extended timeout
    MIN_RETRY_DELAY,     \* 5 minutes
    MAX_UINT             \* the largest value of Solidity's uint256

ASSUME ErrorHandlingAssumption ==
    /\ NoUser \notin Users
    /\ MIN_RETRY_DELAY \in Nat \ {0}
    /\ MAX_UINT \in Nat

MessageStatus == {"PENDING", "PROCESSING", "COMPLETED", "TIMEOUT", "FAILED",
                  "ADMIN_RESOLVED", "CANCELLED"}

RecoveryAction == {"RETRY", "FORCE_COMPLETE", "ROLLBACK", "MANUAL_RESOLVE",
                   "CANCEL"}

\* The record of a tracked message.  `registered` stands for messageId # 0;
\* lastError and recoveryHash, which no decision reads, are left out.
PendingMessage ==
    [registered     : BOOLEAN,
     createdAt      : Nat,
     timeout        : Nat,
     retryCount     : Nat,
     nextRetryAt    : Nat,
     status         : MessageStatus,
     originalSender : Users \cup {NoUser},
     isRecoverable  : BOOLEAN]

RetryConfig ==
    [maxRetries         : Nat,
     baseDelay          : Nat,
     maxDelay           : Nat,
     backoffMultiplier  : Nat,
     exponentialBackoff : BOOLEAN]

TimeoutConfig ==
    [defaultTimeout        : Nat,
     extendedTimeout       : Nat,
     chainSpecificTimeouts : [Chains -> Nat]]

\* What `delete` leaves: every field at its zero value (PENDING is zero).
DeletedMessage ==
    [registered     |-> FALSE,
     createdAt      |-> 0,
     timeout        |-> 0,
     retryCount     |-> 0,
     nextRetryAt    |-> 0,
     status         |-> "PENDING",
     originalSender |-> NoUser,
     isRecoverable  |-> FALSE]

\* Mutant: a record that is created in a status the enumeration lacks.
createPendingMessageUnknownStatus(sender, timeout, timestamp) ==
    [DeletedMessage EXCEPT !.registered     = TRUE,
                           !.createdAt      = timestamp,
                           !.timeout        = timeout,
                           !.status         = "CREATED",
                           !.originalSender = sender,
                           !.isRecoverable  = TRUE]

createPendingMessage(sender, timeout, timestamp) ==
    [registered     |-> TRUE,
     createdAt      |-> timestamp,
     timeout        |-> timeout,
     retryCount     |-> 0,
     nextRetryAt    |-> 0,
     status         |-> "PENDING",
     originalSender |-> sender,
     isRecoverable  |-> TRUE]

isStatusFinal(status) == status \in {"COMPLETED", "ADMIN_RESOLVED", "CANCELLED"}

----------------------------------------------------------------------------
(* Timeouts *)

isMessageTimedOut(pm, timestamp) ==
    /\ ~isStatusFinal(pm.status)
    /\ timestamp > pm.createdAt + pm.timeout

\* useChainSpecificTimeouts is set by the constructor and never cleared.
calculateMessageTimeout(chain, config) ==
    IF config.chainSpecificTimeouts[chain] > 0
    THEN config.chainSpecificTimeouts[chain]
    ELSE IF chain = Solana THEN config.extendedTimeout
                           ELSE config.defaultTimeout

----------------------------------------------------------------------------
(* Retries *)

\* Mutant: the test of isRecoverable is dropped.
CanRetryUnrecoverable(pm, config) == pm.retryCount < config.maxRetries

\* The budget test that handleMessageTimeout, scheduleRetry and
\* handleRetryFailure share.
CanRetry(pm, config) ==
    /\ pm.retryCount < config.maxRetries
    /\ pm.isRecoverable

RawRetryDelay(retryAttempt, config) ==
    IF config.exponentialBackoff
    THEN config.baseDelay * (config.backoffMultiplier ^ retryAttempt)
    ELSE config.baseDelay

\* Checked arithmetic: outside this range the call panics and is undone.
RetryDelayFits(retryAttempt, config) ==
    RawRetryDelay(retryAttempt, config) \in 0 .. MAX_UINT

\* Mutant: the cap is dropped.
calculateRetryDelayUncapped(retryAttempt, config) ==
    LET raw == RawRetryDelay(retryAttempt, config)
    IN  IF raw < MIN_RETRY_DELAY THEN MIN_RETRY_DELAY ELSE raw

\* The cap comes first and the floor last, so the floor wins when an
\* administrator sets maxDelay below MIN_RETRY_DELAY.
calculateRetryDelay(retryAttempt, config) ==
    LET raw    == RawRetryDelay(retryAttempt, config)
        capped == IF raw > config.maxDelay THEN config.maxDelay ELSE raw
    IN  IF capped < MIN_RETRY_DELAY THEN MIN_RETRY_DELAY ELSE capped

\* Its requires are CanRetry; its panic is ~RetryDelayFits.
scheduleRetry(pm, config, timestamp) ==
    [pm EXCEPT
        !.nextRetryAt = timestamp + calculateRetryDelay(pm.retryCount, config),
        !.retryCount  = pm.retryCount + 1,
        !.status      = "PENDING"]

\* Mutant: a message nobody scheduled is ready too.
isReadyForRetryUnscheduled(pm, timestamp) ==
    /\ pm.status = "PENDING"
    /\ timestamp >= pm.nextRetryAt

isReadyForRetry(pm, timestamp) ==
    /\ pm.status = "PENDING"
    /\ pm.retryCount > 0
    /\ timestamp >= pm.nextRetryAt

handleRetryFailure(pm, config, timestamp) ==
    IF CanRetry(pm, config)
    THEN scheduleRetry(pm, config, timestamp)
    ELSE [pm EXCEPT !.status = "FAILED"]

RetryFailurePanics(pm, config) ==
    CanRetry(pm, config) /\ ~RetryDelayFits(pm.retryCount, config)

\* shouldRetry, the first result of handleMessageTimeout.
ShouldRetryTimeout(pm, config, timestamp) ==
    isMessageTimedOut(pm, timestamp) /\ CanRetry(pm, config)

\* The record handleMessageTimeout leaves to its caller.
handleMessageTimeout(pm, config, timestamp) ==
    IF ~isMessageTimedOut(pm, timestamp) THEN pm
    ELSE [pm EXCEPT !.status =
             IF CanRetry(pm, config) THEN "TIMEOUT" ELSE "FAILED"]

----------------------------------------------------------------------------
(* Administrator recovery *)

HighRiskAction(action) == action \in {"FORCE_COMPLETE", "ROLLBACK"}

\* hashMatches: the caller provided the hash of this message, action, caller
\* and the timestamp of the very block that runs the call.
verifyRecovery(pm, action, hashMatches) ==
    /\ ~isStatusFinal(pm.status)
    /\ HighRiskAction(action) => hashMatches

\* Mutant: "RETRY: schedule immediate retry", as the recovery guide words it.
executeRecoveryActionImmediate(pm, action, timestamp) ==
    CASE action \in {"FORCE_COMPLETE", "MANUAL_RESOLVE"} ->
            [pm EXCEPT !.status = "ADMIN_RESOLVED", !.isRecoverable = FALSE]
      [] action \in {"CANCEL", "ROLLBACK"} ->
            [pm EXCEPT !.status = "CANCELLED", !.isRecoverable = FALSE]
      [] action = "RETRY" ->
            [pm EXCEPT !.status = "PENDING", !.nextRetryAt = timestamp]

\* Mutant: a cancelled message stays recoverable.
executeRecoveryActionCancelKeeps(pm, action, timestamp) ==
    CASE action \in {"FORCE_COMPLETE", "MANUAL_RESOLVE"} ->
            [pm EXCEPT !.status = "ADMIN_RESOLVED", !.isRecoverable = FALSE]
      [] action \in {"CANCEL", "ROLLBACK"} ->
            [pm EXCEPT !.status = "CANCELLED"]
      [] action = "RETRY" ->
            [pm EXCEPT !.status      = "PENDING",
                       !.nextRetryAt = timestamp + MIN_RETRY_DELAY]

executeRecoveryAction(pm, action, timestamp) ==
    CASE action \in {"FORCE_COMPLETE", "MANUAL_RESOLVE"} ->
            [pm EXCEPT !.status = "ADMIN_RESOLVED", !.isRecoverable = FALSE]
      [] action \in {"CANCEL", "ROLLBACK"} ->
            [pm EXCEPT !.status = "CANCELLED", !.isRecoverable = FALSE]
      [] action = "RETRY" ->
            [pm EXCEPT !.status      = "PENDING",
                       !.nextRetryAt = timestamp + MIN_RETRY_DELAY]
============================================================================
