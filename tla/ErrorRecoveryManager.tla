------------------------ MODULE ErrorRecoveryManager ------------------------
(***************************************************************************)
(* The contract contracts/shared/ErrorRecoveryManager.sol, which tracks    *)
(* cross-chain messages, schedules their retries, times them out and lets  *)
(* administrators settle them.                                             *)
(*                                                                         *)
(* One action is one transaction: a call that reverts changes nothing, so  *)
(* every `require`, modifier and arithmetic panic is a guard.  Tick is the *)
(* next block.  A role-checked function is an action of some holder of the *)
(* role; RECOVERY_ROLE is explicit because executeBatchRecovery calls      *)
(* executeRecovery through `this` and so runs it as the contract itself.   *)
(*                                                                         *)
(* attempts, lastAttempt and adminRetries are history variables: no guard  *)
(* reads them.                                                             *)
(***************************************************************************)
EXTENDS ErrorHandling, FiniteSets, Sequences

CONSTANTS
    MsgIds,                   \* non-zero message ids
    RecoveryRole,             \* addresses that hold RECOVERY_ROLE
    Self,                     \* the address of this contract
    InitialRetryConfig,       \* the configurations the constructor sets
    InitialTimeoutConfig,
    InitialRecoveryWindow,
    RetryConfigInputs,        \* arguments administrators pass
    TimeoutInputs,
    WindowInputs,
    FlagInputs,
    MaxRetriesLimit,          \* 20, the limits updateRetryConfig enforces
    MinBaseDelay,             \* 1 minute
    MaxDelayLimit,            \* 24 hours
    MinTimeout, MaxTimeout,   \* 10 minutes and 7 days
    MinWindow, MaxWindow,     \* 1 day and 30 days
    MaxTime,                  \* bounds of the model: the last block,
    MaxRegistrations,         \* the messages ever registered,
    MaxCount,                 \* the messages counted completed and failed,
    MaxRecovered              \* and those counted recovered

ASSUME ErrorRecoveryManagerAssumption ==
    /\ IsFiniteSet(MsgIds)
    /\ InitialRetryConfig \in RetryConfig
    /\ InitialTimeoutConfig \in TimeoutConfig
    /\ InitialRecoveryWindow \in Nat
    /\ RetryConfigInputs \subseteq RetryConfig
    /\ TimeoutInputs \subseteq Nat
    /\ WindowInputs \subseteq Nat
    /\ FlagInputs \subseteq BOOLEAN
    /\ {MaxRetriesLimit, MinBaseDelay, MaxDelayLimit, MinTimeout, MaxTimeout,
        MinWindow, MaxWindow, MaxTime, MaxRegistrations, MaxCount,
        MaxRecovered} \subseteq Nat
    /\ MIN_RETRY_DELAY <= MaxDelayLimit
    /\ InitialRetryConfig.maxRetries <= MaxRetriesLimit
    /\ InitialRetryConfig.maxDelay <= MaxDelayLimit

VARIABLES
    pendingMessages, userMessages, allMessageIds,
    retryConfig, timeoutConfig, autoRetryEnabled, adminRecoveryEnabled,
    recoveryWindow, paused,
    totalMessages, completedMessages, failedMessages, timeoutMessages,
    recoveredMessages,
    timestamp,        \* block.timestamp
    attempts,         \* history: retries executed since m was registered
    lastAttempt,      \* history: the block of m's last retry, 0 before any
    adminRetries      \* history: RETRY recoveries of m since it was registered

indexVars   == <<userMessages, allMessageIds, totalMessages>>
configVars  == <<retryConfig, timeoutConfig, autoRetryEnabled,
                 adminRecoveryEnabled, recoveryWindow>>
statsVars   == <<completedMessages, failedMessages, timeoutMessages,
                 recoveredMessages>>
historyVars == <<attempts, lastAttempt, adminRetries>>
vars == <<pendingMessages, indexVars, configVars, paused, statsVars, timestamp,
          historyVars>>

Registered == {m \in MsgIds : pendingMessages[m].registered}

Init ==
    /\ pendingMessages = [m \in MsgIds |-> DeletedMessage]
    /\ userMessages = [u \in Users |-> <<>>]
    /\ allMessageIds = <<>>
    /\ retryConfig = InitialRetryConfig
    /\ timeoutConfig = InitialTimeoutConfig
    /\ autoRetryEnabled = TRUE
    /\ adminRecoveryEnabled = TRUE
    /\ recoveryWindow = InitialRecoveryWindow
    /\ paused = FALSE
    /\ totalMessages = 0
    /\ completedMessages = 0
    /\ failedMessages = 0
    /\ timeoutMessages = 0
    /\ recoveredMessages = 0
    /\ timestamp = 1
    /\ attempts = [m \in MsgIds |-> 0]
    /\ lastAttempt = [m \in MsgIds |-> 0]
    /\ adminRetries = [m \in MsgIds |-> 0]

Tick ==
    /\ timestamp < MaxTime
    /\ timestamp' = timestamp + 1
    /\ UNCHANGED <<pendingMessages, indexVars, configVars, paused, statsVars,
                   historyVars>>

----------------------------------------------------------------------------
(* Core message management: anyone may call these. *)

\* Mutant: the push to allMessageIds is forgotten.
registerMessageUnlisted(m, sender, chain) ==
    /\ ~paused
    /\ m \notin Registered
    /\ totalMessages < MaxRegistrations
    /\ pendingMessages' = [pendingMessages EXCEPT ![m] =
            createPendingMessage(sender,
                calculateMessageTimeout(chain, timeoutConfig), timestamp)]
    /\ userMessages' = [userMessages EXCEPT ![sender] = Append(@, m)]
    /\ totalMessages' = totalMessages + 1
    /\ UNCHANGED <<allMessageIds, configVars, paused, statsVars, timestamp,
                   historyVars>>

registerMessage(m, sender, chain) ==
    /\ ~paused
    /\ m \notin Registered
    /\ totalMessages < MaxRegistrations
    /\ pendingMessages' = [pendingMessages EXCEPT ![m] =
            createPendingMessage(sender,
                calculateMessageTimeout(chain, timeoutConfig), timestamp)]
    /\ userMessages' = [userMessages EXCEPT ![sender] = Append(@, m)]
    /\ allMessageIds' = Append(allMessageIds, m)
    /\ totalMessages' = totalMessages + 1
    /\ UNCHANGED <<configVars, paused, statsVars, timestamp, historyVars>>

\* Mutant: the completion is not counted.
markMessageCompletedUncounted(m) ==
    /\ m \in Registered
    /\ pendingMessages[m].status # "COMPLETED"
    /\ pendingMessages' = [pendingMessages EXCEPT ![m].status = "COMPLETED"]
    /\ UNCHANGED <<indexVars, configVars, paused, statsVars, timestamp,
                   historyVars>>

markMessageCompleted(m) ==
    /\ m \in Registered
    /\ pendingMessages[m].status # "COMPLETED"
    /\ completedMessages < MaxCount
    /\ pendingMessages' = [pendingMessages EXCEPT ![m].status = "COMPLETED"]
    /\ completedMessages' = completedMessages + 1
    /\ UNCHANGED <<indexVars, configVars, paused, failedMessages,
                   timeoutMessages, recoveredMessages, timestamp, historyVars>>

reportMessageError(m, shouldRetry) ==
    LET pm == pendingMessages[m]
        automatic == shouldRetry /\ autoRetryEnabled /\ pm.isRecoverable
    IN
    /\ m \in Registered
    /\ \/ /\ automatic
          /\ ~RetryFailurePanics(pm, retryConfig)
          /\ pendingMessages' = [pendingMessages EXCEPT ![m] =
                handleRetryFailure(pm, retryConfig, timestamp)]
          /\ UNCHANGED failedMessages
       \/ /\ ~automatic
          /\ failedMessages < MaxCount
          /\ pendingMessages' = [pendingMessages EXCEPT ![m].status = "FAILED"]
          /\ failedMessages' = failedMessages + 1
    /\ UNCHANGED <<indexVars, configVars, paused, completedMessages,
                   timeoutMessages, recoveredMessages, timestamp, historyVars>>

----------------------------------------------------------------------------
(* Keepers: anyone may call these. *)

\* One turn of handleTimeouts' loop.  Calls naming an id twice behave as two
\* calls in one block, so the argument is a set.
AfterTimeoutCheck(pm) ==
    LET checked == handleMessageTimeout(pm, retryConfig, timestamp)
    IN  IF ShouldRetryTimeout(pm, retryConfig, timestamp)
        THEN scheduleRetry(checked, retryConfig, timestamp)
        ELSE checked

\* Mutant: an unknown id reverts the batch instead of being skipped.
handleTimeoutsAllKnown(ids) ==
    /\ ~paused
    /\ ids \subseteq Registered
    /\ \A m \in ids :
          ShouldRetryTimeout(pendingMessages[m], retryConfig, timestamp)
             => RetryDelayFits(pendingMessages[m].retryCount, retryConfig)
    /\ pendingMessages' = [m \in MsgIds |->
          IF m \in ids THEN AfterTimeoutCheck(pendingMessages[m])
                       ELSE pendingMessages[m]]
    /\ timeoutMessages' = timeoutMessages +
          Cardinality({m \in ids : pendingMessages'[m].status = "TIMEOUT"})
    /\ UNCHANGED <<indexVars, configVars, paused, completedMessages,
                   failedMessages, recoveredMessages, timestamp, historyVars>>

handleTimeouts(ids) ==
    LET known == ids \cap Registered
    IN
    /\ ~paused
    /\ \A m \in known :
          ShouldRetryTimeout(pendingMessages[m], retryConfig, timestamp)
             => RetryDelayFits(pendingMessages[m].retryCount, retryConfig)
    /\ pendingMessages' = [m \in MsgIds |->
          IF m \in known THEN AfterTimeoutCheck(pendingMessages[m])
                         ELSE pendingMessages[m]]
    /\ timeoutMessages' = timeoutMessages +
          Cardinality({m \in known : pendingMessages'[m].status = "TIMEOUT"})
    /\ UNCHANGED <<indexVars, configVars, paused, completedMessages,
                   failedMessages, recoveredMessages, timestamp, historyVars>>

Ready == {m \in MsgIds : isReadyForRetry(pendingMessages[m], timestamp)}

\* m occurs in allMessageIds, and for the first time before n does.
Before(m, n) ==
    \E i \in 1 .. Len(allMessageIds) :
        /\ allMessageIds[i] = m
        /\ \A j \in 1 .. i : allMessageIds[j] # n

\* The messages the loop reaches before it has processed `limit` of them.  An
\* id pushed twice is retried once: _executeRetry never leaves a message
\* ready in the same block (LEMMA NotReadyAfterRetry).
RetryBatch(limit) ==
    {m \in Ready :
        /\ \E i \in 1 .. Len(allMessageIds) : allMessageIds[i] = m
        /\ Cardinality({n \in Ready : Before(n, m)}) < limit}

\* _executeRetry; the simulated outcome is a hash of the id and the block.
AfterRetry(pm, success) ==
    IF success THEN [pm EXCEPT !.status = "COMPLETED"]
    ELSE handleRetryFailure([pm EXCEPT !.status = "PROCESSING"], retryConfig,
                            timestamp)

executeAutoRetries(limit) ==
    LET batch == RetryBatch(limit)
    IN
    /\ ~paused
    /\ \E succeeded \in SUBSET batch :
          /\ \A m \in batch \ succeeded :
                ~RetryFailurePanics(pendingMessages[m], retryConfig)
          /\ completedMessages + Cardinality(succeeded) <= MaxCount
          /\ pendingMessages' = [m \in MsgIds |->
                IF m \in batch
                THEN AfterRetry(pendingMessages[m], m \in succeeded)
                ELSE pendingMessages[m]]
          /\ completedMessages' = completedMessages + Cardinality(succeeded)
    /\ attempts' = [m \in MsgIds |->
          IF m \in batch THEN attempts[m] + 1 ELSE attempts[m]]
    /\ lastAttempt' = [m \in MsgIds |->
          IF m \in batch THEN timestamp ELSE lastAttempt[m]]
    /\ UNCHANGED <<indexVars, configVars, paused, failedMessages,
                   timeoutMessages, recoveredMessages, timestamp, adminRetries>>

----------------------------------------------------------------------------
(* Administrators *)

forceRetry(m) ==
    /\ m \in Registered
    /\ CanRetry(pendingMessages[m], retryConfig)
    /\ RetryDelayFits(pendingMessages[m].retryCount, retryConfig)
    /\ pendingMessages' = [pendingMessages EXCEPT ![m] =
          scheduleRetry(pendingMessages[m], retryConfig, timestamp)]
    /\ UNCHANGED <<indexVars, configVars, paused, statsVars, timestamp,
                   historyVars>>

\* The guards of executeRecovery when `caller` makes the call.
MayRecover(caller, m, action, hashMatches) ==
    /\ caller \in RecoveryRole
    /\ m \in Registered
    /\ timestamp <= pendingMessages[m].createdAt + recoveryWindow
    /\ adminRecoveryEnabled
    /\ verifyRecovery(pendingMessages[m], action, hashMatches)

Recover(ids, action) ==
    /\ recoveredMessages + Cardinality(ids) <= MaxRecovered
    /\ pendingMessages' = [m \in MsgIds |->
          IF m \in ids
          THEN executeRecoveryAction(pendingMessages[m], action, timestamp)
          ELSE pendingMessages[m]]
    /\ recoveredMessages' = recoveredMessages + Cardinality(ids)
    /\ adminRetries' = [m \in MsgIds |->
          IF m \in ids /\ action = "RETRY" THEN adminRetries[m] + 1
                                           ELSE adminRetries[m]]
    /\ UNCHANGED <<indexVars, configVars, paused, completedMessages,
                   failedMessages, timeoutMessages, timestamp, attempts,
                   lastAttempt>>

executeRecovery(caller, m, action, hashMatches) ==
    /\ MayRecover(caller, m, action, hashMatches)
    /\ Recover({m}, action)

\* The messages a batch recovers.  Each turn of the loop is
\* `try this.executeRecovery(..., bytes32(0))`: the inner call's msg.sender is
\* the contract, and the zero hash never matches.  A batch holds 50 ids at most.
BatchRecovered(ids, action) ==
    {m \in ids : MayRecover(Self, m, action, FALSE)}

executeBatchRecovery(caller, ids, action) ==
    /\ caller \in RecoveryRole
    /\ adminRecoveryEnabled
    /\ ids # {}
    /\ Recover(BatchRecovered(ids, action), action)

emergencyRecovery(ids) ==
    LET affected ==
          {m \in ids \cap Registered : ~isStatusFinal(pendingMessages[m].status)}
    IN
    /\ ids # {}
    /\ Recover(affected, "MANUAL_RESOLVE")

emergencyClearMessages(ids) ==
    /\ pendingMessages' = [m \in MsgIds |->
          IF m \in ids THEN DeletedMessage ELSE pendingMessages[m]]
    /\ attempts' = [m \in MsgIds |-> IF m \in ids THEN 0 ELSE attempts[m]]
    /\ adminRetries' = [m \in MsgIds |-> IF m \in ids THEN 0 ELSE adminRetries[m]]
    /\ UNCHANGED <<indexVars, configVars, paused, statsVars, timestamp,
                   lastAttempt>>

updateRetryConfig(config) ==
    /\ config.maxRetries <= MaxRetriesLimit
    /\ config.baseDelay >= MinBaseDelay
    /\ config.maxDelay <= MaxDelayLimit
    /\ config.backoffMultiplier >= 1
    /\ retryConfig' = config
    /\ UNCHANGED <<pendingMessages, indexVars, timeoutConfig, autoRetryEnabled,
                   adminRecoveryEnabled, recoveryWindow, paused, statsVars,
                   timestamp, historyVars>>

updateTimeoutConfig(default, extended) ==
    /\ default >= MinTimeout
    /\ extended >= default
    /\ extended <= MaxTimeout
    /\ timeoutConfig' = [timeoutConfig EXCEPT !.defaultTimeout = default,
                                              !.extendedTimeout = extended]
    /\ UNCHANGED <<pendingMessages, indexVars, retryConfig, autoRetryEnabled,
                   adminRecoveryEnabled, recoveryWindow, paused, statsVars,
                   timestamp, historyVars>>

setChainTimeout(chain, timeout) ==
    /\ timeout \in MinTimeout .. MaxTimeout
    /\ timeoutConfig' =
          [timeoutConfig EXCEPT !.chainSpecificTimeouts[chain] = timeout]
    /\ UNCHANGED <<pendingMessages, indexVars, retryConfig, autoRetryEnabled,
                   adminRecoveryEnabled, recoveryWindow, paused, statsVars,
                   timestamp, historyVars>>

setAutoRetryEnabled(enabled) ==
    /\ autoRetryEnabled' = enabled
    /\ UNCHANGED <<pendingMessages, indexVars, retryConfig, timeoutConfig,
                   adminRecoveryEnabled, recoveryWindow, paused, statsVars,
                   timestamp, historyVars>>

setAdminRecoveryEnabled(enabled) ==
    /\ adminRecoveryEnabled' = enabled
    /\ UNCHANGED <<pendingMessages, indexVars, retryConfig, timeoutConfig,
                   autoRetryEnabled, recoveryWindow, paused, statsVars,
                   timestamp, historyVars>>

setRecoveryWindow(window) ==
    /\ window \in MinWindow .. MaxWindow
    /\ recoveryWindow' = window
    /\ UNCHANGED <<pendingMessages, indexVars, retryConfig, timeoutConfig,
                   autoRetryEnabled, adminRecoveryEnabled, paused, statsVars,
                   timestamp, historyVars>>

\* pause and unpause: each requires the other state.
setPaused(pausing) ==
    /\ paused # pausing
    /\ paused' = pausing
    /\ UNCHANGED <<pendingMessages, indexVars, configVars, statsVars, timestamp,
                   historyVars>>

Configure ==
    \/ \E c \in RetryConfigInputs : updateRetryConfig(c)
    \/ \E d, x \in TimeoutInputs : updateTimeoutConfig(d, x)
    \/ \E c \in Chains, t \in TimeoutInputs : setChainTimeout(c, t)
    \/ \E w \in WindowInputs : setRecoveryWindow(w)
    \/ \E b \in FlagInputs : \/ setAutoRetryEnabled(b)
                             \/ setAdminRecoveryEnabled(b)
                             \/ setPaused(b)

Next ==
    \/ Tick
    \/ \E m \in MsgIds :
          \/ \E u \in Users, c \in Chains : registerMessage(m, u, c)
          \/ markMessageCompleted(m)
          \/ \E b \in BOOLEAN : reportMessageError(m, b)
          \/ forceRetry(m)
          \/ \E a \in RecoveryRole, act \in RecoveryAction, b \in BOOLEAN :
                executeRecovery(a, m, act, b)
    \/ \E ids \in SUBSET MsgIds :
          \/ handleTimeouts(ids)
          \/ \E a \in RecoveryRole, act \in RecoveryAction :
                executeBatchRecovery(a, ids, act)
          \/ emergencyRecovery(ids)
          \/ emergencyClearMessages(ids)
    \/ \E limit \in 0 .. Cardinality(MsgIds) : executeAutoRetries(limit)
    \/ Configure

Spec == Init /\ [][Next]_vars

\* A keeper watches the messages: as long as a timeout check would change
\* something, one is made sooner or later.
FairSpec == Spec /\ WF_vars(handleTimeouts(MsgIds))

----------------------------------------------------------------------------
(* View functions *)

\* The ids getTimedOutMessages returns (their order is left out).  A deleted
\* record has createdAt = 0, so its id is among them when fromTime is 0.
getTimedOutMessages(fromTime, toTime) ==
    {m \in MsgIds :
        /\ \E i \in 1 .. Len(allMessageIds) : allMessageIds[i] = m
        /\ pendingMessages[m].createdAt \in fromTime .. toTime
        /\ isMessageTimedOut(pendingMessages[m], timestamp)}

\* getSystemStats panics when its pending count would be negative.
getSystemStatsReturns == completedMessages + failedMessages <= totalMessages

----------------------------------------------------------------------------
(* Properties *)

\* Every variable stays within its Solidity type.
TypeOK ==
    /\ pendingMessages \in [MsgIds -> PendingMessage]
    /\ userMessages \in [Users -> Seq(MsgIds)]
    /\ allMessageIds \in Seq(MsgIds)
    /\ retryConfig \in RetryConfig
    /\ timeoutConfig \in TimeoutConfig
    /\ autoRetryEnabled \in BOOLEAN
    /\ adminRecoveryEnabled \in BOOLEAN
    /\ recoveryWindow \in Nat
    /\ paused \in BOOLEAN
    /\ totalMessages \in Nat
    /\ completedMessages \in Nat
    /\ failedMessages \in Nat
    /\ timeoutMessages \in Nat
    /\ recoveredMessages \in Nat
    /\ timestamp \in Nat
    /\ attempts \in [MsgIds -> Nat]
    /\ lastAttempt \in [MsgIds -> Nat]
    /\ adminRetries \in [MsgIds -> Nat]

\* A scheduled retry: what executeAutoRetries will pick up once it is due.
Scheduled(m) ==
    /\ pendingMessages[m].status = "PENDING"
    /\ pendingMessages[m].retryCount > 0

\* No retry loop: whatever mix of error reports, timeouts, forced retries and
\* configuration changes a message meets, the retries executed for it never
\* exceed the retries scheduled for it plus those an administrator asked for,
\* and the former never exceed the limit updateRetryConfig enforces.
AttemptsWithinBudget ==
    \A m \in MsgIds :
        /\ attempts[m] <= pendingMessages[m].retryCount + adminRetries[m]
        /\ pendingMessages[m].retryCount <= MaxRetriesLimit

\* Back-off: a message due for a retry was last retried MIN_RETRY_DELAY ago or
\* more, on every path that can make it due (also after it was cleared and
\* registered again, or was completed and reopened).
AttemptSpacing ==
    \A m \in Ready :
        lastAttempt[m] > 0 => timestamp >= lastAttempt[m] + MIN_RETRY_DELAY

\* A scheduled retry is never further away than the longest delay an
\* administrator may configure.
RetryHorizon ==
    \A m \in MsgIds : Scheduled(m) =>
        pendingMessages[m].nextRetryAt <= timestamp + MaxDelayLimit

\* The keeper's scan of allMessageIds, with a limit that covers every message,
\* retries exactly the messages that are due; and every registered message
\* that timed out is in the list handed to handleTimeouts.
KeeperSeesDueMessages ==
    /\ RetryBatch(Cardinality(MsgIds)) = Ready
    /\ \A m \in Registered : isMessageTimedOut(pendingMessages[m], timestamp)
          => m \in getTimedOutMessages(0, timestamp)

\* Every completed message is counted: completedMessages, which
\* getSystemStats subtracts, is never below the messages now completed.
CompletionsCounted ==
    Cardinality({m \in MsgIds : pendingMessages[m].status = "COMPLETED"})
        <= completedMessages

\* A message an administrator cancelled or resolved is never scheduled again
\* by the step that follows, whoever makes it: it can only be completed,
\* reported failed or cleared.
SettledNotRescheduled ==
    [][\A m \in MsgIds :
          pendingMessages[m].status \in {"ADMIN_RESOLVED", "CANCELLED"} =>
             \/ pendingMessages'[m].status \in
                  {"ADMIN_RESOLVED", "CANCELLED", "COMPLETED", "FAILED"}
             \/ ~pendingMessages'[m].registered]_vars

\* Once a recovery gave a message up (isRecoverable is false) it stays given up,
\* and only an administrator brings it back.  Anyone may reopen it by reporting
\* an error, and a RETRY recovery, which does not look at isRecoverable, makes
\* a reopened one PENDING for the keepers; but nothing else does, and an
\* attempt leaves it no further one: each attempt takes a request of its own.
GivenUpRetriedOnRequest ==
    [][\A m \in MsgIds :
          (/\ pendingMessages[m].registered
           /\ ~pendingMessages[m].isRecoverable
           /\ pendingMessages'[m].registered) =>
             /\ ~pendingMessages'[m].isRecoverable
             /\ pendingMessages'[m].retryCount = pendingMessages[m].retryCount
             /\ (/\ pendingMessages[m].status # "PENDING"
                 /\ pendingMessages'[m].status = "PENDING")
                   => adminRetries'[m] = adminRetries[m] + 1
             /\ attempts'[m] > attempts[m]
                   => pendingMessages'[m].status # "PENDING"]_vars

\* Nothing more will happen to a message by itself: its status is final, its
\* automatic retries are used up or forbidden, or it was cleared.
AtRest(m) ==
    LET pm == pendingMessages[m]
    IN  \/ isStatusFinal(pm.status)
        \/ pm.status = "FAILED" /\ ~CanRetry(pm, retryConfig)
        \/ ~pm.registered

\* A message that timed out comes to rest, whatever is reported, retried or
\* recovered meanwhile: no mix of them holds it between two statuses, or
\* finds it a status that no timeout check ends.
TimedOutSettles ==
    \A m \in MsgIds :
        m \in Registered /\ isMessageTimedOut(pendingMessages[m], timestamp)
            ~> AtRest(m)

\* "Execute batch recovery for multiple messages": a batch recovers every
\* message its caller could recover alone with an action that needs no hash.
BatchRecoversMessages ==
    \A a \in RecoveryRole, m \in MsgIds, act \in RecoveryAction :
        MayRecover(a, m, act, FALSE) => m \in BatchRecovered({m}, act)
=============================================================================
