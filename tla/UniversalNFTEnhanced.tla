------------------------ MODULE UniversalNFTEnhanced ------------------------
(***************************************************************************)
(* The contract contracts/zetachain/UniversalNFTEnhanced.sol in the place  *)
(* of the plain one on ZetaChain: it marks the tokens it sends, keeps what *)
(* a recovery needs and has an ErrorRecoveryManager track its messages.    *)
(*                                                                         *)
(* The bridge is extended and the manager is an instance.  Others call all *)
(* of the manager that is open to everybody, its registration included,    *)
(* and its owner clears and pauses; its configuration and what recoveries  *)
(* change keep their initial values: ErrorRecoveryManager is checked by    *)
(* itself.  Likewise the steps of UniversalNFTBridge that pause, give      *)
(* tokens away, configure the Base contract or move its clock are left to  *)
(* that module.                                                            *)
(*                                                                         *)
(* messageToTokenId is always equal to burnedTokenBackup and left out, and *)
(* so is the contract's own call of handleTimeouts, whose list of messages *)
(* is always empty.  recoveries and foreign are history variables.         *)
(***************************************************************************)
EXTENDS UniversalNFTBridge, Sequences

CONSTANTS
    NoUser, MIN_RETRY_DELAY, MAX_UINT,            \* see ErrorHandling
    InitialRetryConfig, InitialTimeoutConfig,     \* see ErrorRecoveryManager
    InitialRecoveryWindow, MaxRetriesLimit, MaxDelayLimit,
    InitialInterval,         \* 1 hour
    MinInterval, MaxInterval,  \* 5 minutes and 24 hours
    IntervalInputs,          \* arguments of setAutoRetryInterval
    Destinations,            \* chains users send to
    ReportInputs,            \* shouldRetry of the errors others report
    ForeignIds,              \* ids others register with the manager
    MaxNonces, MaxRecoveries, \* bounds: transfers of a user, recoveries,
    MaxOpenCalls             \* calls that others make to the manager

ASSUME UniversalNFTEnhancedAssumption ==
    /\ {InitialInterval, MinInterval, MaxInterval, MaxNonces, MaxRecoveries,
        MaxOpenCalls} \subseteq Nat
    /\ IntervalInputs \subseteq Nat
    /\ Destinations \subseteq EvmChains \cup {Solana}
    /\ ReportInputs \subseteq BOOLEAN

VARIABLES
    tokenInTransfer,        \* the tokens marked
    burnedTokenBackup,      \* zero for the ids it lacks
    monitoringEnabled, autoRetryInterval, lastAutoRetryRun,
    pendingMessages, userMessages, allMessageIds, totalMessages,
    completedMessages, failedMessages, attempts, lastAttempt,
    managerPaused,
    recoveries, \* history: calls of adminRecoverToken, and whether
                \* the NFT was lost by then
    foreign,    \* history: the registered ids that others registered
    openCalls   \* bound: the calls others made to the manager

bridgeVars  == <<contracts, zetaChainUniversalNFT, calls, clock, mintedOn, reverted>>
backupVars  == <<tokenInTransfer, burnedTokenBackup, recoveries>>
keeperVars  == <<monitoringEnabled, autoRetryInterval, lastAutoRetryRun>>
historyVars == <<foreign, openCalls>>
managerVars == <<pendingMessages, userMessages, allMessageIds, totalMessages,
                 completedMessages, failedMessages, attempts, lastAttempt,
                 managerPaused, historyVars>>
enhancedVars == <<bridgeVars, backupVars, keeperVars, managerVars>>

\* The ids this contract can generate within the bounds.
MsgIds ==
    Users \X (0 .. MaxTokens - 1) \X ({Base, Solana} \cap Destinations)
          \X (0 .. MaxNonces - 1) \X (1 .. MaxTime)

\* The settings of the manager, which stay as its constructor set them.
settings ==
    [autoRetryEnabled |-> TRUE, adminRecoveryEnabled |-> TRUE,
     recoveryWindow |-> InitialRecoveryWindow]

Manager == INSTANCE ErrorRecoveryManager WITH
    Chains <- {Base, Solana},
    RecoveryRole <- {}, Self <- Nobody,
    RetryConfigInputs <- {}, TimeoutInputs <- {}, WindowInputs <- {},
    FlagInputs <- {},
    MinBaseDelay <- 1, MinTimeout <- 0, MaxTimeout <- MaxTime,
    MinWindow <- 0, MaxWindow <- MaxTime,
    MaxRegistrations <- Cardinality(MsgIds) + MaxOpenCalls,
    MaxCount <- Cardinality(MsgIds) + MaxOpenCalls, MaxRecovered <- 0,
    retryConfig <- InitialRetryConfig, timeoutConfig <- InitialTimeoutConfig,
    autoRetryEnabled <- settings.autoRetryEnabled,
    adminRecoveryEnabled <- settings.adminRecoveryEnabled,
    recoveryWindow <- settings.recoveryWindow,
    paused <- managerPaused, timestamp <- clock[ZetaChain],
    timeoutMessages <- 0, recoveredMessages <- 0,
    adminRetries <- [m \in MsgIds |-> 0]

ASSUME ManagerConfigAssumption ==
    /\ {MIN_RETRY_DELAY, MAX_UINT} \subseteq Nat
    /\ ForeignIds \subseteq MsgIds
    /\ InitialRetryConfig \in Manager!RetryConfig
    /\ InitialTimeoutConfig \in Manager!TimeoutConfig

EnhancedInit ==
    /\ Init
    /\ Manager!Init
    /\ tokenInTransfer = {}
    /\ burnedTokenBackup = [m \in MsgIds |-> 0]
    /\ monitoringEnabled = TRUE
    /\ autoRetryInterval = InitialInterval
    /\ lastAutoRetryRun = 0
    /\ recoveries = <<>>
    /\ foreign = {}
    /\ openCalls = 0

----------------------------------------------------------------------------
(* Transfers *)

\* Mutant: the id is made from the nonce after its increment.
registerLateNonce(message, sender) ==
    LET id == generateMessageId(sender, message.tokenId, message.destinationChain,
                                message.nonce + 1, message.timestamp)
    IN  IF monitoringEnabled /\ ~managerPaused /\ id \in MsgIds \ Manager!Registered
        THEN /\ Manager!registerMessage(id, sender, message.destinationChain)
             /\ UNCHANGED historyVars
        ELSE UNCHANGED managerVars

\* A registration that fails is caught and the transfer goes on untracked.
register(message, sender) ==
    IF /\ monitoringEnabled /\ ~managerPaused
       /\ message.messageId \notin Manager!Registered
    THEN /\ Manager!registerMessage(message.messageId, sender,
                                    message.destinationChain)
         /\ UNCHANGED historyVars
    ELSE UNCHANGED managerVars

\* A send that fails undoes everything, also the restoration and the error
\* report its handlers make before they revert themselves.
burnAndTransferEnhanced(tokenId, destinationChain, recipient) ==
    LET contract == contracts[ZetaChain]
        message  == transferMessage(contract, tokenId, destinationChain,
                                    recipient, clock[ZetaChain])
    IN  /\ tokenId \notin tokenInTransfer
        /\ zetaBurnAndTransfer(tokenId, destinationChain, recipient)
        /\ message.messageId \in MsgIds
        /\ register(message, contract.tokens[tokenId].owner)
        /\ tokenInTransfer' = tokenInTransfer \cup {tokenId}
        /\ burnedTokenBackup' =
              [burnedTokenBackup EXCEPT ![message.messageId] = tokenId]
        /\ UNCHANGED <<recoveries, keeperVars>>

\* A completion that fails, as for a message this manager never registered, is
\* caught.  The error report of a refused message is undone with the call.
onCall(call) ==
    LET m == call.message.messageId
    IN  /\ zetaOnCall(call)
        /\ IF /\ monitoringEnabled
              /\ m \in Manager!Registered
              /\ pendingMessages[m].status # "COMPLETED"
           THEN Manager!markMessageCompleted(m) /\ UNCHANGED historyVars
           ELSE UNCHANGED managerVars
        /\ UNCHANGED <<backupVars, keeperVars>>

\* The revert message is the ABI encoding of a string.  _parseRevertMessage
\* takes its first word, the offset 0x20, for the id: it has no backup, and
\* nothing is restored.
onRevert(call) ==
    /\ zetaOnRevert(call)
    /\ UNCHANGED <<backupVars, keeperVars, managerVars>>

----------------------------------------------------------------------------
(* Keepers and the owner *)

runAutoRetry ==
    /\ clock[ZetaChain] >= lastAutoRetryRun + autoRetryInterval
    /\ lastAutoRetryRun' = clock[ZetaChain]
    /\ UNCHANGED <<bridgeVars, backupVars, monitoringEnabled, autoRetryInterval>>
    /\ IF monitoringEnabled /\ ~managerPaused
       THEN Manager!executeAutoRetries(20) /\ UNCHANGED historyVars
       ELSE UNCHANGED managerVars

setMonitoringEnabled(enabled) ==
    /\ monitoringEnabled' = enabled
    /\ UNCHANGED <<bridgeVars, backupVars, managerVars, autoRetryInterval,
                   lastAutoRetryRun>>

setAutoRetryInterval(interval) ==
    /\ interval \in MinInterval .. MaxInterval
    /\ autoRetryInterval' = interval
    /\ UNCHANGED <<bridgeVars, backupVars, managerVars, monitoringEnabled,
                   lastAutoRetryRun>>

\* The NFT a marked token was: the owner passes its metadata.
burnedNft(tokenId) ==
    CHOOSE n \in Nfts : \E call \in calls \cup reverted :
        /\ call.from = ZetaChain
        /\ call.message.tokenId = tokenId
        /\ call.message.metadataUri = n

\* Mutant: the message keeps its backup.
backupAfterRecoveryKept(m) == burnedTokenBackup

backupAfterRecovery(m) == [burnedTokenBackup EXCEPT ![m] = 0]

\* The token returns without an origin: tokenOrigins was deleted by the burn.
adminRecoverToken(m, tokenId, originalOwner) ==
    LET n == burnedNft(tokenId)
        lost == LiveTokens(n) = {} /\ InFlight(n) = {}
    IN  /\ tokenId \in tokenInTransfer
        /\ burnedTokenBackup[m] = tokenId
        /\ ~contracts[ZetaChain].paused
        /\ tokenId \notin DOMAIN contracts[ZetaChain].tokens
        /\ Len(recoveries) < MaxRecoveries
        /\ Update(ZetaChain, [contracts[ZetaChain] EXCEPT !.tokens =
               [t \in DOMAIN @ \cup {tokenId} |->
                   IF t = tokenId THEN mintedHere(originalOwner, n, NoChain)
                                  ELSE @[t]]])
        /\ tokenInTransfer' = tokenInTransfer \ {tokenId}
        /\ burnedTokenBackup' = backupAfterRecovery(m)
        /\ recoveries' = Append(recoveries, [nft |-> n, lost |-> lost])
        /\ UNCHANGED <<zetaChainUniversalNFT, calls, clock, mintedOn, reverted,
                       keeperVars, managerVars>>

----------------------------------------------------------------------------
(* Calls others make to the manager *)

\* What anyone may call.  registerMessage takes any id and any sender.
openCall ==
    \/ \E m \in ForeignIds, u \in Users, c \in {Base, Solana} :
          /\ Manager!registerMessage(m, u, c)
          /\ foreign' = foreign \cup {m}
    \/ \E m \in Manager!Registered :
          /\ \/ \E shouldRetry \in ReportInputs :
                   Manager!reportMessageError(m, shouldRetry)
             \/ Manager!markMessageCompleted(m)
             \/ Manager!handleTimeouts({m})
          /\ UNCHANGED foreign
    \/ Manager!executeAutoRetries(1) /\ UNCHANGED foreign

ownerCall ==
    \/ \E m \in Manager!Registered :
          Manager!emergencyClearMessages({m}) /\ foreign' = foreign \ {m}
    \/ \E b \in BOOLEAN : Manager!setPaused(b) /\ UNCHANGED foreign

managerCall ==
    /\ UNCHANGED <<bridgeVars, backupVars, keeperVars>>
    /\ \/ openCalls < MaxOpenCalls /\ openCall /\ openCalls' = openCalls + 1
       \/ ownerCall /\ UNCHANGED openCalls

\* What this contract inherits, and its environment.
Inherited ==
    /\ \/ Tick(ZetaChain)
       \/ \E u \in Users, n \in Nfts : zetaMint(u, n) \/ baseMint(u, n)
       \/ \E t \in 0 .. MaxTokens - 1, d \in Destinations :
             \E r \in RecipientsOn(d) :
                zetaBurnAndTransfer(t, d, r) \/ baseBurnAndTransfer(t, d, r)
       \/ \E call \in calls : baseOnCall(call) \/ baseOnRevert(call)
    /\ UNCHANGED <<backupVars, keeperVars, managerVars>>

EnhancedNext ==
    \/ Inherited
    \/ \E t \in 0 .. MaxTokens - 1, d \in Destinations :
          \E r \in RecipientsOn(d) : burnAndTransferEnhanced(t, d, r)
    \/ \E call \in calls : onCall(call) \/ onRevert(call)
    \/ runAutoRetry
    \/ \E b \in BOOLEAN : setMonitoringEnabled(b)
    \/ \E i \in IntervalInputs : setAutoRetryInterval(i)
    \/ \E m \in MsgIds, t \in tokenInTransfer, u \in Users :
          adminRecoverToken(m, t, u)
    \/ managerCall

EnhancedSpec == EnhancedInit /\ [][EnhancedNext]_enhancedVars

----------------------------------------------------------------------------
(* Properties *)

\* Every variable stays within its type; a recovered token has no origin.
EnhancedTypeOK ==
    /\ \A c \in EvmChains : \A t \in DOMAIN contracts[c].tokens :
          /\ t \in 0 .. contracts[c].tokenIdCounter - 1
          /\ contracts[c].tokens[t].originChain \in EvmChains \cup {NoChain}
    /\ pendingMessages \in [MsgIds -> Manager!PendingMessage]
    /\ tokenInTransfer \subseteq 0 .. MaxTokens - 1
    /\ burnedTokenBackup \in [MsgIds -> 0 .. MaxTokens - 1]
    /\ monitoringEnabled \in BOOLEAN
    /\ autoRetryInterval \in Nat /\ lastAutoRetryRun \in Nat
    /\ recoveries \in Seq([nft : Nfts, lost : BOOLEAN])

RecoveriesOf(n, lost) ==
    {i \in DOMAIN recoveries : recoveries[i].nft = n /\ recoveries[i].lost \in lost}

\* Only adminRecoverToken makes a second copy of an NFT, one each time the
\* owner uses it before the NFT was lost; retries and error reports make none,
\* and a recovery after the loss restores the only copy.
CopiesBounded ==
    \A n \in Nfts :
        Cardinality(LiveTokens(n)) + Cardinality(InFlight(n))
            <= 1 + Cardinality(RecoveriesOf(n, {FALSE}))

\* "Preserve provenance": whatever is sent, recovered and sent again, a copy
\* names the chain of the NFT's mint or none, and none only after a recovery.
OriginKeptOrErased ==
    \A n \in Nfts :
        LET origins ==
              {contracts[ct[1]].tokens[ct[2]].originChain : ct \in LiveTokens(n)}
                \cup {call.message.originChain : call \in InFlight(n)}
        IN  \A o \in origins :
               \/ o = mintedOn[n]
               \/ o = NoChain /\ RecoveriesOf(n, BOOLEAN) # {}

\* A mark and a backup together are worth one recovery: a marked token is
\* burned, and but for token 0, which every id without a backup names, exactly
\* the marked tokens have a backup, each under one message.
RecoverableOnce ==
    /\ tokenInTransfer \cap DOMAIN contracts[ZetaChain].tokens = {}
    /\ \A t \in 1 .. MaxTokens - 1 :
          Cardinality({m \in MsgIds : burnedTokenBackup[m] = t})
              = IF t \in tokenInTransfer THEN 1 ELSE 0

\* Anyone may register anything with the manager, but no one in the place of
\* what this contract registered: whatever others register, report, complete
\* or retry, a record not of theirs names a message this contract sent, under
\* the user who burned the token, from the block of the burn.
RecordsMatchMessages ==
    \A m \in Manager!Registered \ foreign :
        \E call \in calls \cup reverted :
            /\ call.from = ZetaChain
            /\ call.message.messageId = m
            /\ pendingMessages[m].originalSender = m[1]
            /\ pendingMessages[m].createdAt = call.message.timestamp

\* A transfer with monitoring on is registered, unless the manager is paused
\* or a stranger, who can compute the id beforehand, has registered it: the
\* contract catches the refusal and the stranger's record is all there is.
\* The id is never one the manager knows from an earlier transfer of the
\* contract's own, even of a token that was recovered since.
MonitoredTransfersTracked ==
    [][\A t \in tokenInTransfer' \ tokenInTransfer :
          (monitoringEnabled /\ ~managerPaused) =>
             \E call \in calls' :
                LET owner == contracts[ZetaChain].tokens[t].owner
                    m     == call.message.messageId
                IN  /\ call.from = ZetaChain /\ call.message.tokenId = t
                    /\ m[1] = owner
                    /\ call.message.nonce = contracts[ZetaChain].userNonces[owner]
                    /\ pendingMessages'[m].registered
                    /\ ~pendingMessages[m].registered \/ m \in foreign]_enhancedVars

----------------------------------------------------------------------------
(* What the comments say and the code does not do *)

\* "Handle transfer revert with automatic token restoration": the marked token
\* of a call that is reverted lives again.
RevertRestores ==
    [][\A call \in reverted' \ reverted :
          (call.from = ZetaChain /\ call.message.tokenId \in tokenInTransfer) =>
             call.message.tokenId \in DOMAIN contracts'[ZetaChain].tokens]_enhancedVars
============================================================================
