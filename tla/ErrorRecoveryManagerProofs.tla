--------------------- MODULE ErrorRecoveryManagerProofs ---------------------
(***************************************************************************)
(* Theorems about ErrorRecoveryManager, for every set of messages, every   *)
(* administrator input and every value of the limits.  The argument goes   *)
(* record by record: RecordInv relates one message's record to its history *)
(* and to the block timestamp, a lemma per library function shows that the *)
(* function preserves it, and one step per action lifts that to all        *)
(* messages.                                                               *)
(***************************************************************************)
EXTENDS ErrorRecoveryManager, FiniteSetTheorems, TLAPS

----------------------------------------------------------------------------
(* What the library functions do to one record *)

\* calculateRetryDelay: whatever the back-off computes, the delay is between
\* the floor and the longest delay an administrator may configure.
LEMMA RetryDelayBounds ==
    ASSUME NEW n \in Nat, NEW config \in RetryConfig,
           RetryDelayFits(n, config),
           config.maxDelay <= MaxDelayLimit
    PROVE  /\ calculateRetryDelay(n, config) \in Nat
           /\ MIN_RETRY_DELAY <= calculateRetryDelay(n, config)
           /\ calculateRetryDelay(n, config) <= MaxDelayLimit
<1> DEFINE raw == RawRetryDelay(n, config)
<1>1. raw \in Nat
  BY ErrorHandlingAssumption DEF RetryDelayFits
<1>2. config.maxDelay \in Nat
  BY DEF RetryConfig
<1>3. MIN_RETRY_DELAY \in Nat /\ MaxDelayLimit \in Nat
      /\ MIN_RETRY_DELAY <= MaxDelayLimit
  BY ErrorHandlingAssumption, ErrorRecoveryManagerAssumption
<1>4. calculateRetryDelay(n, config) =
        LET capped == IF raw > config.maxDelay THEN config.maxDelay ELSE raw
        IN  IF capped < MIN_RETRY_DELAY THEN MIN_RETRY_DELAY ELSE capped
  BY DEF calculateRetryDelay
<1> HIDE DEF raw
<1> QED
  BY <1>1, <1>2, <1>3, <1>4

\* What a step must maintain for one message: pm is its record, att, last and
\* adm its history, now the block timestamp.
RecordInv(pm, att, last, adm, now) ==
    /\ last <= now
    /\ pm.retryCount <= MaxRetriesLimit
    /\ att <= pm.retryCount + adm
    /\ ~pm.registered => pm.retryCount = 0 /\ att = 0
    /\ (pm.status = "PENDING" /\ pm.retryCount > 0) =>
          /\ last + MIN_RETRY_DELAY <= pm.nextRetryAt
          /\ pm.nextRetryAt <= now + MaxDelayLimit
          /\ att + 1 <= pm.retryCount + adm

\* A record and its history, typed and related by RecordInv.
GoodRecord(pm, att, last, adm, now) ==
    /\ pm \in PendingMessage
    /\ att \in Nat /\ last \in Nat /\ adm \in Nat
    /\ RecordInv(pm, att, last, adm, now)

\* The configurations updateRetryConfig accepts.
GoodConfig(config) ==
    /\ config \in RetryConfig
    /\ config.maxRetries <= MaxRetriesLimit
    /\ config.maxDelay <= MaxDelayLimit

LEMMA Limits ==
    /\ MIN_RETRY_DELAY \in Nat /\ MIN_RETRY_DELAY > 0
    /\ MaxDelayLimit \in Nat /\ MaxRetriesLimit \in Nat
    /\ MIN_RETRY_DELAY <= MaxDelayLimit
  BY ErrorHandlingAssumption, ErrorRecoveryManagerAssumption

LEMMA DeletedIsGood ==
    ASSUME NEW last \in Nat, NEW now \in Nat, last <= now
    PROVE  GoodRecord(DeletedMessage, 0, last, 0, now)
  BY Limits DEF GoodRecord, RecordInv, DeletedMessage, PendingMessage,
                MessageStatus

LEMMA CreatedIsGood ==
    ASSUME NEW pm, NEW att, NEW last, NEW adm, NEW now \in Nat,
           GoodRecord(pm, att, last, adm, now), ~pm.registered,
           NEW sender \in Users, NEW timeout \in Nat
    PROVE  GoodRecord(createPendingMessage(sender, timeout, now),
                      att, last, adm, now)
  BY Limits DEF GoodRecord, RecordInv, createPendingMessage, PendingMessage,
                MessageStatus

\* A block passes.
LEMMA TickIsGood ==
    ASSUME NEW pm, NEW att, NEW last, NEW adm, NEW now \in Nat,
           GoodRecord(pm, att, last, adm, now)
    PROVE  GoodRecord(pm, att, last, adm, now + 1)
  BY Limits DEF GoodRecord, RecordInv, PendingMessage

\* Leaving PENDING unschedules the message.
LEMMA UnscheduleIsGood ==
    ASSUME NEW pm, NEW att, NEW last, NEW adm, NEW now \in Nat,
           GoodRecord(pm, att, last, adm, now),
           NEW status \in MessageStatus \ {"PENDING"}
    PROVE  GoodRecord([pm EXCEPT !.status = status], att, last, adm, now)
  BY Limits DEF GoodRecord, RecordInv, PendingMessage

LEMMA ScheduleIsGood ==
    ASSUME NEW pm, NEW att, NEW last, NEW adm, NEW now \in Nat,
           GoodRecord(pm, att, last, adm, now), pm.registered,
           NEW config, GoodConfig(config),
           CanRetry(pm, config), RetryDelayFits(pm.retryCount, config)
    PROVE  /\ GoodRecord(scheduleRetry(pm, config, now), att, last, adm, now)
           /\ scheduleRetry(pm, config, now).nextRetryAt >= now + MIN_RETRY_DELAY
           /\ scheduleRetry(pm, config, now).isRecoverable = pm.isRecoverable
           /\ scheduleRetry(pm, config, now).registered
<1> DEFINE delay == calculateRetryDelay(pm.retryCount, config)
<1>1. pm \in PendingMessage /\ pm.retryCount \in Nat
  BY DEF GoodRecord, PendingMessage
<1>2. delay \in Nat /\ MIN_RETRY_DELAY <= delay /\ delay <= MaxDelayLimit
  BY <1>1, RetryDelayBounds DEF GoodConfig
<1>3. config.maxRetries \in Nat /\ config.maxRetries <= MaxRetriesLimit
  BY DEF GoodConfig, RetryConfig
<1>4. scheduleRetry(pm, config, now) =
        [pm EXCEPT !.nextRetryAt = now + delay,
                   !.retryCount  = pm.retryCount + 1,
                   !.status      = "PENDING"]
  BY DEF scheduleRetry
<1> HIDE DEF delay
<1>5. scheduleRetry(pm, config, now) \in PendingMessage
  <2>1. now + delay \in Nat /\ pm.retryCount + 1 \in Nat
    BY <1>1, <1>2
  <2> QED
    BY <1>1, <1>4, <2>1 DEF PendingMessage, MessageStatus
<1> DEFINE s == scheduleRetry(pm, config, now)
<1>6. /\ s.nextRetryAt = now + delay
      /\ s.retryCount = pm.retryCount + 1
      /\ s.isRecoverable = pm.isRecoverable
      /\ s.registered = pm.registered
  BY <1>1, <1>4 DEF PendingMessage
<1>7. pm.retryCount + 1 <= MaxRetriesLimit
  BY <1>1, <1>3, Limits DEF CanRetry
<1> HIDE DEF s
<1>8. RecordInv(s, att, last, adm, now)
  <2>1. att \in Nat /\ last \in Nat /\ adm \in Nat /\ last <= now
        /\ att <= pm.retryCount + adm
    BY DEF GoodRecord, RecordInv
  <2> QED
    BY <1>1, <1>2, <1>6, <1>7, <2>1, Limits DEF RecordInv
<1>9. s \in PendingMessage
  BY <1>5 DEF s
<1>10. GoodRecord(s, att, last, adm, now)
  BY <1>8, <1>9 DEF GoodRecord
<1>11. s.nextRetryAt >= now + MIN_RETRY_DELAY
  BY <1>2, <1>6, Limits
<1> QED
  BY <1>6, <1>10, <1>11 DEF s

\* The failure of one retry, or an error reported with shouldRetry.
LEMMA RetryFailureIsGood ==
    ASSUME NEW pm, NEW att, NEW last, NEW adm, NEW now \in Nat,
           GoodRecord(pm, att, last, adm, now), pm.registered,
           NEW config, GoodConfig(config),
           ~RetryFailurePanics(pm, config)
    PROVE  GoodRecord(handleRetryFailure(pm, config, now), att, last, adm, now)
<1>1. CASE CanRetry(pm, config)
  BY <1>1, ScheduleIsGood DEF handleRetryFailure, RetryFailurePanics
<1>2. CASE ~CanRetry(pm, config)
  BY <1>2, UnscheduleIsGood DEF handleRetryFailure, MessageStatus
<1> QED
  BY <1>1, <1>2

\* One turn of handleTimeouts.
LEMMA TimeoutCheckIsGood ==
    ASSUME NEW pm, NEW att, NEW last, NEW adm, timestamp \in Nat,
           GoodRecord(pm, att, last, adm, timestamp), pm.registered,
           GoodConfig(retryConfig),
           ShouldRetryTimeout(pm, retryConfig, timestamp)
              => RetryDelayFits(pm.retryCount, retryConfig)
    PROVE  GoodRecord(AfterTimeoutCheck(pm), att, last, adm, timestamp)
<1>1. CASE ShouldRetryTimeout(pm, retryConfig, timestamp)
  <2> DEFINE checked == [pm EXCEPT !.status = "TIMEOUT"]
  <2>1. AfterTimeoutCheck(pm) = scheduleRetry(checked, retryConfig, timestamp)
    BY <1>1 DEF AfterTimeoutCheck, handleMessageTimeout, ShouldRetryTimeout
  <2>2. GoodRecord(checked, att, last, adm, timestamp)
    BY UnscheduleIsGood DEF MessageStatus
  <2>3. /\ checked.registered = pm.registered
        /\ checked.retryCount = pm.retryCount
        /\ checked.isRecoverable = pm.isRecoverable
    BY DEF GoodRecord, PendingMessage
  <2> HIDE DEF checked
  <2>4. CanRetry(checked, retryConfig)
    BY <1>1, <2>3 DEF ShouldRetryTimeout, CanRetry
  <2> QED
    BY <1>1, <2>1, <2>2, <2>3, <2>4, ScheduleIsGood
<1>2. CASE ~ShouldRetryTimeout(pm, retryConfig, timestamp)
  <2>1. AfterTimeoutCheck(pm) \in {pm, [pm EXCEPT !.status = "FAILED"]}
    BY <1>2 DEF AfterTimeoutCheck, handleMessageTimeout, ShouldRetryTimeout
  <2> QED
    BY <2>1, UnscheduleIsGood DEF MessageStatus
<1> QED
  BY <1>1, <1>2

\* A ready message was scheduled, so it has an attempt left to make.
LEMMA AttemptIsGood ==
    ASSUME NEW pm, NEW att, NEW last, NEW adm, NEW now \in Nat,
           GoodRecord(pm, att, last, adm, now), isReadyForRetry(pm, now),
           NEW status \in MessageStatus \ {"PENDING"}
    PROVE  /\ GoodRecord([pm EXCEPT !.status = status], att + 1, now, adm, now)
           /\ pm.registered
  BY Limits DEF GoodRecord, RecordInv, PendingMessage, isReadyForRetry

LEMMA RetryIsGood ==
    ASSUME NEW pm, NEW att, NEW last, NEW adm, timestamp \in Nat,
           GoodRecord(pm, att, last, adm, timestamp), GoodConfig(retryConfig),
           isReadyForRetry(pm, timestamp), NEW success \in BOOLEAN,
           ~success => ~RetryFailurePanics(pm, retryConfig)
    PROVE  GoodRecord(AfterRetry(pm, success), att + 1, timestamp, adm, timestamp)
<1>1. CASE success
  BY <1>1, AttemptIsGood DEF AfterRetry, MessageStatus
<1>2. CASE ~success
  <2> DEFINE processing == [pm EXCEPT !.status = "PROCESSING"]
  <2>1. GoodRecord(processing, att + 1, timestamp, adm, timestamp)
        /\ pm.registered
    BY AttemptIsGood DEF MessageStatus
  <2>2. /\ processing.registered = pm.registered
        /\ processing.retryCount = pm.retryCount
        /\ processing.isRecoverable = pm.isRecoverable
    BY DEF GoodRecord, PendingMessage
  <2>3. AfterRetry(pm, success)
          = handleRetryFailure(processing, retryConfig, timestamp)
    BY <1>2 DEF AfterRetry
  <2> HIDE DEF processing
  <2>4. ~RetryFailurePanics(processing, retryConfig)
    BY <1>2, <2>2 DEF RetryFailurePanics, CanRetry
  <2> QED
    BY <2>1, <2>2, <2>3, <2>4, RetryFailureIsGood
<1> QED
  BY <1>1, <1>2

\* _executeRetry never leaves a message ready in the block it ran in: why
\* RetryBatch may count an id that allMessageIds holds twice only once.
LEMMA NotReadyAfterRetry ==
    ASSUME NEW pm, NEW att, NEW last, NEW adm, timestamp \in Nat,
           GoodRecord(pm, att, last, adm, timestamp), GoodConfig(retryConfig),
           isReadyForRetry(pm, timestamp), NEW success \in BOOLEAN,
           ~success => ~RetryFailurePanics(pm, retryConfig)
    PROVE  ~isReadyForRetry(AfterRetry(pm, success), timestamp)
<1> DEFINE after == AfterRetry(pm, success)
<1>1. GoodRecord(after, att + 1, timestamp, adm, timestamp)
  BY RetryIsGood
<1> HIDE DEF after
<1>2. (after.status = "PENDING" /\ after.retryCount > 0) =>
        timestamp + MIN_RETRY_DELAY <= after.nextRetryAt
  BY <1>1 DEF GoodRecord, RecordInv
<1>3. after.nextRetryAt \in Nat
  BY <1>1 DEF GoodRecord, PendingMessage
<1>4. ~isReadyForRetry(after, timestamp)
  BY <1>2, <1>3, Limits DEF isReadyForRetry
<1> QED
  BY <1>4 DEF after

\* An administrator's RETRY raises the budget by one; every other action
\* unschedules the message.
LEMMA RecoveryIsGood ==
    ASSUME NEW pm, NEW att, NEW last, NEW adm, NEW now \in Nat,
           GoodRecord(pm, att, last, adm, now), pm.registered,
           NEW action \in RecoveryAction
    PROVE  GoodRecord(executeRecoveryAction(pm, action, now), att, last,
                      IF action = "RETRY" THEN adm + 1 ELSE adm, now)
<1>1. CASE action = "RETRY"
  <2> DEFINE after == [pm EXCEPT !.status      = "PENDING",
                                 !.nextRetryAt = now + MIN_RETRY_DELAY]
  <2>1. executeRecoveryAction(pm, action, now) = after
    BY <1>1 DEF executeRecoveryAction
  <2>2. pm \in PendingMessage /\ now + MIN_RETRY_DELAY \in Nat
    BY Limits DEF GoodRecord
  <2>3. /\ after \in PendingMessage
        /\ after.registered = pm.registered
        /\ after.retryCount = pm.retryCount
        /\ after.nextRetryAt = now + MIN_RETRY_DELAY
    BY <2>2 DEF PendingMessage, MessageStatus
  <2> HIDE DEF after
  <2>4. GoodRecord(after, att, last, adm + 1, now)
    BY <2>2, <2>3, Limits DEF GoodRecord, RecordInv, PendingMessage
  <2> QED
    BY <1>1, <2>1, <2>4
<1>2. CASE action # "RETRY"
  <2>1. PICK status \in {"ADMIN_RESOLVED", "CANCELLED"} :
           executeRecoveryAction(pm, action, now) =
              [pm EXCEPT !.status = status, !.isRecoverable = FALSE]
    BY <1>2 DEF executeRecoveryAction, RecoveryAction
  <2>2. [pm EXCEPT !.status = status, !.isRecoverable = FALSE] \in PendingMessage
    BY DEF GoodRecord, PendingMessage, MessageStatus
  <2>3. GoodRecord([pm EXCEPT !.status = status, !.isRecoverable = FALSE],
                   att, last, adm, now)
    BY <2>2, Limits DEF GoodRecord, RecordInv, PendingMessage
  <2> QED
    BY <1>2, <2>1, <2>3
<1> QED
  BY <1>1, <1>2

----------------------------------------------------------------------------
(* The inductive invariant *)

RecordsOK ==
    /\ pendingMessages \in [MsgIds -> PendingMessage]
    /\ attempts \in [MsgIds -> Nat]
    /\ lastAttempt \in [MsgIds -> Nat]
    /\ adminRetries \in [MsgIds -> Nat]
    /\ timestamp \in Nat
    /\ \A m \in MsgIds : GoodRecord(pendingMessages[m], attempts[m],
                                  lastAttempt[m], adminRetries[m], timestamp)

CountersOK ==
    /\ totalMessages \in Nat
    /\ completedMessages \in Nat
    /\ failedMessages \in Nat
    /\ timeoutMessages \in Nat
    /\ recoveredMessages \in Nat

ListsOK ==
    /\ userMessages \in [Users -> Seq(MsgIds)]
    /\ allMessageIds \in Seq(MsgIds)

SettingsOK ==
    /\ GoodConfig(retryConfig)
    /\ timeoutConfig \in TimeoutConfig
    /\ autoRetryEnabled \in BOOLEAN
    /\ adminRecoveryEnabled \in BOOLEAN
    /\ recoveryWindow \in Nat
    /\ paused \in BOOLEAN

IInv == RecordsOK /\ CountersOK /\ ListsOK /\ SettingsOK

LEMMA IInvInit == Init => IInv
<1> SUFFICES ASSUME Init PROVE IInv
  OBVIOUS
<1>1. RecordsOK
  <2>1. /\ pendingMessages = [m \in MsgIds |-> DeletedMessage]
        /\ attempts = [m \in MsgIds |-> 0]
        /\ lastAttempt = [m \in MsgIds |-> 0]
        /\ adminRetries = [m \in MsgIds |-> 0]
        /\ timestamp = 1
    BY DEF Init
  <2>2. GoodRecord(DeletedMessage, 0, 0, 0, 1)
    BY DeletedIsGood
  <2>3. DeletedMessage \in PendingMessage
    BY <2>2 DEF GoodRecord
  <2> QED
    BY <2>1, <2>2, <2>3 DEF RecordsOK
<1>2. CountersOK
  BY DEF Init, CountersOK
<1>3. ListsOK
  BY DEF Init, ListsOK
<1>4. SettingsOK
  BY ErrorRecoveryManagerAssumption DEF Init, SettingsOK, GoodConfig
<1> QED
  BY <1>1, <1>2, <1>3, <1>4 DEF IInv

\* A step that replaces one record by a good one.
LEMMA OneRecordStep ==
    ASSUME RecordsOK, NEW m \in MsgIds, NEW pm,
           GoodRecord(pm, attempts[m], lastAttempt[m], adminRetries[m], timestamp),
           pendingMessages' = [pendingMessages EXCEPT ![m] = pm],
           UNCHANGED <<timestamp, historyVars>>
    PROVE  RecordsOK'
<1>1. pm \in PendingMessage
  BY DEF GoodRecord
<1> QED
  BY <1>1 DEF RecordsOK, historyVars

\* A step that leaves every record good, given by what it does to each.
LEMMA AllRecordsStep ==
    ASSUME NEW pending, NEW att, NEW last, NEW adm, timestamp' \in Nat,
           pendingMessages' = [m \in MsgIds |-> pending[m]],
           attempts' = [m \in MsgIds |-> att[m]],
           lastAttempt' = [m \in MsgIds |-> last[m]],
           adminRetries' = [m \in MsgIds |-> adm[m]],
           \A m \in MsgIds :
              GoodRecord(pending[m], att[m], last[m], adm[m], timestamp')
    PROVE  RecordsOK'
<1>1. \A m \in MsgIds : /\ pending[m] \in PendingMessage
                        /\ att[m] \in Nat /\ last[m] \in Nat /\ adm[m] \in Nat
  BY DEF GoodRecord
<1> QED
  BY <1>1 DEF RecordsOK

LEMMA RegisterStep ==
    ASSUME IInv, NEW m \in MsgIds, NEW u \in Users, NEW c \in Chains,
           registerMessage(m, u, c)
    PROVE  IInv'
<1> DEFINE timeout == calculateMessageTimeout(c, timeoutConfig)
           pm == createPendingMessage(u, timeout, timestamp)
<1>1. timeout \in Nat
  BY DEF IInv, SettingsOK, TimeoutConfig, calculateMessageTimeout
<1>2. RecordsOK'
  <2>1. timestamp \in Nat /\ ~pendingMessages[m].registered
        /\ GoodRecord(pendingMessages[m], attempts[m], lastAttempt[m],
                      adminRetries[m], timestamp)
    BY DEF IInv, RecordsOK, registerMessage, Registered
  <2> HIDE DEF timeout
  <2>2. GoodRecord(pm, attempts[m], lastAttempt[m], adminRetries[m], timestamp)
    BY <1>1, <2>1, CreatedIsGood
  <2>3. pendingMessages' = [pendingMessages EXCEPT ![m] = pm]
        /\ UNCHANGED <<timestamp, historyVars>>
    BY DEF registerMessage, timeout
  <2> HIDE DEF pm
  <2> QED
    BY <2>2, <2>3, OneRecordStep DEF IInv
<1>3. CountersOK'
  BY DEF IInv, CountersOK, registerMessage, statsVars
<1>4. ListsOK'
  <2>1. Append(userMessages[u], m) \in Seq(MsgIds)
        /\ Append(allMessageIds, m) \in Seq(MsgIds)
    BY DEF IInv, ListsOK
  <2> QED
    BY <2>1 DEF IInv, ListsOK, registerMessage
<1>5. SettingsOK'
  BY DEF IInv, SettingsOK, registerMessage, configVars
<1> QED
  BY <1>2, <1>3, <1>4, <1>5 DEF IInv

LEMMA CompletedStep ==
    ASSUME IInv, NEW m \in MsgIds, markMessageCompleted(m)
    PROVE  IInv'
<1> DEFINE pm == [pendingMessages[m] EXCEPT !.status = "COMPLETED"]
<1>1. RecordsOK'
  <2>1. timestamp \in Nat
        /\ GoodRecord(pendingMessages[m], attempts[m], lastAttempt[m],
                      adminRetries[m], timestamp)
    BY DEF IInv, RecordsOK
  <2>2. GoodRecord(pm, attempts[m], lastAttempt[m], adminRetries[m], timestamp)
    BY <2>1, UnscheduleIsGood DEF MessageStatus
  <2>3. pendingMessages' = [pendingMessages EXCEPT ![m] = pm]
        /\ UNCHANGED <<timestamp, historyVars>>
    BY DEF markMessageCompleted
  <2> HIDE DEF pm
  <2> QED
    BY <2>2, <2>3, OneRecordStep DEF IInv
<1>2. CountersOK'
  BY DEF IInv, CountersOK, markMessageCompleted, indexVars
<1>3. ListsOK'
  BY DEF IInv, ListsOK, markMessageCompleted, indexVars
<1>4. SettingsOK'
  BY DEF IInv, SettingsOK, markMessageCompleted, configVars
<1> QED
  BY <1>1, <1>2, <1>3, <1>4 DEF IInv

LEMMA ErrorStep ==
    ASSUME IInv, NEW m \in MsgIds, NEW b \in BOOLEAN, reportMessageError(m, b)
    PROVE  IInv'
<1> DEFINE before == pendingMessages[m]
<1>1. timestamp \in Nat /\ GoodConfig(retryConfig) /\ before.registered
      /\ GoodRecord(before, attempts[m], lastAttempt[m], adminRetries[m], timestamp)
  BY DEF IInv, RecordsOK, SettingsOK, reportMessageError, Registered
<1>2. UNCHANGED <<timestamp, historyVars>>
  BY DEF reportMessageError
<1>3. RecordsOK'
  <2>1. CASE /\ ~RetryFailurePanics(before, retryConfig)
             /\ pendingMessages' = [pendingMessages EXCEPT ![m] =
                   handleRetryFailure(before, retryConfig, timestamp)]
    <3> DEFINE pm == handleRetryFailure(before, retryConfig, timestamp)
    <3> HIDE DEF before
    <3>1. GoodRecord(pm, attempts[m], lastAttempt[m], adminRetries[m], timestamp)
      BY <1>1, <2>1, RetryFailureIsGood
    <3> HIDE DEF pm
    <3> QED
      BY <1>2, <2>1, <3>1, OneRecordStep DEF IInv, pm
  <2>2. CASE pendingMessages' = [pendingMessages EXCEPT ![m].status = "FAILED"]
    <3> DEFINE pm == [before EXCEPT !.status = "FAILED"]
    <3>1. GoodRecord(pm, attempts[m], lastAttempt[m], adminRetries[m], timestamp)
      BY <1>1, UnscheduleIsGood DEF MessageStatus
    <3>2. pendingMessages' = [pendingMessages EXCEPT ![m] = pm]
      BY <2>2
    <3> HIDE DEF pm
    <3> QED
      BY <1>2, <3>1, <3>2, OneRecordStep DEF IInv
  <2> QED
    BY <2>1, <2>2 DEF reportMessageError
<1>4. CountersOK'
  BY DEF IInv, CountersOK, reportMessageError, indexVars
<1>5. ListsOK'
  BY DEF IInv, ListsOK, reportMessageError, indexVars
<1>6. SettingsOK'
  BY DEF IInv, SettingsOK, reportMessageError, configVars
<1> QED
  BY <1>3, <1>4, <1>5, <1>6 DEF IInv

\* Counting part of a finite set of messages yields a natural number.
LEMMA MessageCount ==
    ASSUME NEW S, S \subseteq MsgIds
    PROVE  Cardinality(S) \in Nat
  BY ErrorRecoveryManagerAssumption, FS_Subset, FS_CardinalityType

LEMMA TimeoutsStep ==
    ASSUME IInv, NEW ids \in SUBSET MsgIds, handleTimeouts(ids)
    PROVE  IInv'
<1> DEFINE known == ids \cap Registered
           pending == [m \in MsgIds |->
              IF m \in known THEN AfterTimeoutCheck(pendingMessages[m])
                             ELSE pendingMessages[m]]
<1>1. RecordsOK'
  <2>1. ASSUME NEW m \in MsgIds
        PROVE  GoodRecord(pending[m], attempts[m], lastAttempt[m],
                          adminRetries[m], timestamp)
    <3>1. timestamp \in Nat /\ GoodConfig(retryConfig)
          /\ GoodRecord(pendingMessages[m], attempts[m], lastAttempt[m],
                        adminRetries[m], timestamp)
      BY DEF IInv, RecordsOK, SettingsOK
    <3>2. CASE m \in known
      <4>1. /\ pendingMessages[m].registered
            /\ ShouldRetryTimeout(pendingMessages[m], retryConfig, timestamp)
                  => RetryDelayFits(pendingMessages[m].retryCount, retryConfig)
        BY <3>2 DEF handleTimeouts, Registered
      <4> QED
        BY <3>1, <3>2, <4>1, TimeoutCheckIsGood
    <3> QED
      BY <3>1, <3>2
  <2>2. pendingMessages' = pending /\ UNCHANGED <<timestamp, historyVars>>
    BY DEF handleTimeouts
  <2> HIDE DEF pending
  <2>3. pendingMessages' = [m \in MsgIds |-> pending[m]]
    BY <2>2 DEF pending
  <2>4. timestamp' \in Nat
        /\ attempts' = [m \in MsgIds |-> attempts[m]]
        /\ lastAttempt' = [m \in MsgIds |-> lastAttempt[m]]
        /\ adminRetries' = [m \in MsgIds |-> adminRetries[m]]
    BY <2>2 DEF IInv, RecordsOK, historyVars
  <2> QED
    BY <2>1, <2>2, <2>3, <2>4, AllRecordsStep
<1>2. CountersOK'
  <2>1. Cardinality({m \in known : pendingMessages'[m].status = "TIMEOUT"}) \in Nat
    BY MessageCount
  <2> QED
    BY <2>1 DEF IInv, CountersOK, handleTimeouts, indexVars
<1>3. ListsOK'
  BY DEF IInv, ListsOK, handleTimeouts, indexVars
<1>4. SettingsOK'
  BY DEF IInv, SettingsOK, handleTimeouts, configVars
<1> QED
  BY <1>1, <1>2, <1>3, <1>4 DEF IInv

LEMMA RetriesStep ==
    ASSUME IInv, NEW limit \in Nat, executeAutoRetries(limit)
    PROVE  IInv'
<1> DEFINE batch == RetryBatch(limit)
<1>1. PICK succeeded \in SUBSET batch :
        /\ \A m \in batch \ succeeded :
              ~RetryFailurePanics(pendingMessages[m], retryConfig)
        /\ pendingMessages' = [m \in MsgIds |->
              IF m \in batch
              THEN AfterRetry(pendingMessages[m], m \in succeeded)
              ELSE pendingMessages[m]]
        /\ completedMessages' = completedMessages + Cardinality(succeeded)
  BY DEF executeAutoRetries
<1>2. batch \subseteq Ready /\ batch \subseteq MsgIds
  BY DEF RetryBatch, Ready
<1> DEFINE pending == [m \in MsgIds |->
              IF m \in batch
              THEN AfterRetry(pendingMessages[m], m \in succeeded)
              ELSE pendingMessages[m]]
           att == [m \in MsgIds |->
              IF m \in batch THEN attempts[m] + 1 ELSE attempts[m]]
           last == [m \in MsgIds |->
              IF m \in batch THEN timestamp ELSE lastAttempt[m]]
<1>3. RecordsOK'
  <2>1. ASSUME NEW m \in MsgIds
        PROVE  GoodRecord(pending[m], att[m], last[m], adminRetries[m], timestamp)
    <3>1. timestamp \in Nat /\ GoodConfig(retryConfig)
          /\ GoodRecord(pendingMessages[m], attempts[m], lastAttempt[m],
                        adminRetries[m], timestamp)
      BY DEF IInv, RecordsOK, SettingsOK
    <3>2. CASE m \in batch
      <4>1. isReadyForRetry(pendingMessages[m], timestamp)
        BY <1>2, <3>2 DEF Ready
      <4>2. GoodRecord(AfterRetry(pendingMessages[m], m \in succeeded),
                       attempts[m] + 1, timestamp, adminRetries[m], timestamp)
        <5>1. CASE m \in succeeded
          <6>1. GoodRecord(AfterRetry(pendingMessages[m], TRUE),
                       attempts[m] + 1, timestamp, adminRetries[m], timestamp)
            BY <3>1, <4>1, RetryIsGood
          <6> QED
            BY <5>1, <6>1 DEF AfterRetry
        <5>2. CASE m \notin succeeded
          <6>1. ~RetryFailurePanics(pendingMessages[m], retryConfig)
            BY <1>1, <3>2, <5>2
          <6>2. GoodRecord(AfterRetry(pendingMessages[m], FALSE),
                       attempts[m] + 1, timestamp, adminRetries[m], timestamp)
            BY <3>1, <4>1, <6>1, RetryIsGood
          <6> QED
            BY <5>2, <6>2 DEF AfterRetry
        <5> QED
          BY <5>1, <5>2
      <4> QED
        BY <3>2, <4>2
    <3> QED
      BY <3>1, <3>2
  <2>2. pendingMessages' = pending /\ attempts' = att /\ lastAttempt' = last
        /\ UNCHANGED <<timestamp, adminRetries>>
    BY <1>1 DEF executeAutoRetries
  <2> HIDE DEF pending, att, last
  <2>3. /\ pendingMessages' = [m \in MsgIds |-> pending[m]]
        /\ attempts' = [m \in MsgIds |-> att[m]]
        /\ lastAttempt' = [m \in MsgIds |-> last[m]]
    BY <2>2 DEF pending, att, last
  <2>4. timestamp' \in Nat /\ adminRetries' = [m \in MsgIds |-> adminRetries[m]]
    BY <2>2 DEF IInv, RecordsOK
  <2> QED
    BY <2>1, <2>2, <2>3, <2>4, AllRecordsStep
<1>4. CountersOK'
  <2>1. Cardinality(succeeded) \in Nat
    BY <1>2, MessageCount
  <2> QED
    BY <1>1, <2>1 DEF IInv, CountersOK, executeAutoRetries, indexVars
<1>5. ListsOK'
  BY DEF IInv, ListsOK, executeAutoRetries, indexVars
<1>6. SettingsOK'
  BY DEF IInv, SettingsOK, executeAutoRetries, configVars
<1> QED
  BY <1>3, <1>4, <1>5, <1>6 DEF IInv

LEMMA ForceRetryStep ==
    ASSUME IInv, NEW m \in MsgIds, forceRetry(m)
    PROVE  IInv'
<1> DEFINE pm == scheduleRetry(pendingMessages[m], retryConfig, timestamp)
<1>1. RecordsOK'
  <2>1. timestamp \in Nat /\ GoodConfig(retryConfig)
        /\ GoodRecord(pendingMessages[m], attempts[m], lastAttempt[m],
                      adminRetries[m], timestamp)
        /\ pendingMessages[m].registered
    BY DEF IInv, RecordsOK, SettingsOK, forceRetry, Registered
  <2>2. GoodRecord(pm, attempts[m], lastAttempt[m], adminRetries[m], timestamp)
    BY <2>1, ScheduleIsGood DEF forceRetry
  <2>3. pendingMessages' = [pendingMessages EXCEPT ![m] = pm]
        /\ UNCHANGED <<timestamp, historyVars>>
    BY DEF forceRetry
  <2> HIDE DEF pm
  <2> QED
    BY <2>2, <2>3, OneRecordStep DEF IInv
<1>2. CountersOK'
  BY DEF IInv, CountersOK, forceRetry, indexVars, statsVars
<1>3. ListsOK'
  BY DEF IInv, ListsOK, forceRetry, indexVars
<1>4. SettingsOK'
  BY DEF IInv, SettingsOK, forceRetry, configVars
<1> QED
  BY <1>1, <1>2, <1>3, <1>4 DEF IInv

\* executeRecovery, executeBatchRecovery and emergencyRecovery.
LEMMA RecoverStep ==
    ASSUME IInv, NEW ids, ids \subseteq Registered,
           NEW action \in RecoveryAction, Recover(ids, action)
    PROVE  IInv'
<1> DEFINE pending == [m \in MsgIds |->
              IF m \in ids
              THEN executeRecoveryAction(pendingMessages[m], action, timestamp)
              ELSE pendingMessages[m]]
           adm == [m \in MsgIds |->
              IF m \in ids /\ action = "RETRY" THEN adminRetries[m] + 1
                                               ELSE adminRetries[m]]
<1>1. RecordsOK'
  <2>1. ASSUME NEW m \in MsgIds
        PROVE  GoodRecord(pending[m], attempts[m], lastAttempt[m], adm[m], timestamp)
    <3>1. timestamp \in Nat
          /\ GoodRecord(pendingMessages[m], attempts[m], lastAttempt[m],
                        adminRetries[m], timestamp)
      BY DEF IInv, RecordsOK
    <3>2. CASE m \in ids
      <4>1. pendingMessages[m].registered
        BY <3>2 DEF Registered
      <4>2. GoodRecord(executeRecoveryAction(pendingMessages[m], action, timestamp),
                       attempts[m], lastAttempt[m],
                       IF action = "RETRY" THEN adminRetries[m] + 1
                                           ELSE adminRetries[m], timestamp)
        BY <3>1, <4>1, RecoveryIsGood
      <4> QED
        BY <3>2, <4>2
    <3> QED
      BY <3>1, <3>2
  <2>2. pendingMessages' = pending /\ adminRetries' = adm
        /\ UNCHANGED <<timestamp, attempts, lastAttempt>>
    BY DEF Recover
  <2> HIDE DEF pending, adm
  <2>3. /\ pendingMessages' = [m \in MsgIds |-> pending[m]]
        /\ adminRetries' = [m \in MsgIds |-> adm[m]]
    BY <2>2 DEF pending, adm
  <2>4. /\ timestamp' \in Nat
        /\ attempts' = [m \in MsgIds |-> attempts[m]]
        /\ lastAttempt' = [m \in MsgIds |-> lastAttempt[m]]
    BY <2>2 DEF IInv, RecordsOK
  <2> QED
    BY <2>1, <2>2, <2>3, <2>4, AllRecordsStep
<1>2. CountersOK'
  <2>1. Cardinality(ids) \in Nat
    BY MessageCount DEF Registered
  <2> QED
    BY <2>1 DEF IInv, CountersOK, Recover, indexVars
<1>3. ListsOK'
  BY DEF IInv, ListsOK, Recover, indexVars
<1>4. SettingsOK'
  BY DEF IInv, SettingsOK, Recover, configVars
<1> QED
  BY <1>1, <1>2, <1>3, <1>4 DEF IInv

LEMMA ClearStep ==
    ASSUME IInv, NEW ids \in SUBSET MsgIds, emergencyClearMessages(ids)
    PROVE  IInv'
<1> DEFINE pending == [m \in MsgIds |->
              IF m \in ids THEN DeletedMessage ELSE pendingMessages[m]]
           att == [m \in MsgIds |-> IF m \in ids THEN 0 ELSE attempts[m]]
           adm == [m \in MsgIds |-> IF m \in ids THEN 0 ELSE adminRetries[m]]
<1>1. RecordsOK'
  <2>1. ASSUME NEW m \in MsgIds
        PROVE  GoodRecord(pending[m], att[m], lastAttempt[m], adm[m], timestamp)
    <3>1. timestamp \in Nat
          /\ lastAttempt[m] \in Nat /\ lastAttempt[m] <= timestamp
          /\ GoodRecord(pendingMessages[m], attempts[m], lastAttempt[m],
                        adminRetries[m], timestamp)
      BY DEF IInv, RecordsOK, GoodRecord, RecordInv
    <3>2. GoodRecord(DeletedMessage, 0, lastAttempt[m], 0, timestamp)
      BY <3>1, DeletedIsGood
    <3> QED
      BY <3>1, <3>2
  <2>2. pendingMessages' = pending /\ attempts' = att /\ adminRetries' = adm
        /\ UNCHANGED <<timestamp, lastAttempt>>
    BY DEF emergencyClearMessages
  <2> HIDE DEF pending, att, adm
  <2>3. /\ pendingMessages' = [m \in MsgIds |-> pending[m]]
        /\ attempts' = [m \in MsgIds |-> att[m]]
        /\ adminRetries' = [m \in MsgIds |-> adm[m]]
    BY <2>2 DEF pending, att, adm
  <2>4. timestamp' \in Nat /\ lastAttempt' = [m \in MsgIds |-> lastAttempt[m]]
    BY <2>2 DEF IInv, RecordsOK
  <2> QED
    BY <2>1, <2>2, <2>3, <2>4, AllRecordsStep
<1>2. CountersOK'
  BY DEF IInv, CountersOK, emergencyClearMessages, indexVars, statsVars
<1>3. ListsOK'
  BY DEF IInv, ListsOK, emergencyClearMessages, indexVars
<1>4. SettingsOK'
  BY DEF IInv, SettingsOK, emergencyClearMessages, configVars
<1> QED
  BY <1>1, <1>2, <1>3, <1>4 DEF IInv

LEMMA TickStep == IInv /\ Tick => IInv'
<1> SUFFICES ASSUME IInv, Tick PROVE IInv'
  OBVIOUS
<1>1. RecordsOK'
  <2>1. timestamp \in Nat /\ timestamp' = timestamp + 1
        /\ UNCHANGED <<pendingMessages, historyVars>>
    BY DEF IInv, RecordsOK, Tick
  <2>2. \A m \in MsgIds : GoodRecord(pendingMessages[m], attempts[m],
                            lastAttempt[m], adminRetries[m], timestamp + 1)
    BY <2>1, TickIsGood DEF IInv, RecordsOK
  <2> QED
    BY <2>1, <2>2 DEF IInv, RecordsOK, historyVars
<1>2. CountersOK' /\ ListsOK'
  BY DEF IInv, CountersOK, ListsOK, Tick, indexVars, statsVars
<1>3. SettingsOK'
  BY DEF IInv, SettingsOK, Tick, configVars
<1> QED
  BY <1>1, <1>2, <1>3 DEF IInv

\* No administrator setting touches a record, and updateRetryConfig keeps the
\* configuration within the limits the budget and the horizon rest on.
LEMMA ConfigureStep == IInv /\ Configure => IInv'
<1> SUFFICES ASSUME IInv, Configure PROVE IInv'
  OBVIOUS
<1> USE DEF IInv
<1>1. UNCHANGED <<pendingMessages, indexVars, statsVars, timestamp, historyVars>>
  BY DEF Configure, updateRetryConfig, updateTimeoutConfig, setChainTimeout,
         setRecoveryWindow, setAutoRetryEnabled, setAdminRecoveryEnabled, setPaused
<1>2. RecordsOK'
  BY <1>1 DEF RecordsOK, historyVars
<1>3. CountersOK' /\ ListsOK'
  BY <1>1 DEF CountersOK, ListsOK, indexVars, statsVars
<1>4. SettingsOK'
  <2>1. ASSUME NEW c \in RetryConfigInputs, updateRetryConfig(c)
        PROVE  SettingsOK'
    BY <2>1, ErrorRecoveryManagerAssumption
       DEF SettingsOK, GoodConfig, updateRetryConfig
  <2>2. ASSUME NEW d \in TimeoutInputs, NEW x \in TimeoutInputs,
               updateTimeoutConfig(d, x)
        PROVE  SettingsOK'
    BY <2>2, ErrorRecoveryManagerAssumption
       DEF SettingsOK, TimeoutConfig, updateTimeoutConfig
  <2>3. ASSUME NEW c \in Chains, NEW t \in TimeoutInputs, setChainTimeout(c, t)
        PROVE  SettingsOK'
    BY <2>3, ErrorRecoveryManagerAssumption
       DEF SettingsOK, TimeoutConfig, setChainTimeout
  <2>4. ASSUME NEW w \in WindowInputs, setRecoveryWindow(w)
        PROVE  SettingsOK'
    BY <2>4, ErrorRecoveryManagerAssumption DEF SettingsOK, setRecoveryWindow
  <2>5. ASSUME NEW b \in FlagInputs,
               \/ setAutoRetryEnabled(b)
               \/ setAdminRecoveryEnabled(b)
               \/ setPaused(b)
        PROVE  SettingsOK'
    BY <2>5, ErrorRecoveryManagerAssumption
       DEF SettingsOK, setAutoRetryEnabled, setAdminRecoveryEnabled, setPaused,
           configVars
  <2> QED
    BY <2>1, <2>2, <2>3, <2>4, <2>5 DEF Configure
<1> QED
  BY <1>2, <1>3, <1>4

LEMMA IInvStep == IInv /\ [Next]_vars => IInv'
<1> SUFFICES ASSUME IInv, [Next]_vars PROVE IInv'
  OBVIOUS
<1>1. CASE Tick
  BY <1>1, TickStep
<1>2. ASSUME NEW m \in MsgIds, NEW u \in Users, NEW c \in Chains,
             registerMessage(m, u, c)
      PROVE  IInv'
  BY <1>2, RegisterStep
<1>3. ASSUME NEW m \in MsgIds, markMessageCompleted(m) PROVE IInv'
  BY <1>3, CompletedStep
<1>4. ASSUME NEW m \in MsgIds, NEW b \in BOOLEAN, reportMessageError(m, b)
      PROVE  IInv'
  BY <1>4, ErrorStep
<1>5. ASSUME NEW m \in MsgIds, forceRetry(m) PROVE IInv'
  BY <1>5, ForceRetryStep
<1>6. ASSUME NEW m \in MsgIds, NEW a \in RecoveryRole, NEW act \in RecoveryAction,
             NEW b \in BOOLEAN, executeRecovery(a, m, act, b)
      PROVE  IInv'
  <2>1. {m} \subseteq Registered /\ Recover({m}, act)
    BY <1>6 DEF executeRecovery, MayRecover
  <2> QED
    BY <2>1, RecoverStep
<1>7. ASSUME NEW ids \in SUBSET MsgIds, handleTimeouts(ids) PROVE IInv'
  BY <1>7, TimeoutsStep
<1>8. ASSUME NEW ids \in SUBSET MsgIds, NEW a \in RecoveryRole,
             NEW act \in RecoveryAction, executeBatchRecovery(a, ids, act)
      PROVE  IInv'
  <2>1. BatchRecovered(ids, act) \subseteq Registered
    BY DEF BatchRecovered, MayRecover
  <2>2. Recover(BatchRecovered(ids, act), act)
    BY <1>8 DEF executeBatchRecovery
  <2> QED
    BY <2>1, <2>2, RecoverStep
<1>9. ASSUME NEW ids \in SUBSET MsgIds, emergencyRecovery(ids) PROVE IInv'
  <2> DEFINE affected == {m \in ids \cap Registered :
                            ~isStatusFinal(pendingMessages[m].status)}
  <2>1. affected \subseteq Registered /\ "MANUAL_RESOLVE" \in RecoveryAction
    BY DEF RecoveryAction
  <2>2. Recover(affected, "MANUAL_RESOLVE")
    BY <1>9 DEF emergencyRecovery
  <2> HIDE DEF affected
  <2> QED
    BY <2>1, <2>2, RecoverStep
<1>10. ASSUME NEW ids \in SUBSET MsgIds, emergencyClearMessages(ids) PROVE IInv'
  BY <1>10, ClearStep
<1>11. ASSUME NEW limit \in 0 .. Cardinality(MsgIds), executeAutoRetries(limit)
       PROVE  IInv'
  <2>1. limit \in Nat
    BY MessageCount
  <2> QED
    BY <1>11, <2>1, RetriesStep
<1>12. CASE Configure
  BY <1>12, ConfigureStep
<1>13. CASE UNCHANGED vars
  <2>1. RecordsOK'
    BY <1>13 DEF IInv, RecordsOK, vars, historyVars
  <2>2. CountersOK' /\ ListsOK'
    BY <1>13 DEF IInv, CountersOK, ListsOK, vars, indexVars, statsVars
  <2>3. SettingsOK'
    BY <1>13 DEF IInv, SettingsOK, vars, configVars
  <2> QED
    BY <2>1, <2>2, <2>3 DEF IInv
<1> QED
  BY <1>1, <1>2, <1>3, <1>4, <1>5, <1>6, <1>7, <1>8, <1>9, <1>10, <1>11, <1>12,
     <1>13 DEF Next

\* The inductive invariant holds in every reachable state.
THEOREM Invariance == Spec => []IInv
  BY IInvInit, IInvStep, PTL DEF Spec

----------------------------------------------------------------------------
(* What follows from it *)

\* Type correctness.
THEOREM TypeCorrect == Spec => []TypeOK
<1>1. IInv => TypeOK
  BY DEF IInv, TypeOK, RecordsOK, CountersOK, ListsOK, SettingsOK, GoodConfig
<1> QED
  BY <1>1, Invariance, PTL

\* No sequence of error reports, timeouts, forced retries, recoveries, clears
\* and configuration changes executes more retries than were scheduled or
\* asked for, or schedules more than the limit of updateRetryConfig.
THEOREM NoRetryLoop == Spec => []AttemptsWithinBudget
<1>1. IInv => AttemptsWithinBudget
  BY DEF IInv, RecordsOK, GoodRecord, RecordInv, AttemptsWithinBudget
<1> QED
  BY <1>1, Invariance, PTL

\* Two retries of one message are MIN_RETRY_DELAY apart or more, whatever
\* happened to its record in between.
THEOREM RetriesAreSpaced == Spec => []AttemptSpacing
<1>1. IInv => AttemptSpacing
  <2> SUFFICES ASSUME IInv, NEW m \in Ready
               PROVE  timestamp >= lastAttempt[m] + MIN_RETRY_DELAY
    BY DEF AttemptSpacing
  <2>1. m \in MsgIds /\ timestamp \in Nat /\ lastAttempt[m] \in Nat
        /\ pendingMessages[m].nextRetryAt \in Nat
    BY DEF Ready, IInv, RecordsOK, PendingMessage
  <2>2. /\ timestamp >= pendingMessages[m].nextRetryAt
        /\ lastAttempt[m] + MIN_RETRY_DELAY <= pendingMessages[m].nextRetryAt
    BY <2>1 DEF Ready, isReadyForRetry, IInv, RecordsOK, GoodRecord, RecordInv
  <2> QED
    BY <2>1, <2>2, Limits
<1> QED
  BY <1>1, Invariance, PTL

\* A scheduled retry is due within MaxDelayLimit, whatever the back-off and
\* the configuration changes.
THEOREM RetryDueInTime == Spec => []RetryHorizon
<1>1. IInv => RetryHorizon
  BY DEF IInv, RecordsOK, GoodRecord, RecordInv, RetryHorizon, Scheduled
<1> QED
  BY <1>1, Invariance, PTL
=============================================================================
