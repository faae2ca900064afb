------------------- MODULE ErrorRecoveryManagerStepProofs -------------------
(***************************************************************************)
(* Theorems about what a step of ErrorRecoveryManager may do to a message, *)
(* and the invariants that follow: the keepers see every due message,      *)
(* completions are counted, a settled message is not scheduled again and   *)
(* one that was given up only at an administrator's request. The argument  *)
(* is one relation, Effect, between the record of a message before and     *)
(* after a step: every action is shown to keep to it once, and each        *)
(* theorem follows from it alone.                                          *)
(***************************************************************************)
EXTENDS ErrorRecoveryManagerProofs

Settled == {"ADMIN_RESOLVED", "CANCELLED"}

\* What a step may turn the record pm into; completes: the step counts a
\* completion for it; listed: it is in allMessageIds after the step.
Effect(pm, new, completes, listed, now) ==
    /\ new.status = "COMPLETED" => pm.status = "COMPLETED" \/ completes
    /\ \/ new = pm
       \/ ~new.registered /\ new.status = "PENDING"
       \/ /\ ~pm.registered /\ listed
          /\ new.status = "PENDING" /\ new.createdAt = now
       \/ /\ pm.registered /\ new.registered
          /\ new.createdAt = pm.createdAt
          /\ new.isRecoverable => pm.isRecoverable
          /\ \/ /\ new.retryCount = pm.retryCount
                /\ new.status \in {"COMPLETED", "FAILED"}
             \/ /\ new.retryCount = pm.retryCount
                /\ pm.status \notin Settled
                /\ new.status \in Settled => ~new.isRecoverable
             \/ /\ pm.isRecoverable
                /\ new.status = "PENDING"

----------------------------------------------------------------------------
(* The library functions keep to it *)

LEMMA CompleteEffect ==
    ASSUME NEW pm \in PendingMessage, pm.registered, NEW now
    PROVE  Effect(pm, [pm EXCEPT !.status = "COMPLETED"], TRUE, FALSE, now)
  BY DEF PendingMessage, Effect

LEMMA FailEffect ==
    ASSUME NEW pm \in PendingMessage, pm.registered, NEW now
    PROVE  Effect(pm, [pm EXCEPT !.status = "FAILED"], FALSE, FALSE, now)
  BY DEF PendingMessage, Effect

LEMMA ScheduleEffect ==
    ASSUME NEW pm \in PendingMessage, pm.registered, pm.isRecoverable,
           NEW s, NEW config, NEW now
    PROVE  /\ Effect(pm, scheduleRetry(pm, config, now), FALSE, FALSE, now)
           /\ Effect(pm, scheduleRetry([pm EXCEPT !.status = s], config, now),
                     FALSE, FALSE, now)
  BY DEF PendingMessage, Effect, scheduleRetry

LEMMA RetryFailureEffect ==
    ASSUME NEW pm \in PendingMessage, pm.registered,
           NEW s, NEW config, NEW now
    PROVE  /\ Effect(pm, handleRetryFailure(pm, config, now), FALSE, FALSE, now)
           /\ Effect(pm, handleRetryFailure([pm EXCEPT !.status = s], config, now),
                     FALSE, FALSE, now)
<1> DEFINE qm == [pm EXCEPT !.status = s]
<1>1. CanRetry(qm, config) <=> CanRetry(pm, config)
  BY DEF CanRetry, PendingMessage
<1>2. CASE CanRetry(pm, config)
  <2>1. pm.isRecoverable
    BY <1>2 DEF CanRetry
  <2> QED
    BY <1>1, <1>2, <2>1, ScheduleEffect DEF handleRetryFailure
<1>3. CASE ~CanRetry(pm, config)
  <2>1. [qm EXCEPT !.status = "FAILED"] = [pm EXCEPT !.status = "FAILED"]
    BY DEF PendingMessage
  <2> QED
    BY <1>1, <1>3, <2>1, FailEffect DEF handleRetryFailure
<1> QED
  BY <1>2, <1>3

LEMMA TimeoutEffect ==
    ASSUME NEW pm \in PendingMessage, pm.registered
    PROVE  Effect(pm, AfterTimeoutCheck(pm), FALSE, FALSE, timestamp)
<1>1. CASE ~isMessageTimedOut(pm, timestamp)
  <2>1. AfterTimeoutCheck(pm) = pm
    BY <1>1 DEF AfterTimeoutCheck, handleMessageTimeout, ShouldRetryTimeout
  <2> QED
    BY <2>1 DEF Effect
<1>2. CASE isMessageTimedOut(pm, timestamp) /\ ~CanRetry(pm, retryConfig)
  <2>1. AfterTimeoutCheck(pm) = [pm EXCEPT !.status = "FAILED"]
    BY <1>2 DEF AfterTimeoutCheck, handleMessageTimeout, ShouldRetryTimeout
  <2> QED
    BY <2>1, FailEffect
<1>3. CASE isMessageTimedOut(pm, timestamp) /\ CanRetry(pm, retryConfig)
  <2>1. AfterTimeoutCheck(pm) =
          scheduleRetry([pm EXCEPT !.status = "TIMEOUT"], retryConfig, timestamp)
    BY <1>3 DEF AfterTimeoutCheck, handleMessageTimeout, ShouldRetryTimeout
  <2>2. pm.isRecoverable
    BY <1>3 DEF CanRetry
  <2> QED
    BY <2>1, <2>2, ScheduleEffect
<1> QED
  BY <1>1, <1>2, <1>3

LEMMA RecoveryEffect ==
    ASSUME NEW pm \in PendingMessage, pm.registered, ~isStatusFinal(pm.status),
           NEW action \in RecoveryAction, NEW now
    PROVE  Effect(pm, executeRecoveryAction(pm, action, now), FALSE, FALSE, now)
<1>1. CASE action \in {"FORCE_COMPLETE", "MANUAL_RESOLVE"}
  <2>1. executeRecoveryAction(pm, action, now) =
          [pm EXCEPT !.status = "ADMIN_RESOLVED", !.isRecoverable = FALSE]
    BY <1>1 DEF executeRecoveryAction
  <2> QED
    BY <2>1 DEF Effect, PendingMessage, isStatusFinal, Settled
<1>2. CASE action \in {"CANCEL", "ROLLBACK"}
  <2>1. executeRecoveryAction(pm, action, now) =
          [pm EXCEPT !.status = "CANCELLED", !.isRecoverable = FALSE]
    BY <1>2 DEF executeRecoveryAction
  <2> QED
    BY <2>1 DEF Effect, PendingMessage, isStatusFinal, Settled
<1>3. CASE action = "RETRY"
  <2>1. executeRecoveryAction(pm, action, now) =
          [pm EXCEPT !.status = "PENDING",
                  !.nextRetryAt = now + MIN_RETRY_DELAY]
    BY <1>3 DEF executeRecoveryAction
  <2> QED
    BY <2>1 DEF Effect, PendingMessage, isStatusFinal, Settled
<1> QED
  BY <1>1, <1>2, <1>3 DEF RecoveryAction

----------------------------------------------------------------------------
(* Every action keeps to it *)

Listed(m) == \E i \in 1 .. Len(allMessageIds) : allMessageIds[i] = m

\* A step keeps to Effect for every message, and counts the messages of S.
StepEffect(S) ==
    /\ completedMessages' = completedMessages + Cardinality(S)
    /\ \A m \in MsgIds : Effect(pendingMessages[m], pendingMessages'[m],
                                m \in S, Listed(m)', timestamp)

LEMMA Same == \A pm, c, l, now : Effect(pm, pm, c, l, now)
  BY DEF Effect

LEMMA Weaker ==
    ASSUME NEW pm, NEW new, NEW c, NEW d, NEW l, NEW now,
           Effect(pm, new, c, FALSE, now), c => d
    PROVE  Effect(pm, new, d, l, now)
  BY DEF Effect

LEMMA NothingCompleted ==
    ASSUME completedMessages \in Nat, UNCHANGED completedMessages,
           \A m \in MsgIds : Effect(pendingMessages[m], pendingMessages'[m],
                                    FALSE, FALSE, timestamp)
    PROVE  StepEffect({})
<1>1. Cardinality({}) = 0
  BY FS_EmptySet
<1>2. \A m \in MsgIds : Effect(pendingMessages[m], pendingMessages'[m],
                               m \in {}, Listed(m)', timestamp)
  BY Weaker
<1> QED
  BY <1>1, <1>2 DEF StepEffect

\* The same for a step that changes one record.
LEMMA OneChanged ==
    ASSUME RecordsOK, completedMessages \in Nat, UNCHANGED completedMessages,
           NEW m \in MsgIds, NEW new,
           pendingMessages' = [pendingMessages EXCEPT ![m] = new],
           Effect(pendingMessages[m], new, FALSE, FALSE, timestamp)
    PROVE  StepEffect({})
<1>1. \A n \in MsgIds : Effect(pendingMessages[n], pendingMessages'[n],
                               FALSE, FALSE, timestamp)
  BY Same DEF RecordsOK
<1> QED
  BY <1>1, NothingCompleted

LEMMA CompletedEffect ==
    ASSUME IInv, NEW m \in MsgIds, markMessageCompleted(m)
    PROVE  StepEffect({m})
<1>1. /\ pendingMessages \in [MsgIds -> PendingMessage]
      /\ pendingMessages[m] \in PendingMessage /\ pendingMessages[m].registered
  BY DEF IInv, RecordsOK, markMessageCompleted, Registered
<1>2. Cardinality({m}) = 1
  BY FS_Singleton
<1>3. \A n \in MsgIds : Effect(pendingMessages[n], pendingMessages'[n],
                               n \in {m}, Listed(n)', timestamp)
  <2>1. Effect(pendingMessages[m], pendingMessages'[m], TRUE, FALSE, timestamp)
    BY <1>1, CompleteEffect DEF markMessageCompleted
  <2>2. \A n \in MsgIds \ {m} : pendingMessages'[n] = pendingMessages[n]
    BY <1>1 DEF markMessageCompleted
  <2>3. Effect(pendingMessages[m], pendingMessages'[m], m \in {m}, Listed(m)',
               timestamp)
    BY <2>1, Weaker
  <2> QED
    BY <2>2, <2>3, Same
<1> QED
  BY <1>2, <1>3 DEF StepEffect, markMessageCompleted

LEMMA ErrorEffect ==
    ASSUME IInv, NEW m \in MsgIds, NEW b \in BOOLEAN, reportMessageError(m, b)
    PROVE  StepEffect({})
<1>1. /\ RecordsOK /\ completedMessages \in Nat /\ UNCHANGED completedMessages
      /\ pendingMessages[m] \in PendingMessage /\ pendingMessages[m].registered
  BY DEF IInv, RecordsOK, CountersOK, reportMessageError, Registered
<1>2. PICK new : /\ pendingMessages' = [pendingMessages EXCEPT ![m] = new]
                 /\ new \in {handleRetryFailure(pendingMessages[m], retryConfig,
                                                timestamp),
                             [pendingMessages[m] EXCEPT !.status = "FAILED"]}
  BY <1>1 DEF reportMessageError, RecordsOK
<1>3. Effect(pendingMessages[m], new, FALSE, FALSE, timestamp)
  BY <1>1, <1>2, RetryFailureEffect, FailEffect
<1> QED
  BY <1>1, <1>2, <1>3, OneChanged

LEMMA ForceRetryEffect ==
    ASSUME IInv, NEW m \in MsgIds, forceRetry(m)
    PROVE  StepEffect({})
<1>1. /\ RecordsOK /\ completedMessages \in Nat /\ UNCHANGED completedMessages
      /\ pendingMessages[m] \in PendingMessage /\ pendingMessages[m].registered
      /\ pendingMessages[m].isRecoverable
  BY DEF IInv, RecordsOK, CountersOK, forceRetry, Registered, CanRetry, statsVars
<1>2. Effect(pendingMessages[m],
             scheduleRetry(pendingMessages[m], retryConfig, timestamp),
             FALSE, FALSE, timestamp)
  BY <1>1, ScheduleEffect
<1> QED
  BY <1>1, <1>2, OneChanged DEF forceRetry

LEMMA RegisterEffect ==
    ASSUME IInv, NEW m \in MsgIds, NEW u \in Users, NEW c \in Chains,
           registerMessage(m, u, c)
    PROVE  StepEffect({})
<1> DEFINE new == createPendingMessage(u,
                      calculateMessageTimeout(c, timeoutConfig), timestamp)
<1>1. /\ pendingMessages \in [MsgIds -> PendingMessage]
      /\ completedMessages \in Nat /\ UNCHANGED completedMessages
      /\ ~pendingMessages[m].registered
  BY DEF IInv, RecordsOK, CountersOK, registerMessage, Registered, statsVars
<1>2. Listed(m)'
  <2>1. allMessageIds \in Seq(MsgIds) /\ allMessageIds' = Append(allMessageIds, m)
    BY DEF IInv, ListsOK, registerMessage
  <2>2. /\ Len(allMessageIds') = Len(allMessageIds) + 1
        /\ allMessageIds'[Len(allMessageIds) + 1] = m
    BY <2>1
  <2>3. Len(allMessageIds) + 1 \in 1 .. Len(allMessageIds')
    BY <2>1, <2>2
  <2> QED
    BY <2>2, <2>3 DEF Listed
<1>3. Effect(pendingMessages[m], new, FALSE, TRUE, timestamp)
  BY <1>1 DEF Effect, createPendingMessage
<1>4. pendingMessages' = [pendingMessages EXCEPT ![m] = new]
  BY DEF registerMessage
<1> HIDE DEF new
<1>5. \A n \in MsgIds : Effect(pendingMessages[n], pendingMessages'[n],
                               n \in {}, Listed(n)', timestamp)
  <2>1. Effect(pendingMessages[m], new, m \in {}, Listed(m)', timestamp)
    BY <1>2, <1>3 DEF Effect
  <2>2. pendingMessages'[m] = new
    BY <1>1, <1>4
  <2>3. \A n \in MsgIds \ {m} : pendingMessages'[n] = pendingMessages[n]
    BY <1>1, <1>4
  <2> QED
    BY <2>1, <2>2, <2>3, Same
<1>6. Cardinality({}) = 0
  BY FS_EmptySet
<1> QED
  BY <1>1, <1>5, <1>6 DEF StepEffect

LEMMA TimeoutsEffect ==
    ASSUME IInv, NEW ids \in SUBSET MsgIds, handleTimeouts(ids)
    PROVE  StepEffect({})
<1>1. pendingMessages \in [MsgIds -> PendingMessage]
      /\ completedMessages \in Nat /\ UNCHANGED completedMessages
  BY DEF IInv, RecordsOK, CountersOK, handleTimeouts
<1>2. ASSUME NEW m \in MsgIds
      PROVE  Effect(pendingMessages[m], pendingMessages'[m], FALSE, FALSE, timestamp)
  <2>1. CASE m \in ids \cap Registered
    <3>1. pendingMessages'[m] = AfterTimeoutCheck(pendingMessages[m])
      BY <2>1 DEF handleTimeouts
    <3>2. pendingMessages[m] \in PendingMessage /\ pendingMessages[m].registered
      BY <1>1, <2>1 DEF Registered
    <3> QED
      BY <3>1, <3>2, TimeoutEffect
  <2>2. CASE m \notin ids \cap Registered
    <3>1. pendingMessages'[m] = pendingMessages[m]
      BY <2>2 DEF handleTimeouts
    <3> QED
      BY <3>1, Same
  <2> QED
    BY <2>1, <2>2
<1> QED
  BY <1>1, <1>2, NothingCompleted

LEMMA RetriesEffect ==
    ASSUME IInv, NEW limit \in Nat, executeAutoRetries(limit)
    PROVE  \E S \in SUBSET MsgIds : StepEffect(S)
<1> DEFINE batch == RetryBatch(limit)
<1>1. PICK succeeded \in SUBSET batch :
        /\ pendingMessages' = [m \in MsgIds |->
              IF m \in batch
              THEN AfterRetry(pendingMessages[m], m \in succeeded)
              ELSE pendingMessages[m]]
        /\ completedMessages' = completedMessages + Cardinality(succeeded)
  BY DEF executeAutoRetries
<1>2. /\ batch \subseteq Ready /\ batch \subseteq MsgIds
      /\ pendingMessages \in [MsgIds -> PendingMessage]
  BY DEF RetryBatch, Ready, IInv, RecordsOK
<1> HIDE DEF batch
<1>3. ASSUME NEW m \in MsgIds
      PROVE  Effect(pendingMessages[m], pendingMessages'[m], m \in succeeded,
                    Listed(m)', timestamp)
  <2>1. CASE m \notin batch
    BY <1>1, <2>1, Same
  <2>2. CASE m \in batch
    <3>1. pendingMessages[m] \in PendingMessage /\ pendingMessages[m].registered
      BY <1>2, <2>2 DEF Ready, isReadyForRetry, IInv, RecordsOK, GoodRecord,
                        RecordInv, PendingMessage
    <3>2. pendingMessages'[m] = AfterRetry(pendingMessages[m], m \in succeeded)
      BY <1>1, <2>2
    <3>3. CASE m \in succeeded
      <4>1. pendingMessages'[m] = [pendingMessages[m] EXCEPT !.status = "COMPLETED"]
        BY <3>2, <3>3 DEF AfterRetry
      <4>2. Effect(pendingMessages[m], pendingMessages'[m], TRUE, FALSE, timestamp)
        BY <3>1, <4>1, CompleteEffect
      <4> QED
        BY <3>3, <4>2, Weaker
    <3>4. CASE m \notin succeeded
      <4>1. pendingMessages'[m] =
              handleRetryFailure([pendingMessages[m] EXCEPT !.status = "PROCESSING"],
                                 retryConfig, timestamp)
        BY <3>2, <3>4 DEF AfterRetry
      <4>2. Effect(pendingMessages[m], pendingMessages'[m], FALSE, FALSE, timestamp)
        BY <3>1, <4>1, RetryFailureEffect
      <4> QED
        BY <4>2, Weaker
    <3> QED
      BY <3>3, <3>4
  <2> QED
    BY <2>1, <2>2
<1>4. StepEffect(succeeded)
  BY <1>1, <1>3 DEF StepEffect
<1> QED
  BY <1>1, <1>2, <1>4

LEMMA RecoverEffect ==
    ASSUME IInv, NEW ids \in SUBSET Registered, NEW action \in RecoveryAction,
           \A m \in ids : ~isStatusFinal(pendingMessages[m].status),
           Recover(ids, action)
    PROVE  StepEffect({})
<1>1. pendingMessages \in [MsgIds -> PendingMessage]
      /\ completedMessages \in Nat /\ UNCHANGED completedMessages
  BY DEF IInv, RecordsOK, CountersOK, Recover
<1>2. ASSUME NEW m \in MsgIds
      PROVE  Effect(pendingMessages[m], pendingMessages'[m], FALSE, FALSE, timestamp)
  <2>1. CASE m \in ids
    <3>1. pendingMessages'[m] =
            executeRecoveryAction(pendingMessages[m], action, timestamp)
      BY <2>1 DEF Recover
    <3>2. pendingMessages[m] \in PendingMessage /\ pendingMessages[m].registered
      BY <1>1, <2>1 DEF Registered
    <3> QED
      BY <2>1, <3>1, <3>2, RecoveryEffect
  <2>2. CASE m \notin ids
    <3>1. pendingMessages'[m] = pendingMessages[m]
      BY <2>2 DEF Recover
    <3> QED
      BY <3>1, Same
  <2> QED
    BY <2>1, <2>2
<1> QED
  BY <1>1, <1>2, NothingCompleted

LEMMA ClearEffect ==
    ASSUME IInv, NEW ids \in SUBSET MsgIds, emergencyClearMessages(ids)
    PROVE  StepEffect({})
<1>1. completedMessages \in Nat /\ UNCHANGED completedMessages
  BY DEF IInv, CountersOK, emergencyClearMessages, statsVars
<1>2. ASSUME NEW m \in MsgIds
      PROVE  Effect(pendingMessages[m], pendingMessages'[m], FALSE, FALSE, timestamp)
  <2>1. pendingMessages'[m] \in {DeletedMessage, pendingMessages[m]}
    BY DEF emergencyClearMessages
  <2>2. Effect(pendingMessages[m], DeletedMessage, FALSE, FALSE, timestamp)
    BY DEF Effect, DeletedMessage
  <2> QED
    BY <2>1, <2>2, Same
<1> QED
  BY <1>1, <1>2, NothingCompleted

LEMMA EveryStep ==
    ASSUME IInv, [Next]_vars
    PROVE  \E S \in SUBSET MsgIds : StepEffect(S)
<1> SUFFICES ASSUME ~(\E S \in SUBSET MsgIds : StepEffect(S)) PROVE FALSE
  OBVIOUS
<1>0. /\ ~StepEffect({}) /\ \A m \in MsgIds : ~StepEffect({m})
      /\ completedMessages \in Nat
  BY DEF IInv, CountersOK
<1>1. ASSUME UNCHANGED <<pendingMessages, completedMessages>> PROVE FALSE
  BY <1>0, <1>1, Same, NothingCompleted
<1>2. ASSUME NEW m \in MsgIds, NEW a \in RecoveryRole, NEW act \in RecoveryAction,
             NEW b \in BOOLEAN, executeRecovery(a, m, act, b)
      PROVE  FALSE
  <2>1. /\ {m} \in SUBSET Registered /\ Recover({m}, act)
        /\ ~isStatusFinal(pendingMessages[m].status)
    BY <1>2 DEF executeRecovery, MayRecover, verifyRecovery
  <2> QED
    BY <1>0, <2>1, RecoverEffect
<1>3. ASSUME NEW ids \in SUBSET MsgIds, NEW a \in RecoveryRole,
             NEW act \in RecoveryAction, executeBatchRecovery(a, ids, act)
      PROVE  FALSE
  <2>1. /\ BatchRecovered(ids, act) \in SUBSET Registered
        /\ \A m \in BatchRecovered(ids, act) :
              ~isStatusFinal(pendingMessages[m].status)
    BY DEF BatchRecovered, MayRecover, verifyRecovery
  <2>2. Recover(BatchRecovered(ids, act), act)
    BY <1>3 DEF executeBatchRecovery
  <2> QED
    BY <1>0, <2>1, <2>2, RecoverEffect
<1>4. ASSUME NEW ids \in SUBSET MsgIds, emergencyRecovery(ids) PROVE FALSE
  <2> DEFINE affected == {m \in ids \cap Registered :
                            ~isStatusFinal(pendingMessages[m].status)}
  <2>1. /\ affected \in SUBSET Registered /\ "MANUAL_RESOLVE" \in RecoveryAction
        /\ \A m \in affected : ~isStatusFinal(pendingMessages[m].status)
    BY DEF RecoveryAction
  <2>2. Recover(affected, "MANUAL_RESOLVE")
    BY <1>4 DEF emergencyRecovery
  <2> HIDE DEF affected
  <2> QED
    BY <1>0, <2>1, <2>2, RecoverEffect
<1>5. ASSUME NEW limit \in 0 .. Cardinality(MsgIds), executeAutoRetries(limit)
      PROVE  FALSE
  BY <1>5, MessageCount, RetriesEffect
<1>6. CASE Configure
  <2>1. UNCHANGED <<pendingMessages, completedMessages>>
    BY <1>6 DEF Configure, updateRetryConfig, updateTimeoutConfig,
       setChainTimeout, setRecoveryWindow, setAutoRetryEnabled,
       setAdminRecoveryEnabled, setPaused, statsVars
  <2> QED
    BY <1>1, <2>1
<1>7. CASE Tick \/ UNCHANGED vars
  <2>1. UNCHANGED <<pendingMessages, completedMessages>>
    BY <1>7 DEF Tick, vars, statsVars
  <2> QED
    BY <1>1, <2>1
<1> QED
  BY <1>0, <1>2, <1>3, <1>4, <1>5, <1>6, <1>7, RegisterEffect, CompletedEffect,
     ErrorEffect, ForceRetryEffect, TimeoutsEffect, ClearEffect DEF Next

----------------------------------------------------------------------------
(* What follows *)

\* Who settled a message also gave it up, and it is a registered one.
SettledOK ==
    \A m \in MsgIds :
        pendingMessages[m].status \in Settled =>
            ~pendingMessages[m].isRecoverable /\ pendingMessages[m].registered

\* Every registered message is in the list the keepers scan, with the block
\* of its registration.
ListedOK ==
    \A m \in Registered :
        Listed(m) /\ pendingMessages[m].createdAt <= timestamp

StepInv == IInv /\ SettledOK /\ ListedOK /\ CompletionsCounted

LEMMA SettledStep == IInv /\ SettledOK /\ [Next]_vars => SettledOK'
<1> SUFFICES ASSUME IInv, SettledOK, [Next]_vars, NEW m \in MsgIds,
                    pendingMessages'[m].status \in Settled
             PROVE  ~pendingMessages'[m].isRecoverable /\ pendingMessages'[m].registered
  BY DEF SettledOK
<1>1. PICK S \in SUBSET MsgIds : StepEffect(S)
  BY EveryStep
<1>2. Effect(pendingMessages[m], pendingMessages'[m], m \in S, Listed(m)', timestamp)
  BY <1>1 DEF StepEffect
<1> QED
  BY <1>2 DEF Effect, SettledOK, Settled

\* The list only grows, and time does not go back.
LEMMA ListGrows ==
    ASSUME IInv, [Next]_vars
    PROVE  /\ \A m \in MsgIds : Listed(m) => Listed(m)'
           /\ timestamp' \in {timestamp, timestamp + 1}
<1>1. allMessageIds \in Seq(MsgIds)
  BY DEF IInv, ListsOK
<1>2. ASSUME NEW k \in MsgIds, allMessageIds' = Append(allMessageIds, k)
      PROVE  \A m \in MsgIds : Listed(m) => Listed(m)'
  <2>1. Len(allMessageIds') = Len(allMessageIds) + 1
        /\ Len(allMessageIds) \in Nat
        /\ \A i \in 1 .. Len(allMessageIds) : allMessageIds'[i] = allMessageIds[i]
    BY <1>1, <1>2
  <2> QED
    BY <2>1 DEF Listed
<1>3. ASSUME UNCHANGED allMessageIds
      PROVE  \A m \in MsgIds : Listed(m) => Listed(m)'
  BY <1>3 DEF Listed
<1>4. /\ \/ UNCHANGED allMessageIds
         \/ \E k \in MsgIds : allMessageIds' = Append(allMessageIds, k)
      /\ timestamp' \in {timestamp, timestamp + 1}
  BY DEF Next, vars, indexVars, Tick, registerMessage, markMessageCompleted,
     reportMessageError, forceRetry, executeRecovery, Recover, handleTimeouts,
     executeBatchRecovery, emergencyRecovery, emergencyClearMessages,
     executeAutoRetries, Configure, updateRetryConfig, updateTimeoutConfig,
     setChainTimeout, setRecoveryWindow, setAutoRetryEnabled,
     setAdminRecoveryEnabled, setPaused
<1> QED
  BY <1>2, <1>3, <1>4

LEMMA ListedStep == IInv /\ ListedOK /\ [Next]_vars => ListedOK'
<1> SUFFICES ASSUME IInv, ListedOK, [Next]_vars, NEW m \in MsgIds,
                    pendingMessages'[m].registered
             PROVE  Listed(m)' /\ pendingMessages'[m].createdAt <= timestamp'
  BY DEF ListedOK, Registered
<1>1. PICK S \in SUBSET MsgIds : StepEffect(S)
  BY EveryStep
<1>2. Effect(pendingMessages[m], pendingMessages'[m], m \in S, Listed(m)', timestamp)
  BY <1>1 DEF StepEffect
<1>3. timestamp \in Nat /\ pendingMessages[m].createdAt \in Nat
  BY DEF IInv, RecordsOK, PendingMessage
<1>4. CASE pendingMessages[m].registered
  <2>1. Listed(m) /\ pendingMessages[m].createdAt <= timestamp
    BY <1>4 DEF ListedOK, Registered
  <2>2. pendingMessages'[m].createdAt = pendingMessages[m].createdAt
    BY <1>2, <1>4 DEF Effect
  <2> QED
    BY <1>3, <2>1, <2>2, ListGrows
<1>5. CASE ~pendingMessages[m].registered
  <2>1. Listed(m)' /\ pendingMessages'[m].createdAt = timestamp
    BY <1>2, <1>5 DEF Effect
  <2> QED
    BY <1>3, <2>1, ListGrows
<1> QED
  BY <1>4, <1>5

LEMMA CountStep == IInv /\ CompletionsCounted /\ [Next]_vars => CompletionsCounted'
<1> SUFFICES ASSUME IInv, CompletionsCounted, [Next]_vars
             PROVE  CompletionsCounted'
  OBVIOUS
<1> DEFINE done == {m \in MsgIds : pendingMessages[m].status = "COMPLETED"}
           done2 == {m \in MsgIds : pendingMessages'[m].status = "COMPLETED"}
<1>1. PICK S \in SUBSET MsgIds : StepEffect(S)
  BY EveryStep
<1>2. done2 \subseteq done \cup S
  <2> SUFFICES ASSUME NEW m \in MsgIds, pendingMessages'[m].status = "COMPLETED"
               PROVE  pendingMessages[m].status = "COMPLETED" \/ m \in S
    OBVIOUS
  <2>1. Effect(pendingMessages[m], pendingMessages'[m], m \in S, Listed(m)',
               timestamp)
    BY <1>1 DEF StepEffect
  <2> QED
    BY <2>1 DEF Effect
<1>3. Cardinality(done) <= completedMessages
  BY DEF CompletionsCounted
<1>4. completedMessages \in Nat /\ completedMessages' = completedMessages + Cardinality(S)
  BY <1>1 DEF StepEffect, IInv, CountersOK
<1>5. done \subseteq MsgIds /\ done2 \subseteq MsgIds /\ IsFiniteSet(MsgIds)
  BY ErrorRecoveryManagerAssumption
<1> HIDE DEF done, done2
<1>6. IsFiniteSet(done) /\ IsFiniteSet(S) /\ IsFiniteSet(done \cup S)
  BY <1>5, FS_Subset, FS_Union
<1>7. Cardinality(done2) <= Cardinality(done \cup S)
  BY <1>2, <1>6, FS_Subset
<1>8. Cardinality(done \cup S) <= Cardinality(done) + Cardinality(S)
  <2>1. Cardinality(done \cup S) =
          Cardinality(done) + Cardinality(S) - Cardinality(done \cap S)
    BY <1>6, FS_Union
  <2>2. /\ Cardinality(done) \in Nat /\ Cardinality(S) \in Nat
        /\ Cardinality(done \cap S) \in Nat
    BY <1>5, MessageCount
  <2> QED
    BY <2>1, <2>2
<1>9. /\ Cardinality(done) \in Nat /\ Cardinality(S) \in Nat
      /\ Cardinality(done2) \in Nat /\ Cardinality(done \cup S) \in Nat
  BY <1>5, MessageCount
<1>10. Cardinality(done2) <= completedMessages'
  BY <1>3, <1>4, <1>7, <1>8, <1>9
<1> QED
  BY <1>10 DEF CompletionsCounted, done2

LEMMA StepInvInit == Init => StepInv
<1> SUFFICES ASSUME Init PROVE StepInv
  OBVIOUS
<1>1. pendingMessages = [m \in MsgIds |-> DeletedMessage] /\ completedMessages = 0
  BY DEF Init
<1>2. SettledOK /\ ListedOK
  BY <1>1 DEF SettledOK, ListedOK, Registered, Settled, DeletedMessage
<1>3. {m \in MsgIds : pendingMessages[m].status = "COMPLETED"} = {}
  BY <1>1 DEF DeletedMessage
<1>4. CompletionsCounted
  BY <1>1, <1>3, FS_EmptySet DEF CompletionsCounted
<1> QED
  BY <1>2, <1>4, IInvInit DEF StepInv

\* The inductive invariant of this module holds in every reachable state.
THEOREM StepInvariance == Spec => []StepInv
<1>1. StepInv /\ [Next]_vars => StepInv'
  BY IInvStep, SettledStep, ListedStep, CountStep DEF StepInv
<1> QED
  BY <1>1, StepInvInit, PTL DEF Spec

\* completedMessages, which getSystemStats subtracts, is never below the
\* messages that are completed, whatever is cleared and completed again.
THEOREM CompletionsAreCounted == Spec => []CompletionsCounted
<1>1. StepInv => CompletionsCounted
  BY DEF StepInv
<1> QED
  BY <1>1, StepInvariance, PTL

\* The keeper's scan finds exactly the messages that are due, and every
\* registered message that timed out is in the list it works from.
THEOREM KeepersSeeAll == Spec => []KeeperSeesDueMessages
<1>1. ASSUME StepInv PROVE KeeperSeesDueMessages
  <2>1. ASSUME NEW m \in Ready PROVE m \in RetryBatch(Cardinality(MsgIds))
    <3>1. m \in MsgIds /\ pendingMessages[m].registered
      BY <1>1 DEF Ready, isReadyForRetry, StepInv, IInv, RecordsOK, GoodRecord,
                  RecordInv, PendingMessage
    <3>2. Listed(m)
      BY <1>1, <3>1 DEF StepInv, ListedOK, Registered
    <3> DEFINE earlier == {n \in Ready : Before(n, m)}
    <3>3. m \notin earlier /\ earlier \subseteq MsgIds \ {m}
      BY DEF Before, Ready
    <3>4. /\ IsFiniteSet(MsgIds \ {m})
          /\ Cardinality(MsgIds \ {m}) = Cardinality(MsgIds) - 1
      BY <3>1, ErrorRecoveryManagerAssumption, FS_RemoveElement
    <3>5. Cardinality(earlier) <= Cardinality(MsgIds \ {m})
      BY <3>3, <3>4, FS_Subset
    <3>6. earlier \subseteq MsgIds
      BY <3>3
    <3>7. Cardinality(earlier) \in Nat /\ Cardinality(MsgIds) \in Nat
      BY <3>6, MessageCount
    <3>8. Cardinality(earlier) < Cardinality(MsgIds)
      BY <3>4, <3>5, <3>7
    <3> HIDE DEF earlier
    <3> QED
      BY <3>2, <3>8 DEF RetryBatch, Listed, earlier
  <2>2. RetryBatch(Cardinality(MsgIds)) \subseteq Ready
    BY DEF RetryBatch
  <2>3. ASSUME NEW m \in Registered, isMessageTimedOut(pendingMessages[m], timestamp)
        PROVE  m \in getTimedOutMessages(0, timestamp)
    <3>1. Listed(m) /\ pendingMessages[m].createdAt <= timestamp
      BY <1>1 DEF StepInv, ListedOK
    <3>2. m \in MsgIds /\ timestamp \in Nat /\ pendingMessages[m].createdAt \in Nat
      BY <1>1 DEF StepInv, IInv, RecordsOK, PendingMessage, Registered
    <3> QED
      BY <2>3, <3>1, <3>2 DEF getTimedOutMessages, Listed
  <2> QED
    BY <2>1, <2>2, <2>3 DEF KeeperSeesDueMessages
<1> QED
  BY <1>1, StepInvariance, PTL

\* No step, of whoever and with whatever configuration, schedules a message
\* that an administrator cancelled or resolved.
THEOREM SettledIsNotRescheduled == Spec => SettledNotRescheduled
<1>1. ASSUME StepInv, [Next]_vars, NEW m \in MsgIds,
             pendingMessages[m].status \in Settled
      PROVE  \/ pendingMessages'[m].status \in
                  {"ADMIN_RESOLVED", "CANCELLED", "COMPLETED", "FAILED"}
             \/ ~pendingMessages'[m].registered
  <2>1. PICK S \in SUBSET MsgIds : StepEffect(S)
    BY <1>1, EveryStep DEF StepInv
  <2>2. Effect(pendingMessages[m], pendingMessages'[m], m \in S, Listed(m)',
               timestamp)
    BY <2>1 DEF StepEffect
  <2>3. ~pendingMessages[m].isRecoverable /\ pendingMessages[m].registered
    BY <1>1 DEF StepInv, SettledOK
  <2> QED
    BY <1>1, <2>2, <2>3 DEF Effect, Settled
<1>2. StepInv /\ [Next]_vars =>
        [\A m \in MsgIds :
          pendingMessages[m].status \in {"ADMIN_RESOLVED", "CANCELLED"} =>
             \/ pendingMessages'[m].status \in
                  {"ADMIN_RESOLVED", "CANCELLED", "COMPLETED", "FAILED"}
             \/ ~pendingMessages'[m].registered]_vars
  BY <1>1 DEF Settled
<1> QED
  BY <1>2, StepInvariance, PTL DEF Spec, SettledNotRescheduled

\* What a step may do to a message that was given up: make it PENDING at an
\* administrator's request, or attempt it and leave it not PENDING.
OnRequest(m) ==
    /\ (/\ pendingMessages[m].status # "PENDING"
        /\ pendingMessages'[m].status = "PENDING")
          => adminRetries'[m] = adminRetries[m] + 1
    /\ attempts'[m] > attempts[m] => pendingMessages'[m].status # "PENDING"

LEMMA NotAttempted ==
    ASSUME IInv, NEW m \in MsgIds, attempts'[m] = attempts[m],
           \/ pendingMessages'[m] = pendingMessages[m]
           \/ pendingMessages'[m].status # "PENDING"
    PROVE  OnRequest(m)
  BY DEF OnRequest, IInv, RecordsOK

LEMMA RecoverOnRequest ==
    ASSUME IInv, NEW m \in MsgIds, NEW ids \in SUBSET MsgIds,
           NEW action \in RecoveryAction, Recover(ids, action)
    PROVE  OnRequest(m)
<1>1. /\ attempts'[m] = attempts[m] /\ attempts[m] \in Nat
      /\ pendingMessages[m] \in PendingMessage
  BY DEF Recover, IInv, RecordsOK
<1>2. CASE m \notin ids
  <2>1. pendingMessages'[m] = pendingMessages[m]
    BY <1>2 DEF Recover
  <2> QED
    BY <1>1, <2>1, NotAttempted
<1>3. CASE m \in ids /\ action = "RETRY"
  <2>1. adminRetries'[m] = adminRetries[m] + 1
    BY <1>3 DEF Recover
  <2> QED
    BY <1>1, <2>1 DEF OnRequest
<1>4. CASE m \in ids /\ action # "RETRY"
  <2>1. pendingMessages'[m] =
          executeRecoveryAction(pendingMessages[m], action, timestamp)
    BY <1>4 DEF Recover
  <2>2. CASE action \in {"FORCE_COMPLETE", "MANUAL_RESOLVE"}
    <3>1. pendingMessages'[m] =
            [pendingMessages[m] EXCEPT !.status = "ADMIN_RESOLVED",
                                       !.isRecoverable = FALSE]
      BY <2>1, <2>2 DEF executeRecoveryAction
    <3>2. pendingMessages'[m].status # "PENDING"
      BY <1>1, <3>1 DEF PendingMessage
    <3> QED
      BY <1>1, <3>2, NotAttempted
  <2>3. CASE action \in {"CANCEL", "ROLLBACK"}
    <3>1. pendingMessages'[m] =
            [pendingMessages[m] EXCEPT !.status = "CANCELLED",
                                       !.isRecoverable = FALSE]
      BY <2>1, <2>3 DEF executeRecoveryAction
    <3>2. pendingMessages'[m].status # "PENDING"
      BY <1>1, <3>1 DEF PendingMessage
    <3> QED
      BY <1>1, <3>2, NotAttempted
  <2> QED
    BY <1>4, <2>2, <2>3 DEF RecoveryAction
<1> QED
  BY <1>2, <1>3, <1>4

LEMMA GivenUpStep ==
    ASSUME IInv, [Next]_vars, NEW m \in MsgIds,
           pendingMessages[m].registered, ~pendingMessages[m].isRecoverable,
           pendingMessages'[m].registered
    PROVE  OnRequest(m)
<1> SUFFICES ASSUME ~OnRequest(m) PROVE FALSE
  OBVIOUS
<1> DEFINE pm == pendingMessages[m]
<1>0. /\ pendingMessages \in [MsgIds -> PendingMessage] /\ pm \in PendingMessage
      /\ attempts \in [MsgIds -> Nat]
      /\ \A config : ~CanRetry(pm, config)
  BY DEF IInv, RecordsOK, CanRetry
<1>1. ASSUME UNCHANGED <<pendingMessages, attempts>> PROVE FALSE
  BY <1>1, NotAttempted
<1>2. ASSUME NEW k \in MsgIds, NEW new, UNCHANGED attempts,
             pendingMessages' = [pendingMessages EXCEPT ![k] = new],
             k = m => new.status # "PENDING"
      PROVE  FALSE
  <2>1. CASE k = m
    BY <1>0, <1>2, <2>1, NotAttempted
  <2>2. CASE k # m
    BY <1>0, <1>2, <2>2, NotAttempted
  <2> QED
    BY <2>1, <2>2
<1>3. ASSUME NEW k \in MsgIds, NEW u \in Users, NEW c \in Chains,
             registerMessage(k, u, c)
      PROVE  FALSE
  <2>1. UNCHANGED attempts /\ k # m
    BY <1>3 DEF registerMessage, historyVars, Registered
  <2> QED
    BY <1>2, <1>3, <2>1 DEF registerMessage
<1>4. ASSUME NEW k \in MsgIds, markMessageCompleted(k) PROVE FALSE
  <2>1. /\ UNCHANGED attempts
        /\ [pendingMessages[k] EXCEPT !.status = "COMPLETED"].status # "PENDING"
    BY <1>0, <1>4 DEF markMessageCompleted, historyVars, PendingMessage
  <2>2. pendingMessages' = [pendingMessages EXCEPT ![k] =
                              [pendingMessages[k] EXCEPT !.status = "COMPLETED"]]
    BY <1>4 DEF markMessageCompleted
  <2> QED
    BY <1>2, <2>1, <2>2
<1>5. ASSUME NEW k \in MsgIds, NEW b \in BOOLEAN, reportMessageError(k, b)
      PROVE  FALSE
  <2>1. UNCHANGED attempts
    BY <1>5 DEF reportMessageError, historyVars
  <2>2. PICK new : /\ pendingMessages' = [pendingMessages EXCEPT ![k] = new]
                   /\ k = m => new = [pm EXCEPT !.status = "FAILED"]
    <3>1. CASE k = m
      <4>1. pendingMessages' = [pendingMessages EXCEPT ![k] =
                                  [pm EXCEPT !.status = "FAILED"]]
        BY <1>5, <3>1 DEF reportMessageError
      <4> QED
        BY <4>1
    <3>2. CASE k # m
      BY <1>5, <3>2 DEF reportMessageError
    <3> QED
      BY <3>1, <3>2
  <2>3. k = m => new.status # "PENDING"
    BY <1>0, <2>2 DEF PendingMessage
  <2> QED
    BY <1>2, <2>1, <2>2, <2>3
<1>6. ASSUME NEW k \in MsgIds, forceRetry(k) PROVE FALSE
  <2>1. UNCHANGED attempts /\ k # m
    BY <1>0, <1>6 DEF forceRetry, historyVars
  <2> QED
    BY <1>2, <1>6, <2>1 DEF forceRetry
<1>7. ASSUME NEW ids \in SUBSET MsgIds, handleTimeouts(ids) PROVE FALSE
  <2>1. /\ attempts' = attempts
        /\ pendingMessages'[m] \in {pm, AfterTimeoutCheck(pm)}
    BY <1>7 DEF handleTimeouts, historyVars
  <2>2. AfterTimeoutCheck(pm) \in {pm, [pm EXCEPT !.status = "FAILED"]}
    BY <1>0 DEF AfterTimeoutCheck, handleMessageTimeout, ShouldRetryTimeout
  <2>3. [pm EXCEPT !.status = "FAILED"].status # "PENDING"
    BY <1>0 DEF PendingMessage
  <2> QED
    BY <2>1, <2>2, <2>3, NotAttempted
<1>8. ASSUME NEW limit \in Nat, executeAutoRetries(limit) PROVE FALSE
  <2> DEFINE batch == RetryBatch(limit)
  <2>1. PICK succeeded \in SUBSET batch :
          pendingMessages'[m] = IF m \in batch
                                THEN AfterRetry(pm, m \in succeeded) ELSE pm
    BY <1>8 DEF executeAutoRetries
  <2>2. attempts'[m] = IF m \in batch THEN attempts[m] + 1 ELSE attempts[m]
    BY <1>8 DEF executeAutoRetries
  <2> HIDE DEF batch
  <2>3. CASE m \notin batch
    BY <2>1, <2>2, <2>3, NotAttempted
  <2>4. CASE m \in batch
    <3> DEFINE qm == [pm EXCEPT !.status = "PROCESSING"]
    <3>1. ~CanRetry(qm, retryConfig)
      BY DEF CanRetry, PendingMessage
    <3>2. pendingMessages'[m] \in {[pm EXCEPT !.status = "COMPLETED"],
                                   [qm EXCEPT !.status = "FAILED"]}
      BY <2>1, <2>4, <3>1 DEF AfterRetry, handleRetryFailure
    <3>3. pendingMessages'[m].status # "PENDING"
      BY <1>0, <3>2 DEF PendingMessage
    <3> QED
      BY <3>3 DEF OnRequest
  <2> QED
    BY <2>3, <2>4
<1>9. ASSUME NEW ids \in SUBSET MsgIds, emergencyClearMessages(ids) PROVE FALSE
  <2>1. m \notin ids
    BY <1>9 DEF emergencyClearMessages, DeletedMessage
  <2>2. attempts'[m] = attempts[m] /\ pendingMessages'[m] = pm
    BY <1>9, <2>1 DEF emergencyClearMessages
  <2> QED
    BY <2>2, NotAttempted
<1>10. ASSUME NEW ids \in SUBSET MsgIds, NEW action \in RecoveryAction,
              Recover(ids, action)
       PROVE  FALSE
  BY <1>10, RecoverOnRequest
<1>11. ASSUME NEW k \in MsgIds, NEW a \in RecoveryRole, NEW act \in RecoveryAction,
              NEW b \in BOOLEAN, executeRecovery(a, k, act, b)
       PROVE  FALSE
  <2>1. {k} \in SUBSET MsgIds /\ Recover({k}, act)
    BY <1>11 DEF executeRecovery
  <2> QED
    BY <1>10, <2>1
<1>12. ASSUME NEW ids \in SUBSET MsgIds, NEW a \in RecoveryRole,
              NEW act \in RecoveryAction, executeBatchRecovery(a, ids, act)
       PROVE  FALSE
  <2>1. BatchRecovered(ids, act) \in SUBSET MsgIds
    BY DEF BatchRecovered
  <2> QED
    BY <1>10, <1>12, <2>1 DEF executeBatchRecovery
<1>13. ASSUME NEW ids \in SUBSET MsgIds, emergencyRecovery(ids) PROVE FALSE
  <2> DEFINE affected == {n \in ids \cap Registered :
                            ~isStatusFinal(pendingMessages[n].status)}
  <2>1. affected \in SUBSET MsgIds /\ "MANUAL_RESOLVE" \in RecoveryAction
    BY DEF RecoveryAction
  <2>2. Recover(affected, "MANUAL_RESOLVE")
    BY <1>13 DEF emergencyRecovery
  <2> HIDE DEF affected
  <2> QED
    BY <1>10, <2>1, <2>2
<1>14. CASE Configure \/ Tick \/ UNCHANGED vars
  <2>1. UNCHANGED <<pendingMessages, attempts>>
    BY <1>14 DEF Configure, updateRetryConfig, updateTimeoutConfig,
       setChainTimeout, setRecoveryWindow, setAutoRetryEnabled,
       setAdminRecoveryEnabled, setPaused, Tick, vars, historyVars
  <2> QED
    BY <1>1, <2>1
<1> QED
  BY <1>3, <1>4, <1>5, <1>6, <1>7, <1>8, <1>9, <1>11, <1>12, <1>13, <1>14,
     MessageCount DEF Next

\* A message a recovery gave up is retried once for each time an administrator
\* asks for it, and otherwise never again, short of clearing its record.
THEOREM GivenUpNeedsRequest == Spec => GivenUpRetriedOnRequest
<1>1. ASSUME StepInv, [Next]_vars, NEW m \in MsgIds,
             pendingMessages[m].registered, ~pendingMessages[m].isRecoverable,
             pendingMessages'[m].registered
      PROVE  /\ ~pendingMessages'[m].isRecoverable
             /\ pendingMessages'[m].retryCount = pendingMessages[m].retryCount
             /\ OnRequest(m)
  <2>1. PICK S \in SUBSET MsgIds : StepEffect(S)
    BY <1>1, EveryStep DEF StepInv
  <2>2. Effect(pendingMessages[m], pendingMessages'[m], m \in S, Listed(m)',
               timestamp)
    BY <2>1 DEF StepEffect
  <2>3. OnRequest(m)
    BY <1>1, GivenUpStep DEF StepInv
  <2> QED
    BY <1>1, <2>2, <2>3 DEF Effect
<1>2. StepInv /\ [Next]_vars =>
        [\A m \in MsgIds :
          (/\ pendingMessages[m].registered
           /\ ~pendingMessages[m].isRecoverable
           /\ pendingMessages'[m].registered) =>
             /\ ~pendingMessages'[m].isRecoverable
             /\ pendingMessages'[m].retryCount = pendingMessages[m].retryCount
             /\ (/\ pendingMessages[m].status # "PENDING"
                 /\ pendingMessages'[m].status = "PENDING")
                   => adminRetries'[m] = adminRetries[m] + 1
             /\ attempts'[m] > attempts[m]
                   => pendingMessages'[m].status # "PENDING"]_vars
  BY <1>1 DEF OnRequest
<1> QED
  BY <1>2, StepInvariance, PTL DEF Spec, GivenUpRetriedOnRequest
=============================================================================
