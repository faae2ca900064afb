-------------------------- MODULE MonitoringLogger --------------------------
(***************************************************************************)
(* The contract contracts/shared/MonitoringLogger.sol: log entries with    *)
(* their indexes, metrics and alert rules.                                 *)
(*                                                                         *)
(* One action is one transaction by a holder of the role it needs.  Texts, *)
(* chain ids, gas figures and operation types are left out: no decision    *)
(* reads them.  A deleted record is absent from its mapping.  The audit     *)
(* trail, which is only appended to and cleared, is left out.              *)
(***************************************************************************)
EXTENDS Integers, FiniteSets, SequencesExt

CONSTANTS
    MsgIds, NoMsg,     \* message ids, and bytes32(0)
    Users, NoUser,     \* addresses, and address(0)
    CustomMetrics,     \* metric names beside the default ones
    MAX_UINT,          \* type(uint256).max
    MetricInputs, ValueInputs,        \* arguments callers pass
    ThresholdInputs, CooldownInputs,
    LevelInputs,
    MaxLogs, MaxAlerts,               \* bounds: the ids of each kind,
    MaxTime, MaxSum,                  \* the last block, a metric's total,
    MaxUpdated        \* the metrics with an update, until all are cleared

DEBUG == 0
INFO == 1
WARNING == 2
ERROR == 3
CRITICAL == 4
LogLevel == DEBUG .. CRITICAL

DefaultNames ==
    <<"operations_total", "operations_successful", "operations_failed",
      "logs_debug", "logs_info", "logs_warning", "logs_error",
      "logs_critical", "operation_duration_ms">>

MetricNames == ToSet(DefaultNames) \cup CustomMetrics

LogCounter(level) == DefaultNames[4 + level]

ASSUME MonitoringLoggerAssumption ==
    /\ {MAX_UINT, MaxLogs, MaxAlerts, MaxTime, MaxSum, MaxUpdated} \subseteq Nat
    /\ NoMsg \notin MsgIds /\ NoUser \notin Users
    /\ CustomMetrics \cap ToSet(DefaultNames) = {}
    /\ MetricInputs \subseteq MetricNames
    /\ ValueInputs \subseteq 0 .. MAX_UINT
    /\ ThresholdInputs \cup CooldownInputs \subseteq Nat
    /\ LevelInputs \subseteq LogLevel

VARIABLES
    logs, logIdCounter, allLogIds, messageToLogs, userToLogs,
    metrics, metricNames,
    alertRules, alertIdCounter, activeAlerts,
    minLogLevel, loggingEnabled, metricsEnabled, alertingEnabled,
    timestamp  \* block.timestamp

logVars == <<logs, logIdCounter, allLogIds, messageToLogs, userToLogs>>
metricVars == <<metrics, metricNames>>
alertVars == <<alertRules, alertIdCounter, activeAlerts>>
configVars == <<minLogLevel, loggingEnabled, metricsEnabled, alertingEnabled>>
vars == <<logVars, metricVars, alertVars, configVars, timestamp>>

emptyMetric ==
    [metricType |-> "COUNTER", value |-> 0, count |-> 0, sum |-> 0,
     min |-> 0, max |-> 0, lastUpdated |-> 0]

\* _initializeDefaultMetrics, on the metrics it finds.
withDefaults(ms) ==
    [n \in MetricNames |->
        CASE n = "operation_duration_ms" ->
                [ms[n] EXCEPT !.metricType = "HISTOGRAM", !.min = MAX_UINT]
          [] n \in CustomMetrics -> ms[n]
          [] OTHER -> [ms[n] EXCEPT !.metricType = "COUNTER"]]

Init ==
    /\ logs = <<>> /\ logIdCounter = 0 /\ allLogIds = <<>>
    /\ messageToLogs = [m \in MsgIds |-> <<>>]
    /\ userToLogs = [u \in Users |-> <<>>]
    /\ metrics = withDefaults([n \in MetricNames |-> emptyMetric])
    /\ metricNames = DefaultNames
    /\ alertRules = <<>> /\ alertIdCounter = 0 /\ activeAlerts = <<>>
    /\ minLogLevel = INFO
    /\ loggingEnabled = TRUE /\ metricsEnabled = TRUE /\ alertingEnabled = TRUE
    /\ timestamp = 1

Tick ==
    /\ timestamp < MaxTime
    /\ timestamp' = timestamp + 1
    /\ UNCHANGED <<logVars, metricVars, alertVars, configVars>>

----------------------------------------------------------------------------
(* Log entries *)

entry(level, messageId, user) ==
    [timestamp |-> timestamp, level |-> level, messageId |-> messageId,
     user |-> user]

\* Mutant: the newest id goes first.
pushFirst(list, ids) == ids \o list

push(list, ids) == list \o ids

\* The calls to _addLog a transaction makes, in order.  Only the first may name
\* a message or a user: the entries of alerts name neither.
addEntries(entries) ==
    LET ids == [i \in DOMAIN entries |-> logIdCounter + i]
    IN  /\ \A i \in DOMAIN entries :
              loggingEnabled /\ entries[i].level >= minLogLevel
        /\ logIdCounter + Len(entries) <= MaxLogs
        /\ logIdCounter' = logIdCounter + Len(entries)
        /\ logs' = [id \in DOMAIN logs \cup ToSet(ids) |->
                       IF id \in ToSet(ids) THEN entries[id - logIdCounter]
                                            ELSE logs[id]]
        /\ allLogIds' = push(allLogIds, ids)
        /\ messageToLogs' = [m \in MsgIds |->
               IF entries # <<>> /\ entries[1].messageId = m
               THEN push(messageToLogs[m], <<logIdCounter + 1>>)
               ELSE messageToLogs[m]]
        /\ userToLogs' = [u \in Users |->
               IF entries # <<>> /\ entries[1].user = u
               THEN push(userToLogs[u], <<logIdCounter + 1>>)
               ELSE userToLogs[u]]

\* _updateLogMetrics for each of the entries.
counted(ms, entries) ==
    [n \in MetricNames |->
        [ms[n] EXCEPT !.value = @ +
            Cardinality({i \in DOMAIN entries : LogCounter(entries[i].level) = n})]]

\* addLog, and addSimpleLog with neither message nor user.
addLog(level, messageId, user) ==
    LET entries == <<entry(level, messageId, user)>>
    IN  /\ addEntries(entries)
        /\ metrics' = counted(metrics, entries)
        /\ UNCHANGED <<metricNames, alertVars, configVars, timestamp>>

\* Archived entries are deleted; their ids stay in every list.
archiveLogs(beforeTimestamp) ==
    /\ logs' = [id \in {l \in DOMAIN logs : logs[l].timestamp >= beforeTimestamp}
                   |-> logs[id]]
    /\ UNCHANGED <<logIdCounter, allLogIds, messageToLogs, userToLogs, metricVars,
                   alertVars, configVars, timestamp>>

----------------------------------------------------------------------------
(* Alerts and metrics *)

createAlertRule(metricName, threshold, cooldown) ==
    LET id == alertIdCounter + 1
    IN  /\ id <= MaxAlerts
        /\ alertIdCounter' = id
        /\ alertRules' = [a \in DOMAIN alertRules \cup {id} |->
               IF a = id
               THEN [metricName |-> metricName, threshold |-> threshold,
                     cooldown |-> cooldown, lastTriggered |-> 0]
               ELSE alertRules[a]]
        /\ activeAlerts' = Append(activeAlerts, id)
        /\ UNCHANGED <<logVars, metricVars, configVars, timestamp>>

\* The rules _checkAlerts triggers.
triggered(name, value) ==
    {a \in ToSet(activeAlerts) :
        /\ alertingEnabled
        /\ alertRules[a].metricName = name
        /\ timestamp >= alertRules[a].lastTriggered + alertRules[a].cooldown
        /\ value >= alertRules[a].threshold}

\* Mutant: the smallest sample starts at zero.
firstUseMinZero(metric, type) ==
    IF metric.lastUpdated = 0 THEN [metric EXCEPT !.metricType = type, !.min = 0]
                              ELSE metric

\* lastUpdated 0 makes a metric new, whatever the logging paths counted in it.
firstUse(metric, type) ==
    IF metric.lastUpdated = 0
    THEN [metric EXCEPT !.metricType = type,
                        !.min = IF type = "HISTOGRAM" THEN MAX_UINT ELSE @]
    ELSE metric

namesAfterUse(metric, name) ==
    IF metric.lastUpdated = 0 THEN Append(metricNames, name) ELSE metricNames

\* The end of every update: store the metric, list a new name, and log each
\* alert it triggers after the entries of the transaction itself.
\* An alert that may not be logged undoes the update.
store(ms, name, metric, entries) ==
    LET alerts == triggered(name, metric.value)
        logged == entries \o
                  [i \in 1 .. Cardinality(alerts) |->
                      entry(WARNING, NoMsg, NoUser)]
    IN  /\ metricsEnabled
        /\ Cardinality({n \in MetricNames :
                           n = name \/ ms[n].lastUpdated # 0}) <= MaxUpdated
        /\ addEntries(logged)
        /\ metrics' = counted([ms EXCEPT ![name] =
                                  [metric EXCEPT !.lastUpdated = timestamp]],
                              logged)
        /\ metricNames' = namesAfterUse(ms[name], name)
        /\ alertRules' = [a \in DOMAIN alertRules |->
               IF a \in alerts
               THEN [alertRules[a] EXCEPT !.lastTriggered = timestamp]
               ELSE alertRules[a]]
        /\ UNCHANGED <<alertIdCounter, activeAlerts, configVars,
                       timestamp>>

updateCounter(name, increment) ==
    LET metric == firstUse(metrics[name], "COUNTER")
    IN  /\ metric.metricType = "COUNTER"
        /\ metric.value + increment <= MaxSum
        /\ store(metrics, name,
                 [metric EXCEPT !.value = @ + increment, !.count = @ + 1], <<>>)

updateGauge(name, value) ==
    LET metric == firstUse(metrics[name], "GAUGE")
    IN  /\ metric.metricType = "GAUGE"
        /\ store(metrics, name, [metric EXCEPT !.value = value], <<>>)

withSample(metric, value) ==
    [metric EXCEPT !.count = @ + 1,
                   !.sum   = @ + value,
                   !.value = (metric.sum + value) \div (metric.count + 1),
                   !.min   = IF value < @ THEN value ELSE @,
                   !.max   = IF value > @ THEN value ELSE @]

\* _updateHistogram, within a transaction that logs entries.
sample(ms, name, value, entries) ==
    LET metric == firstUse(ms[name], "HISTOGRAM")
    IN  /\ metric.metricType = "HISTOGRAM"
        /\ metric.sum + value <= MaxSum
        /\ store(ms, name, withSample(metric, value), entries)

\* updateHistogram, and recordTiming under the name it makes.
updateHistogram(name, value) == sample(metrics, name, value, <<>>)

\* _updateOperationMetrics, without the duration.
operationCounted(success) ==
    [n \in MetricNames |->
        [metrics[n] EXCEPT !.value = @ +
            IF \/ n = "operations_total"
               \/ n = "operations_successful" /\ success
               \/ n = "operations_failed" /\ ~success
            THEN 1 ELSE 0]]

logOperation(messageId, user, success, duration) ==
    LET entries == <<entry(IF success THEN INFO ELSE ERROR, messageId, user)>>
    IN  \/ /\ duration = 0
           /\ addEntries(entries)
           /\ metrics' = counted(operationCounted(success), entries)
           /\ UNCHANGED <<metricNames, alertVars, configVars,
                          timestamp>>
        \/ /\ duration > 0
           /\ sample(operationCounted(success), "operation_duration_ms",
                     duration, entries)

----------------------------------------------------------------------------
(* Administration *)

setMinLogLevel(level) ==
    /\ minLogLevel' = level
    /\ UNCHANGED <<logVars, metricVars, alertVars, loggingEnabled,
                   metricsEnabled, alertingEnabled, timestamp>>

setLoggingEnabled(enabled) ==
    /\ loggingEnabled' = enabled
    /\ UNCHANGED <<logVars, metricVars, alertVars, minLogLevel,
                   metricsEnabled, alertingEnabled, timestamp>>

setMetricsEnabled(enabled) ==
    /\ metricsEnabled' = enabled
    /\ UNCHANGED <<logVars, metricVars, alertVars, minLogLevel,
                   loggingEnabled, alertingEnabled, timestamp>>

setAlertingEnabled(enabled) ==
    /\ alertingEnabled' = enabled
    /\ UNCHANGED <<logVars, metricVars, alertVars, minLogLevel,
                   loggingEnabled, metricsEnabled, timestamp>>

\* What the clearing loops delete; the counters and the indexes by message and
\* by user are not among it.
clearRecords ==
    /\ logs' = [id \in DOMAIN logs \ ToSet(allLogIds) |-> logs[id]]
    /\ allLogIds' = <<>>
    /\ metrics' = withDefaults([n \in MetricNames |->
           IF n \in ToSet(metricNames) THEN emptyMetric ELSE metrics[n]])
    /\ metricNames' = DefaultNames
    /\ alertRules' = [a \in DOMAIN alertRules \ ToSet(activeAlerts)
                         |-> alertRules[a]]
    /\ activeAlerts' = <<>>

\* Mutant: ids start again after clearing.
emergencyClearAllDataReset ==
    /\ clearRecords
    /\ logIdCounter' = 0 /\ alertIdCounter' = 0
    /\ UNCHANGED <<messageToLogs, userToLogs, configVars, timestamp>>

emergencyClearAllData ==
    /\ clearRecords
    /\ UNCHANGED <<logIdCounter, messageToLogs, userToLogs, alertIdCounter,
                   configVars, timestamp>>

----------------------------------------------------------------------------

Next ==
    \/ Tick
    \/ \E l \in LevelInputs, m \in MsgIds \cup {NoMsg}, u \in Users \cup {NoUser} :
          addLog(l, m, u)
    \/ \E m \in MsgIds, u \in Users, s \in BOOLEAN, d \in {0} \cup ValueInputs :
          logOperation(m, u, s, d)
    \/ \E n \in MetricInputs, v \in ValueInputs :
          updateCounter(n, v) \/ updateGauge(n, v) \/ updateHistogram(n, v)
    \/ \E n \in MetricInputs, t \in ThresholdInputs, c \in CooldownInputs :
          createAlertRule(n, t, c)
    \/ \E l \in LevelInputs : setMinLogLevel(l)
    \/ \E b \in BOOLEAN :
          setLoggingEnabled(b) \/ setMetricsEnabled(b) \/ setAlertingEnabled(b)
    \/ \E t \in 1 .. timestamp : archiveLogs(t)
    \/ emergencyClearAllData

Spec == Init /\ [][Next]_vars

----------------------------------------------------------------------------
(* Properties *)

LogEntry ==
    [timestamp : Nat, level : LogLevel, messageId : MsgIds \cup {NoMsg},
     user : Users \cup {NoUser}]

Metric ==
    [metricType : {"COUNTER", "GAUGE", "HISTOGRAM"}, value : Nat, count : Nat,
     sum : Nat, min : Nat, max : Nat, lastUpdated : Nat]

AlertRule ==
    [metricName : MetricNames, threshold : Nat, cooldown : Nat,
     lastTriggered : Nat]

\* Every variable stays within its type, and ids are not ahead of their
\* counters.
TypeOK ==
    /\ DOMAIN logs \subseteq 1 .. logIdCounter
    /\ \A id \in DOMAIN logs : logs[id] \in LogEntry
    /\ messageToLogs \in [MsgIds -> Seq(1 .. logIdCounter)]
    /\ userToLogs \in [Users -> Seq(1 .. logIdCounter)]
    /\ metrics \in [MetricNames -> Metric]
    /\ metricNames \in Seq(MetricNames)
    /\ DOMAIN alertRules \subseteq 1 .. alertIdCounter
    /\ \A a \in DOMAIN alertRules : alertRules[a] \in AlertRule
    /\ ToSet(activeAlerts) = DOMAIN alertRules
    /\ minLogLevel \in LogLevel
    /\ {loggingEnabled, metricsEnabled, alertingEnabled} \subseteq BOOLEAN
    /\ timestamp \in Nat

\* The lists tell the truth about the live entries, through archiving and
\* clearing: an entry is in the list of its message and of its user and in no
\* other, although stale ids stay in all of them and are never removed.
IndexesTellTruth ==
    \A id \in DOMAIN logs :
        /\ \A m \in MsgIds :
              id \in ToSet(messageToLogs[m]) <=> logs[id].messageId = m
        /\ \A u \in Users : id \in ToSet(userToLogs[u]) <=> logs[id].user = u
        /\ Cardinality({i \in DOMAIN allLogIds : allLogIds[i] = id}) = 1

\* getRecentLogs, which reads allLogIds from its end, returns the newest
\* entries first, also after some were archived or all were cleared.
RecentLogsNewestFirst ==
    \A i, j \in DOMAIN allLogIds : i < j =>
        /\ allLogIds[i] < allLogIds[j]
        /\ {allLogIds[i], allLogIds[j]} \subseteq DOMAIN logs =>
              logs[allLogIds[i]].timestamp <= logs[allLogIds[j]].timestamp

\* The lists of log ids can be read: by message, by user and from the newest
\* entry back they show the live entries, after any archiving and clearing.
LogsListed == IndexesTellTruth /\ RecentLogsNewestFirst

\* Unless a monitor wrote to them directly, the operation counters add up,
\* whatever part of a logged operation was refused.
OperationsAddUp ==
    LET Untouched(n) == metrics[n].lastUpdated = 0
    IN  (\A i \in 1 .. 3 : Untouched(DefaultNames[i])) =>
            metrics["operations_total"].value =
                metrics["operations_successful"].value
                  + metrics["operations_failed"].value

\* A histogram that no logging path counts in is coherent: its average lies
\* between its smallest and largest sample, and one sample is all three.
HistogramsCoherent ==
    \A n \in CustomMetrics \cup {"operation_duration_ms"} :
        (metrics[n].metricType = "HISTOGRAM" /\ metrics[n].count > 0) =>
            /\ metrics[n].min <= metrics[n].value
            /\ metrics[n].value <= metrics[n].max
            /\ metrics[n].count = 1 =>
                  metrics[n].min = metrics[n].sum /\ metrics[n].max = metrics[n].sum

\* Every metric that was ever written is in metricNames, so getAllMetricNames
\* shows it and clearing reaches it.
MetricsListed ==
    \A n \in MetricNames :
        metrics[n] # emptyMetric => n \in ToSet(metricNames)

\* The metrics can be read: the operation counters add up, the histograms
\* are coherent and nothing written is missing from the list of names, in
\* whatever order logging, updates, re-typing and clearing come.
MetricsCoherent == OperationsAddUp /\ HistogramsCoherent /\ MetricsListed
=============================================================================
