----------------------- MODULE MonitoringLoggerProofs -----------------------
(***************************************************************************)
(* Theorems about MonitoringLogger: type correctness, what the lists of    *)
(* log ids show, and what the metrics show.                                *)
(***************************************************************************)
EXTENDS MonitoringLogger, FiniteSetTheorems, SequenceTheorems, TLAPS

----------------------------------------------------------------------------
(* Lists of ids *)

Increasing(s) == \A i, j \in DOMAIN s : i < j => s[i] < s[j]

LEMMA PushedSeq ==
    ASSUME NEW S, NEW s \in Seq(S), NEW t \in Seq(S)
    PROVE  /\ push(s, t) \in Seq(S)
           /\ ToSet(push(s, t)) = ToSet(s) \cup ToSet(t)
  <1>1. /\ s \o t \in Seq(S) /\ Len(s \o t) = Len(s) + Len(t)
        /\ \A i \in 1 .. Len(s) + Len(t) :
              (s \o t)[i] = IF i <= Len(s) THEN s[i] ELSE t[i - Len(s)]
    BY ConcatProperties
  <1>2. /\ Len(s) \in Nat /\ DOMAIN s = 1 .. Len(s)
        /\ Len(t) \in Nat /\ DOMAIN t = 1 .. Len(t)
        /\ DOMAIN (s \o t) = 1 .. Len(s) + Len(t)
    BY <1>1, LenProperties
  <1>3. \A x \in ToSet(s \o t) : x \in ToSet(s) \cup ToSet(t)
    BY <1>1, <1>2 DEF ToSet
  <1>4. \A x \in ToSet(s) : x \in ToSet(s \o t)
    BY <1>1, <1>2 DEF ToSet
  <1>5. ASSUME NEW x \in ToSet(t) PROVE x \in ToSet(s \o t)
    <2>1. PICK i \in 1 .. Len(t) : x = t[i]
      BY <1>2 DEF ToSet
    <2>2. (s \o t)[Len(s) + i] = x /\ Len(s) + i \in DOMAIN (s \o t)
      BY <1>1, <1>2, <2>1
    <2> QED BY <2>2 DEF ToSet
  <1> QED BY <1>1, <1>3, <1>4, <1>5 DEF push

\* Ids beyond the counter keep a list increasing.
LEMMA PushedIds ==
    ASSUME NEW c \in Nat, NEW k \in Nat, NEW s \in Seq(1 .. c), Increasing(s)
    PROVE  LET ids == [i \in 1 .. k |-> c + i]
           IN  /\ ids \in Seq(1 .. c + k)
               /\ push(s, ids) \in Seq(1 .. c + k)
               /\ Increasing(push(s, ids))
               /\ ToSet(ids) = c + 1 .. c + k
               /\ ToSet(push(s, ids)) = ToSet(s) \cup (c + 1 .. c + k)
  <1> DEFINE ids == [i \in 1 .. k |-> c + i]
             p == push(s, ids)
  <1>1. ids \in [1 .. k -> 1 .. c + k] /\ DOMAIN ids = 1 .. k
    OBVIOUS
  <1>2. ids \in Seq(1 .. c + k) /\ Len(ids) = k
    BY <1>1, SeqDef, LenProperties
  <1>3. s \in Seq(1 .. c + k)
    <2>1. 1 .. c \subseteq 1 .. c + k
      OBVIOUS
    <2> QED BY <2>1, SeqMonotonic
  <1>4. \A i \in 1 .. k : ids[i] = c + i
    OBVIOUS
  <1> HIDE DEF ids
  <1>5. ToSet(ids) = c + 1 .. c + k
    <2>1. \A x \in c + 1 .. c + k : x - c \in 1 .. k /\ ids[x - c] = x
      BY <1>4
    <2>2. \A x \in c + 1 .. c + k : \E i \in DOMAIN ids : ids[i] = x
      BY <1>1, <2>1
    <2>3. \A i \in DOMAIN ids : ids[i] \in c + 1 .. c + k
      BY <1>1, <1>4
    <2> QED BY <2>2, <2>3 DEF ToSet
  <1>6. p \in Seq(1 .. c + k) /\ ToSet(p) = ToSet(s) \cup (c + 1 .. c + k)
    BY <1>2, <1>3, <1>5, PushedSeq
  <1>7. /\ DOMAIN s = 1 .. Len(s) /\ Len(s) \in Nat
        /\ DOMAIN p = 1 .. Len(s) + k
        /\ \A i \in DOMAIN p : p[i] = IF i <= Len(s) THEN s[i] ELSE c + (i - Len(s))
    <2>1. /\ Len(p) = Len(s) + k /\ DOMAIN p = 1 .. Len(s) + k
          /\ \A i \in 1 .. Len(s) + k :
                p[i] = IF i <= Len(s) THEN s[i] ELSE ids[i - Len(s)]
      <3>1. /\ Len(s \o ids) = Len(s) + k
            /\ \A i \in 1 .. Len(s) + k :
                  (s \o ids)[i] = IF i <= Len(s) THEN s[i] ELSE ids[i - Len(s)]
        BY <1>2, <1>3, ConcatProperties
      <3>2. p = s \o ids
        BY DEF push
      <3>3. DOMAIN p = 1 .. Len(p)
        BY <1>6, LenProperties
      <3> HIDE DEF p
      <3> QED BY <3>1, <3>2, <3>3
    <2>2. DOMAIN s = 1 .. Len(s) /\ Len(s) \in Nat
      BY LenProperties
    <2> QED BY <2>1, <2>2, <1>4
  <1>8. \A i \in DOMAIN s : s[i] \in 1 .. c
    BY <1>7, ElementOfSeq
  <1> HIDE DEF p
  <1>9. ASSUME NEW i \in DOMAIN p, NEW j \in DOMAIN p, i < j PROVE p[i] < p[j]
    <2>1. CASE j <= Len(s)
      BY <1>7, <1>9, <2>1 DEF Increasing
    <2>2. CASE i <= Len(s) /\ ~(j <= Len(s))
      <3>1. p[i] = s[i] /\ s[i] \in 1 .. c
        BY <1>7, <1>8, <2>2
      <3>2. p[j] = c + (j - Len(s)) /\ j - Len(s) >= 1 /\ j - Len(s) \in Int
        BY <1>7, <2>2
      <3> QED BY <3>1, <3>2
    <2>3. CASE ~(i <= Len(s))
      <3>1. p[i] = c + (i - Len(s)) /\ p[j] = c + (j - Len(s))
        BY <1>7, <1>9, <2>3
      <3> QED BY <3>1, <1>7, <1>9
    <2> QED BY <1>7, <2>1, <2>2, <2>3
  <1>10. Increasing(p)
    BY <1>9 DEF Increasing
  <1> QED BY <1>2, <1>5, <1>6, <1>10 DEF p, ids

LEMMA Wider ==
    ASSUME NEW c \in Nat, NEW k \in Nat, NEW s \in Seq(1 .. c)
    PROVE  s \in Seq(1 .. c + k)
  <1>1. 1 .. c \subseteq 1 .. c + k
    OBVIOUS
  <1> QED BY <1>1, SeqMonotonic

LEMMA PushedOne ==
    ASSUME NEW S, NEW s \in Seq(S), NEW x \in S
    PROVE  push(s, <<x>>) \in Seq(S) /\ ToSet(push(s, <<x>>)) = ToSet(s) \cup {x}
  <1> DEFINE one == <<x>>
  <1>1. one \in Seq(S)
    OBVIOUS
  <1>2. ToSet(one) = {x}
    BY DEF ToSet
  <1> HIDE DEF one
  <1>3. /\ push(s, one) \in Seq(S)
        /\ ToSet(push(s, one)) = ToSet(s) \cup ToSet(one)
    BY <1>1, PushedSeq
  <1> QED BY <1>2, <1>3 DEF one

LEMMA AppendedSet ==
    ASSUME NEW S, NEW s \in Seq(S), NEW x \in S
    PROVE  Append(s, x) \in Seq(S) /\ ToSet(Append(s, x)) = ToSet(s) \cup {x}
  <1> DEFINE ap == Append(s, x)
  <1>1. /\ ap \in Seq(S) /\ Len(ap) = Len(s) + 1
        /\ \A i \in 1 .. Len(s) : ap[i] = s[i]
        /\ ap[Len(s) + 1] = x
    BY AppendProperties
  <1>2. /\ Len(s) \in Nat /\ DOMAIN s = 1 .. Len(s)
        /\ DOMAIN ap = 1 .. Len(s) + 1
    BY <1>1, LenProperties
  <1> HIDE DEF ap
  <1>3. \A y \in ToSet(ap) : y \in ToSet(s) \cup {x}
    BY <1>1, <1>2 DEF ToSet
  <1>4. x \in ToSet(ap)
    BY <1>1, <1>2 DEF ToSet
  <1>5. \A y \in ToSet(s) : y \in ToSet(ap)
    BY <1>1, <1>2 DEF ToSet
  <1> QED BY <1>1, <1>3, <1>4, <1>5 DEF ap

\* An increasing list holds each of its ids once.
LEMMA OnceInIncreasing ==
    ASSUME NEW s, s \in Seq(Int), Increasing(s), NEW x \in ToSet(s)
    PROVE  Cardinality({i \in DOMAIN s : s[i] = x}) = 1
  <1>1. PICK i \in DOMAIN s : s[i] = x
    BY DEF ToSet
  <1>2. \A j \in DOMAIN s : s[j] \in Int /\ j \in Int
    BY LenProperties, ElementOfSeq
  <1>3. \A j \in DOMAIN s : s[j] = x => j = i
    BY <1>1, <1>2 DEF Increasing
  <1>4. {j \in DOMAIN s : s[j] = x} = {i}
    BY <1>1, <1>3
  <1> QED BY <1>4, FS_Singleton

----------------------------------------------------------------------------
(* The inductive invariant *)

InOrder(ls) == \A a, b \in DOMAIN ls : a < b => ls[a].timestamp <= ls[b].timestamp

LogsOK ==
    /\ timestamp \in Nat \ {0} /\ logIdCounter \in Nat
    /\ DOMAIN logs \subseteq 1 .. logIdCounter
    /\ \A id \in DOMAIN logs : logs[id] \in LogEntry /\ logs[id].timestamp <= timestamp
    /\ InOrder(logs)
    /\ allLogIds \in Seq(1 .. logIdCounter) /\ Increasing(allLogIds)
    /\ DOMAIN logs \subseteq ToSet(allLogIds)
    /\ messageToLogs \in [MsgIds -> Seq(1 .. logIdCounter)]
    /\ userToLogs \in [Users -> Seq(1 .. logIdCounter)]
    /\ \A id \in DOMAIN logs :
          /\ \A m \in MsgIds :
                id \in ToSet(messageToLogs[m]) <=> logs[id].messageId = m
          /\ \A u \in Users : id \in ToSet(userToLogs[u]) <=> logs[id].user = u

AlertsOK ==
    /\ alertIdCounter \in Nat
    /\ DOMAIN alertRules \subseteq 1 .. alertIdCounter
    /\ \A a \in DOMAIN alertRules : alertRules[a] \in AlertRule
    /\ activeAlerts \in Seq(1 .. alertIdCounter)
    /\ ToSet(activeAlerts) = DOMAIN alertRules

ConfigOK ==
    /\ minLogLevel \in LogLevel
    /\ {loggingEnabled, metricsEnabled, alertingEnabled} \subseteq BOOLEAN

\* A histogram's average is derived from its samples, which lie between its
\* smallest and its largest; a metric without an update has no sample.
SamplesOK(metric) ==
    /\ metric.lastUpdated = 0 => metric.count = 0 /\ metric.sum = 0 /\ metric.max = 0
    /\ metric.metricType = "HISTOGRAM" /\ metric.lastUpdated # 0 =>
          /\ metric.count > 0
          /\ metric.min * metric.count <= metric.sum
          /\ metric.sum <= metric.max * metric.count
          /\ metric.value = metric.sum \div metric.count
          /\ metric.count = 1 => metric.min = metric.sum /\ metric.max = metric.sum

Sampled == CustomMetrics \cup {"operation_duration_ms"}

OpsAdd(ms) ==
    (\A i \in 1 .. 3 : ms[DefaultNames[i]].lastUpdated = 0) =>
        ms["operations_total"].value =
            ms["operations_successful"].value + ms["operations_failed"].value

MsOK(ms, names) ==
    /\ ms \in [MetricNames -> Metric]
    /\ names \in Seq(MetricNames)
    /\ ToSet(DefaultNames) \subseteq ToSet(names)
    /\ \A n \in MetricNames : ms[n] # emptyMetric => n \in ToSet(names)
    /\ OpsAdd(ms)
    /\ \A n \in Sampled : SamplesOK(ms[n])

MetricsOK == MsOK(metrics, metricNames)

LInv == LogsOK /\ AlertsOK /\ ConfigOK /\ MetricsOK

----------------------------------------------------------------------------
(* Log entries *)

\* What the entries of one transaction are.
Entries(entries, k) ==
    /\ k \in Nat /\ DOMAIN entries = 1 .. k /\ Len(entries) = k
    /\ entries # <<>> <=> k > 0
    /\ \A i \in 1 .. k : entries[i] \in LogEntry /\ entries[i].timestamp = timestamp
    /\ \A i \in 2 .. k : entries[i].messageId = NoMsg /\ entries[i].user = NoUser

\* An index after the entries of one transaction: the first may be in it.
LEMMA IndexAfter ==
    ASSUME NEW c \in Nat, NEW k \in Nat, NEW s \in Seq(1 .. c), NEW named \in BOOLEAN,
           named => k > 0
    PROVE  LET t == IF named THEN push(s, <<c + 1>>) ELSE s
           IN  /\ t \in Seq(1 .. c + k)
               /\ \A id \in 1 .. c : id \in ToSet(t) <=> id \in ToSet(s)
               /\ \A id \in c + 1 .. c + k : id \in ToSet(t) <=> named /\ id = c + 1
  <1>1. \A id \in ToSet(s) : id \in 1 .. c
    BY LenProperties DEF ToSet
  <1>2. s \in Seq(1 .. c + k)
    BY Wider
  <1>3. CASE named
    <2>1. c + 1 \in 1 .. c + k
      BY <1>3
    <2>2. /\ push(s, <<c + 1>>) \in Seq(1 .. c + k)
          /\ ToSet(push(s, <<c + 1>>)) = ToSet(s) \cup {c + 1}
      BY <1>2, <2>1, PushedOne
    <2> DEFINE t == push(s, <<c + 1>>)
    <2> HIDE DEF t
    <2>3. /\ t \in Seq(1 .. c + k)
          /\ \A id \in 1 .. c : id \in ToSet(t) <=> id \in ToSet(s)
          /\ \A id \in c + 1 .. c + k : id \in ToSet(t) <=> id = c + 1
      <3>1. t \in Seq(1 .. c + k) /\ ToSet(t) = ToSet(s) \cup {c + 1}
        BY <2>2 DEF t
      <3>2. \A id \in 1 .. c : id # c + 1
        OBVIOUS
      <3>3. \A id \in c + 1 .. c + k : id \notin ToSet(s)
        BY <1>1
      <3> QED BY <3>1, <3>2, <3>3
    <2> QED BY <1>3, <2>3 DEF t
  <1>4. CASE ~named
    BY <1>1, <1>2, <1>4
  <1> QED BY <1>3, <1>4

LEMMA AddEntriesStep ==
    ASSUME LogsOK, NEW entries, NEW k, Entries(entries, k), addEntries(entries),
           timestamp' = timestamp
    PROVE  LogsOK'
  <1> DEFINE c == logIdCounter
             ids == [i \in DOMAIN entries |-> c + i]
             new == c + 1 .. c + k
  <1>1. /\ k \in Nat /\ c \in Nat /\ DOMAIN entries = 1 .. k
        /\ logIdCounter' = c + k
    BY DEF Entries, LogsOK, addEntries
  <1>2. /\ ids = [i \in 1 .. k |-> c + i] /\ ToSet(ids) = new
        /\ push(allLogIds, ids) \in Seq(1 .. c + k)
        /\ Increasing(push(allLogIds, ids))
        /\ ToSet(push(allLogIds, ids)) = ToSet(allLogIds) \cup new
    BY <1>1, PushedIds DEF LogsOK
  <1>3. /\ logs' = [id \in DOMAIN logs \cup new |->
                       IF id \in new THEN entries[id - c] ELSE logs[id]]
        /\ allLogIds' = push(allLogIds, ids)
    BY <1>2 DEF addEntries
  <1> HIDE DEF ids
  <1>4. \A id \in DOMAIN logs : id \in 1 .. c /\ id \notin new
    BY <1>1 DEF LogsOK
  <1>5. /\ DOMAIN logs' = DOMAIN logs \cup new
        /\ \A id \in DOMAIN logs : logs'[id] = logs[id]
        /\ \A id \in new : logs'[id] = entries[id - c] /\ id - c \in 1 .. k
    BY <1>1, <1>3, <1>4
  <1>6. \A id \in DOMAIN logs' :
           logs'[id] \in LogEntry /\ logs'[id].timestamp <= timestamp'
    BY <1>5 DEF LogsOK, Entries
  <1>7. InOrder(logs')
    <2> SUFFICES ASSUME NEW a \in DOMAIN logs', NEW b \in DOMAIN logs', a < b
                 PROVE  logs'[a].timestamp <= logs'[b].timestamp
      BY DEF InOrder
    <2>1. CASE b \in DOMAIN logs
      <3>1. a \in DOMAIN logs
        BY <1>1, <1>4, <1>5, <2>1
      <3> QED BY <1>5, <2>1, <3>1 DEF LogsOK, InOrder
    <2>2. CASE b \in new
      <3>1. logs'[b].timestamp = timestamp
        BY <1>5, <2>2 DEF Entries
      <3> QED BY <1>6, <3>1
    <2> QED BY <1>5, <2>1, <2>2
  <1>8. /\ messageToLogs' \in [MsgIds -> Seq(1 .. c + k)]
        /\ \A m \in MsgIds :
              /\ \A id \in 1 .. c :
                    id \in ToSet(messageToLogs'[m]) <=> id \in ToSet(messageToLogs[m])
              /\ \A id \in new : id \in ToSet(messageToLogs'[m])
                                    <=> id = c + 1 /\ entries[1].messageId = m
    <2> DEFINE named(m) == entries # <<>> /\ entries[1].messageId = m
               list(m) == IF named(m) THEN push(messageToLogs[m], <<c + 1>>)
                          ELSE messageToLogs[m]
    <2>1. messageToLogs' = [m \in MsgIds |-> list(m)]
      BY DEF addEntries
    <2>2. ASSUME NEW m \in MsgIds
          PROVE  /\ list(m) \in Seq(1 .. c + k)
                 /\ \A id \in 1 .. c : id \in ToSet(list(m))
                                          <=> id \in ToSet(messageToLogs[m])
                 /\ \A id \in new : id \in ToSet(list(m)) <=> named(m) /\ id = c + 1
      <3>1. messageToLogs[m] \in Seq(1 .. c)
        BY DEF LogsOK
      <3>2. named(m) \in BOOLEAN /\ (named(m) => k > 0)
        BY DEF Entries
      <3> QED BY <1>1, <3>1, <3>2, IndexAfter
    <2>3. new # {} => entries # <<>>
      BY <1>1 DEF Entries
    <2> HIDE DEF list
    <2> QED BY <2>1, <2>2, <2>3
  <1>9. /\ userToLogs' \in [Users -> Seq(1 .. c + k)]
        /\ \A u \in Users :
              /\ \A id \in 1 .. c :
                    id \in ToSet(userToLogs'[u]) <=> id \in ToSet(userToLogs[u])
              /\ \A id \in new : id \in ToSet(userToLogs'[u])
                                    <=> id = c + 1 /\ entries[1].user = u
    <2> DEFINE named(u) == entries # <<>> /\ entries[1].user = u
               list(u) == IF named(u) THEN push(userToLogs[u], <<c + 1>>)
                          ELSE userToLogs[u]
    <2>1. userToLogs' = [u \in Users |-> list(u)]
      BY DEF addEntries
    <2>2. ASSUME NEW u \in Users
          PROVE  /\ list(u) \in Seq(1 .. c + k)
                 /\ \A id \in 1 .. c : id \in ToSet(list(u))
                                          <=> id \in ToSet(userToLogs[u])
                 /\ \A id \in new : id \in ToSet(list(u)) <=> named(u) /\ id = c + 1
      <3>1. userToLogs[u] \in Seq(1 .. c)
        BY DEF LogsOK
      <3>2. named(u) \in BOOLEAN /\ (named(u) => k > 0)
        BY DEF Entries
      <3> QED BY <1>1, <3>1, <3>2, IndexAfter
    <2>3. new # {} => entries # <<>>
      BY <1>1 DEF Entries
    <2> HIDE DEF list
    <2> QED BY <2>1, <2>2, <2>3
  <1>10. \A id \in new : /\ id # c + 1 => /\ logs'[id].messageId = NoMsg
                                          /\ logs'[id].user = NoUser
                         /\ id = c + 1 => logs'[id] = entries[1]
    BY <1>1, <1>5 DEF Entries
  <1>11. \A id \in DOMAIN logs' :
            /\ \A m \in MsgIds :
                  id \in ToSet(messageToLogs'[m]) <=> logs'[id].messageId = m
            /\ \A u \in Users : id \in ToSet(userToLogs'[u]) <=> logs'[id].user = u
    <2> TAKE id \in DOMAIN logs'
    <2>1. CASE id \in DOMAIN logs
      BY <1>4, <1>5, <1>8, <1>9, <2>1 DEF LogsOK
    <2>2. CASE id \in new
      BY <1>8, <1>9, <1>10, <2>2, MonitoringLoggerAssumption
    <2> QED BY <1>5, <2>1, <2>2
  <1>12. DOMAIN logs' \subseteq 1 .. c + k /\ DOMAIN logs' \subseteq ToSet(allLogIds')
    BY <1>1, <1>2, <1>3, <1>4, <1>5 DEF LogsOK
  <1>13. timestamp' \in Nat \ {0} /\ logIdCounter' \in Nat
    BY <1>1 DEF LogsOK
  <1>14. /\ allLogIds' \in Seq(1 .. logIdCounter') /\ Increasing(allLogIds')
         /\ DOMAIN logs' \subseteq 1 .. logIdCounter'
         /\ messageToLogs' \in [MsgIds -> Seq(1 .. logIdCounter')]
         /\ userToLogs' \in [Users -> Seq(1 .. logIdCounter')]
    BY <1>1, <1>2, <1>3, <1>8, <1>9, <1>12
  <1> QED BY <1>6, <1>7, <1>11, <1>12, <1>13, <1>14 DEF LogsOK


LEMMA ArchiveStep ==
    ASSUME LInv, NEW t \in Nat, archiveLogs(t)
    PROVE  LInv'
  <1> DEFINE kept == {l \in DOMAIN logs : logs[l].timestamp >= t}
  <1>1. /\ DOMAIN logs' = kept /\ \A id \in kept : logs'[id] = logs[id]
        /\ UNCHANGED <<logIdCounter, allLogIds, messageToLogs, userToLogs,
                       metricVars, alertVars, configVars, timestamp>>
    BY DEF archiveLogs
  <1>2. kept \subseteq DOMAIN logs
    OBVIOUS
  <1> HIDE DEF kept
  <1>3. LogsOK'
    BY <1>1, <1>2 DEF LInv, LogsOK, InOrder
  <1>4. AlertsOK' /\ ConfigOK'
    BY <1>1 DEF LInv, AlertsOK, ConfigOK, alertVars, configVars
  <1>5. MetricsOK'
    BY <1>1 DEF LInv, MetricsOK, metricVars
  <1> QED BY <1>3, <1>4, <1>5 DEF LInv

LEMMA MetricsSame ==
    ASSUME MetricsOK, UNCHANGED metricVars
    PROVE  MetricsOK'
  BY DEF MetricsOK, metricVars

LEMMA TickStep ==
    ASSUME LInv, Tick
    PROVE  LInv'
  <1>1. /\ timestamp' = timestamp + 1
        /\ UNCHANGED <<logVars, metricVars, alertVars, configVars>>
    BY DEF Tick
  <1>2. LogsOK'
    <2>1. \A id \in DOMAIN logs : logs[id].timestamp \in Nat
      BY DEF LInv, LogsOK, LogEntry
    <2>2. timestamp \in Nat
      BY DEF LInv, LogsOK
    <2>3. \A id \in DOMAIN logs : logs[id].timestamp <= timestamp'
      BY <1>1, <2>1, <2>2 DEF LInv, LogsOK
    <2> QED BY <1>1, <2>2, <2>3 DEF LInv, LogsOK, InOrder, logVars
  <1>3. AlertsOK' /\ ConfigOK' /\ MetricsOK'
    BY <1>1, MetricsSame DEF LInv, AlertsOK, ConfigOK, alertVars, configVars
  <1> QED BY <1>2, <1>3 DEF LInv

----------------------------------------------------------------------------
(* Metrics *)

LEMMA Names ==
    /\ ToSet(DefaultNames) = {"operations_total", "operations_successful",
          "operations_failed", "logs_debug", "logs_info", "logs_warning",
          "logs_error", "logs_critical", "operation_duration_ms"}
    /\ DefaultNames[1] = "operations_total"
    /\ DefaultNames[2] = "operations_successful"
    /\ DefaultNames[3] = "operations_failed"
    /\ \A level \in LogLevel : LogCounter(level) \in
          {"logs_debug", "logs_info", "logs_warning", "logs_error", "logs_critical"}
    /\ DefaultNames \in Seq(MetricNames)
  <1>1. ToSet(DefaultNames) = {"operations_total", "operations_successful",
          "operations_failed", "logs_debug", "logs_info", "logs_warning",
          "logs_error", "logs_critical", "operation_duration_ms"}
    BY DEF ToSet, DefaultNames
  <1>2. \A level \in LogLevel : LogCounter(level) \in
          {"logs_debug", "logs_info", "logs_warning", "logs_error", "logs_critical"}
    BY DEF LogLevel, LogCounter, DefaultNames, DEBUG, CRITICAL
  <1>3. DefaultNames \in Seq(MetricNames)
    <2>1. ToSet(DefaultNames) \subseteq MetricNames
      BY DEF MetricNames
    <2> QED BY <1>1, <2>1 DEF DefaultNames
  <1> QED BY <1>1, <1>2, <1>3 DEF DefaultNames

\* counted adds to the counters of the log levels and to nothing else.
LEMMA CountedStep ==
    ASSUME NEW ms \in [MetricNames -> Metric], NEW entries, NEW k, Entries(entries, k)
    PROVE  /\ counted(ms, entries) \in [MetricNames -> Metric]
           /\ \A n \in MetricNames :
                 n \notin {"logs_debug", "logs_info", "logs_warning", "logs_error",
                           "logs_critical"}
                    => counted(ms, entries)[n] = ms[n]
  <1> DEFINE at(n) == {i \in DOMAIN entries : LogCounter(entries[i].level) = n}
  <1>1. \A n : Cardinality(at(n)) \in Nat /\ (at(n) = {} => Cardinality(at(n)) = 0)
    <2> TAKE n
    <2>1. IsFiniteSet(1 .. k)
      BY FS_Interval DEF Entries
    <2>2. at(n) \subseteq 1 .. k
      BY DEF Entries
    <2> HIDE DEF at
    <2>3. IsFiniteSet(at(n))
      BY <2>1, <2>2, FS_Subset
    <2> QED BY <2>3, FS_CardinalityType, FS_EmptySet
  <1>2. \A i \in DOMAIN entries : LogCounter(entries[i].level) \in
           {"logs_debug", "logs_info", "logs_warning", "logs_error", "logs_critical"}
    BY Names DEF Entries, LogEntry
  <1>3. \A n : n \notin {"logs_debug", "logs_info", "logs_warning", "logs_error",
                         "logs_critical"} => at(n) = {}
    BY <1>2
  <1>4. counted(ms, entries) =
           [n \in MetricNames |-> [ms[n] EXCEPT !.value = @ + Cardinality(at(n))]]
    BY DEF counted
  <1> HIDE DEF at
  <1>5. \A n \in MetricNames :
           /\ [ms[n] EXCEPT !.value = @ + Cardinality(at(n))] \in Metric
           /\ at(n) = {} => [ms[n] EXCEPT !.value = @ + Cardinality(at(n))] = ms[n]
    BY <1>1 DEF Metric
  <1> QED BY <1>3, <1>4, <1>5

LEMMA CountedOK ==
    ASSUME NEW ms, NEW names, MsOK(ms, names), NEW entries, NEW k, Entries(entries, k)
    PROVE  MsOK(counted(ms, entries), names)
  <1> DEFINE new == counted(ms, entries)
  <1>1. /\ new \in [MetricNames -> Metric]
        /\ \A n \in MetricNames :
              n \notin {"logs_debug", "logs_info", "logs_warning", "logs_error",
                        "logs_critical"} => new[n] = ms[n]
    BY CountedStep DEF MsOK
  <1> HIDE DEF new
  <1>2. \A n \in Sampled : n \in MetricNames /\ new[n] = ms[n]
    BY <1>1, Names, MonitoringLoggerAssumption DEF Sampled, MetricNames
  <1>3. \A i \in 1 .. 3 : new[DefaultNames[i]] = ms[DefaultNames[i]]
    <2>1. \A i \in 1 .. 3 : DefaultNames[i] \in
             {"operations_total", "operations_successful", "operations_failed"}
      BY Names
    <2> QED BY <1>1, <2>1, Names DEF MetricNames
  <1>4. OpsAdd(new)
    BY <1>3, Names DEF OpsAdd, MsOK
  <1>5. \A n \in MetricNames : new[n] # emptyMetric => n \in ToSet(names)
    BY <1>1, Names DEF MsOK
  <1> QED BY <1>1, <1>2, <1>4, <1>5 DEF MsOK, new

LEMMA OperationOK ==
    ASSUME MetricsOK, NEW success \in BOOLEAN
    PROVE  MsOK(operationCounted(success), metricNames)
  <1> DEFINE new == operationCounted(success)
             one(n) == IF \/ n = "operations_total"
                          \/ n = "operations_successful" /\ success
                          \/ n = "operations_failed" /\ ~success
                       THEN 1 ELSE 0
  <1>1. new = [n \in MetricNames |-> [metrics[n] EXCEPT !.value = @ + one(n)]]
    BY DEF operationCounted
  <1>2. \A n : one(n) \in {0, 1}
    OBVIOUS
  <1>3. /\ one("operations_total") = 1
        /\ one("operations_successful") + one("operations_failed") = 1
    OBVIOUS
  <1>4. \A n : n \notin {"operations_total", "operations_successful",
                         "operations_failed"} => one(n) = 0
    OBVIOUS
  <1> HIDE DEF new, one
  <1>5. /\ new \in [MetricNames -> Metric]
        /\ \A n \in MetricNames : /\ new[n].lastUpdated = metrics[n].lastUpdated
                                  /\ new[n].value = metrics[n].value + one(n)
                                  /\ one(n) = 0 => new[n] = metrics[n]
    <2>1. ASSUME NEW m \in Metric, NEW d \in {0, 1}
          PROVE  /\ [m EXCEPT !.value = @ + d] \in Metric
                 /\ [m EXCEPT !.value = @ + d].lastUpdated = m.lastUpdated
                 /\ [m EXCEPT !.value = @ + d].value = m.value + d
                 /\ d = 0 => [m EXCEPT !.value = @ + d] = m
      BY DEF Metric
    <2>2. \A n \in MetricNames : metrics[n] \in Metric
      BY DEF MetricsOK, MsOK
    <2>3. \A n \in MetricNames : new[n] = [metrics[n] EXCEPT !.value = @ + one(n)]
      BY <1>1
    <2>4. new \in [MetricNames -> Metric]
      BY <1>1, <1>2, <2>1, <2>2
    <2>5. ASSUME NEW n \in MetricNames
          PROVE  /\ new[n].lastUpdated = metrics[n].lastUpdated
                 /\ new[n].value = metrics[n].value + one(n)
                 /\ one(n) = 0 => new[n] = metrics[n]
      <3>1. metrics[n] \in Metric /\ one(n) \in {0, 1}
        BY <1>2, <2>2
      <3>2. new[n] = [metrics[n] EXCEPT !.value = @ + one(n)]
        BY <2>3
      <3> QED BY <3>1, <3>2 DEF Metric
    <2> QED BY <2>4, <2>5
  <1>6. \A n \in Sampled : n \in MetricNames /\ new[n] = metrics[n]
    BY <1>4, <1>5, Names, MonitoringLoggerAssumption DEF Sampled, MetricNames
  <1>7. OpsAdd(new)
    <2>1. /\ "operations_total" \in MetricNames /\ "operations_successful" \in MetricNames
          /\ "operations_failed" \in MetricNames
      BY Names DEF MetricNames
    <2>2. /\ metrics["operations_total"].value \in Nat
          /\ metrics["operations_successful"].value \in Nat
          /\ metrics["operations_failed"].value \in Nat
      BY <2>1 DEF MetricsOK, MsOK, Metric
    <2>3. \A i \in 1 .. 3 : DefaultNames[i] \in MetricNames
      BY <2>1, Names
    <2>4. (\A i \in 1 .. 3 : new[DefaultNames[i]].lastUpdated = 0) =>
             metrics["operations_total"].value =
                metrics["operations_successful"].value
                   + metrics["operations_failed"].value
      BY <1>5, <2>3 DEF OpsAdd, MetricsOK, MsOK
    <2> QED BY <1>2, <1>3, <1>5, <2>1, <2>2, <2>4 DEF OpsAdd
  <1>8. \A n \in MetricNames : new[n] # emptyMetric => n \in ToSet(metricNames)
    BY <1>4, <1>5, Names DEF MetricsOK, MsOK
  <1> QED BY <1>5, <1>6, <1>7, <1>8 DEF MetricsOK, MsOK, new

LEMMA UpdatedOK ==
    ASSUME NEW ms, MsOK(ms, metricNames), NEW name \in MetricNames,
           NEW metric \in Metric, metric.lastUpdated # 0,
           name \in Sampled => SamplesOK(metric)
    PROVE  MsOK([ms EXCEPT ![name] = metric], namesAfterUse(ms[name], name))
  <1> DEFINE new == [ms EXCEPT ![name] = metric]
             names == namesAfterUse(ms[name], name)
  <1>1. /\ new \in [MetricNames -> Metric] /\ new[name] = metric
        /\ \A n \in MetricNames \ {name} : new[n] = ms[n]
    BY DEF MsOK
  <1> HIDE DEF new
  <1>2. /\ Append(metricNames, name) \in Seq(MetricNames)
        /\ ToSet(Append(metricNames, name)) = ToSet(metricNames) \cup {name}
    BY AppendedSet DEF MsOK
  <1>3. /\ names \in Seq(MetricNames) /\ ToSet(metricNames) \subseteq ToSet(names)
        /\ name \in ToSet(names)
    <2>1. CASE ms[name].lastUpdated = 0
      BY <1>2, <2>1 DEF namesAfterUse
    <2>2. CASE ms[name].lastUpdated # 0
      <3>1. ms[name] # emptyMetric
        BY <2>2 DEF emptyMetric
      <3> QED BY <2>2, <3>1 DEF namesAfterUse, MsOK
    <2> QED BY <2>1, <2>2
  <1> HIDE DEF names
  <1>4. \A n \in MetricNames : new[n] # emptyMetric => n \in ToSet(names)
    BY <1>1, <1>3 DEF MsOK
  <1>5. OpsAdd(new)
    <2> SUFFICES ASSUME \A i \in 1 .. 3 : new[DefaultNames[i]].lastUpdated = 0
                 PROVE  new["operations_total"].value =
                           new["operations_successful"].value
                              + new["operations_failed"].value
      BY DEF OpsAdd
    <2>1. \A i \in 1 .. 3 : DefaultNames[i] \in MetricNames /\ DefaultNames[i] # name
      BY <1>1, Names DEF MetricNames
    <2>2. \A i \in 1 .. 3 : new[DefaultNames[i]] = ms[DefaultNames[i]]
      BY <1>1, <2>1
    <2> QED BY <2>2, Names DEF MsOK, OpsAdd
  <1>6. \A n \in Sampled : SamplesOK(new[n])
    <2>1. \A n \in Sampled : n \in MetricNames
      BY Names DEF Sampled, MetricNames
    <2> QED BY <1>1, <2>1 DEF MsOK
  <1> QED BY <1>1, <1>3, <1>4, <1>5, <1>6 DEF MsOK, new, names

LEMMA DefaultsOK ==
    MsOK(withDefaults([n \in MetricNames |-> emptyMetric]), DefaultNames)
  <1> DEFINE ms == [n \in MetricNames |-> emptyMetric]
             new == withDefaults(ms)
  <1>1. emptyMetric \in Metric
    BY DEF emptyMetric, Metric
  <1>2. new = [n \in MetricNames |->
           CASE n = "operation_duration_ms" ->
                   [ms[n] EXCEPT !.metricType = "HISTOGRAM", !.min = MAX_UINT]
             [] n \in CustomMetrics -> ms[n]
             [] OTHER -> [ms[n] EXCEPT !.metricType = "COUNTER"]]
    BY DEF withDefaults
  <1>3. "operation_duration_ms" \notin CustomMetrics
    BY Names, MonitoringLoggerAssumption
  <1>4. MAX_UINT \in Nat
    BY MonitoringLoggerAssumption
  <1>5. LET r == [emptyMetric EXCEPT !.metricType = "HISTOGRAM", !.min = MAX_UINT]
        IN  /\ r \in Metric /\ r.value = 0 /\ r.count = 0 /\ r.sum = 0
            /\ r.max = 0 /\ r.lastUpdated = 0
    <2>1. ASSUME NEW m \in Metric, NEW x \in Nat
          PROVE  LET r == [m EXCEPT !.metricType = "HISTOGRAM", !.min = x]
                 IN  /\ r \in Metric /\ r.value = m.value /\ r.count = m.count
                     /\ r.sum = m.sum /\ r.max = m.max
                     /\ r.lastUpdated = m.lastUpdated
      BY DEF Metric
    <2>2. /\ emptyMetric.value = 0 /\ emptyMetric.count = 0 /\ emptyMetric.sum = 0
          /\ emptyMetric.max = 0 /\ emptyMetric.lastUpdated = 0
      BY DEF emptyMetric
    <2> QED BY <1>1, <1>4, <2>1, <2>2
  <1>6. [emptyMetric EXCEPT !.metricType = "COUNTER"] = emptyMetric
    BY DEF emptyMetric
  <1>7. \A n \in MetricNames :
           /\ n = "operation_duration_ms" => new[n] =
                 [emptyMetric EXCEPT !.metricType = "HISTOGRAM", !.min = MAX_UINT]
           /\ n # "operation_duration_ms" => new[n] = emptyMetric
    BY <1>2, <1>3, <1>6
  <1>8. DOMAIN new = MetricNames /\ new = [n \in MetricNames |-> new[n]]
    BY <1>2
  <1> HIDE DEF new
  <1>9. new \in [MetricNames -> Metric]
    <2>2. \A n \in MetricNames : new[n] \in Metric
      BY <1>1, <1>5, <1>7
    <2> QED BY <1>8, <2>2
  <1>10. /\ "operations_total" \in MetricNames /\ "operations_successful" \in MetricNames
         /\ "operations_failed" \in MetricNames /\ Sampled \subseteq MetricNames
    BY Names DEF MetricNames, Sampled
  <1>11. \A n \in MetricNames : /\ new[n].lastUpdated = 0 /\ new[n].value = 0
                                /\ new[n].count = 0 /\ new[n].sum = 0 /\ new[n].max = 0
    <2>1. /\ emptyMetric.value = 0 /\ emptyMetric.count = 0 /\ emptyMetric.sum = 0
          /\ emptyMetric.max = 0 /\ emptyMetric.lastUpdated = 0
      BY DEF emptyMetric
    <2> QED BY <1>5, <1>7, <2>1
  <1>12. OpsAdd(new)
    BY <1>10, <1>11 DEF OpsAdd
  <1>13. \A n \in Sampled : SamplesOK(new[n])
    BY <1>10, <1>11 DEF SamplesOK
  <1>14. \A n \in MetricNames : new[n] # emptyMetric => n \in ToSet(DefaultNames)
    BY <1>7, Names
  <1> QED BY <1>9, <1>12, <1>13, <1>14, Names DEF MsOK, new

----------------------------------------------------------------------------
(* Updates *)

\* store, with what it is given.
LEMMA StoreStep ==
    ASSUME LInv, NEW ms, MsOK(ms, metricNames), NEW name \in MetricNames,
           NEW metric \in Metric,
           name \in Sampled => SamplesOK([metric EXCEPT !.lastUpdated = timestamp]),
           NEW own, NEW k, Entries(own, k), own \in Seq(LogEntry), k <= 1,
           store(ms, name, metric, own)
    PROVE  LInv'
  <1> DEFINE alerts == triggered(name, metric.value)
             n == Cardinality(alerts)
             warnings == [i \in 1 .. n |-> entry(WARNING, NoMsg, NoUser)]
             logged == own \o warnings
             stored == [metric EXCEPT !.lastUpdated = timestamp]
  <1>1. /\ addEntries(logged)
        /\ metrics' = counted([ms EXCEPT ![name] = stored], logged)
        /\ metricNames' = namesAfterUse(ms[name], name)
        /\ alertRules' = [a \in DOMAIN alertRules |->
               IF a \in alerts
               THEN [alertRules[a] EXCEPT !.lastTriggered = timestamp]
               ELSE alertRules[a]]
        /\ UNCHANGED <<alertIdCounter, activeAlerts, configVars, timestamp>>
    BY DEF store
  <1>2. alerts \subseteq ToSet(activeAlerts) /\ alerts \subseteq 1 .. alertIdCounter
    BY DEF triggered, LInv, AlertsOK
  <1>3. n \in Nat
    <2>1. IsFiniteSet(1 .. alertIdCounter)
      <3>1. alertIdCounter \in Int /\ 1 \in Int
        BY DEF LInv, AlertsOK
      <3> QED BY <3>1, FS_Interval
    <2> HIDE DEF alerts
    <2> QED BY <1>2, <2>1, FS_Subset, FS_CardinalityType
  <1>4. entry(WARNING, NoMsg, NoUser) \in LogEntry
        /\ entry(WARNING, NoMsg, NoUser).timestamp = timestamp
        /\ entry(WARNING, NoMsg, NoUser).messageId = NoMsg
        /\ entry(WARNING, NoMsg, NoUser).user = NoUser
    BY DEF entry, LogEntry, LInv, LogsOK, WARNING, LogLevel, DEBUG, CRITICAL
  <1> HIDE DEF alerts, n
  <1>5. Entries(logged, k + n)
    <2>1. warnings \in [1 .. n -> LogEntry]
      BY <1>4
    <2>2. warnings \in Seq(LogEntry) /\ Len(warnings) = n
      BY <1>3, <2>1, SeqDef, LenProperties
    <2>3. \A i \in 1 .. n : warnings[i] = entry(WARNING, NoMsg, NoUser)
      OBVIOUS
    <2> HIDE DEF warnings
    <2>4. /\ k \in Nat /\ Len(own) = k
          /\ \A i \in 1 .. k : own[i] \in LogEntry /\ own[i].timestamp = timestamp
      BY DEF Entries
    <2>5. /\ logged \in Seq(LogEntry) /\ Len(logged) = k + n
          /\ \A i \in 1 .. k + n :
                logged[i] = IF i <= k THEN own[i] ELSE warnings[i - k]
      BY <2>2, <2>4, ConcatProperties
    <2>6. DOMAIN logged = 1 .. k + n /\ (logged # <<>> <=> k + n > 0)
      BY <2>4, <2>5, <1>3, LenProperties, EmptySeq
    <2> HIDE DEF logged
    <2>7. \A i \in 1 .. k + n :
             /\ i <= k => logged[i] = own[i] /\ i \in 1 .. k
             /\ i > k => logged[i] = entry(WARNING, NoMsg, NoUser)
      BY <1>3, <2>3, <2>4, <2>5
    <2>8. \A i \in 1 .. k + n :
             logged[i] \in LogEntry /\ logged[i].timestamp = timestamp
      BY <1>3, <1>4, <2>4, <2>7
    <2>9. \A i \in 2 .. k + n : i \in 1 .. k + n /\ i > k
      BY <1>3, <2>4
    <2>10. \A i \in 2 .. k + n : logged[i].messageId = NoMsg /\ logged[i].user = NoUser
      BY <1>4, <2>7, <2>9
    <2> QED BY <1>3, <2>4, <2>5, <2>6, <2>8, <2>10 DEF Entries
  <1>6. LogsOK'
    BY <1>1, <1>5, AddEntriesStep DEF LInv
  <1>7. AlertsOK'
    <2>1. \A a \in DOMAIN alertRules :
             /\ alertRules[a] \in AlertRule
             /\ [alertRules[a] EXCEPT !.lastTriggered = timestamp] \in AlertRule
      BY DEF LInv, AlertsOK, AlertRule, LogsOK
    <2>2. /\ DOMAIN alertRules' = DOMAIN alertRules
          /\ \A a \in DOMAIN alertRules' : alertRules'[a] \in AlertRule
      BY <1>1, <2>1
    <2> QED BY <1>1, <2>2 DEF LInv, AlertsOK
  <1>8. ConfigOK'
    BY <1>1 DEF LInv, ConfigOK, configVars
  <1>9. MetricsOK'
    <2>1. stored \in Metric /\ stored.lastUpdated # 0
      BY DEF Metric, LInv, LogsOK
    <2> HIDE DEF logged
    <2>2. MsOK([ms EXCEPT ![name] = stored], metricNames')
      <3> HIDE DEF stored
      <3> QED BY <1>1, <2>1, UpdatedOK DEF stored
    <2>3. MsOK(counted([ms EXCEPT ![name] = stored], logged), metricNames')
      BY <1>5, <2>2, CountedOK
    <2> QED BY <1>1, <2>3 DEF MetricsOK
  <1> QED BY <1>6, <1>7, <1>8, <1>9 DEF LInv

LEMMA Empty == Entries(<<>>, 0)
  BY DEF Entries

LEMMA Single ==
    ASSUME LInv, NEW level \in LogLevel, NEW m \in MsgIds \cup {NoMsg},
           NEW u \in Users \cup {NoUser}
    PROVE  LET own == <<entry(level, m, u)>>
           IN  Entries(own, 1) /\ own \in Seq(LogEntry)
  <1> DEFINE e == entry(level, m, u)
  <1>1. e \in LogEntry /\ e.timestamp = timestamp
    BY DEF entry, LogEntry, LInv, LogsOK
  <1> HIDE DEF e
  <1>2. <<e>> \in Seq(LogEntry) /\ Len(<<e>>) = 1 /\ <<e>>[1] = e
    BY <1>1
  <1>3. DOMAIN <<e>> = 1 .. 1 /\ <<e>> # <<>>
    BY <1>2, LenProperties, EmptySeq
  <1>4. \A i \in 1 .. 1 : i = 1
    OBVIOUS
  <1>5. \A i \in 2 .. 1 : FALSE
    OBVIOUS
  <1> QED BY <1>1, <1>2, <1>3, <1>4, <1>5 DEF Entries, e

LEMMA FirstUse ==
    ASSUME NEW metric \in Metric, NEW type \in {"COUNTER", "GAUGE", "HISTOGRAM"}
    PROVE  /\ firstUse(metric, type) \in Metric
           /\ metric.lastUpdated # 0 => firstUse(metric, type) = metric
           /\ metric.lastUpdated = 0 =>
                 /\ firstUse(metric, type).count = metric.count
                 /\ firstUse(metric, type).sum = metric.sum
                 /\ firstUse(metric, type).max = metric.max
                 /\ type = "HISTOGRAM" => firstUse(metric, type).min = MAX_UINT
  <1>1. MAX_UINT \in Nat
    BY MonitoringLoggerAssumption
  <1>2. ASSUME NEW x \in Nat
        PROVE  LET r == [metric EXCEPT !.metricType = type, !.min = x]
               IN  /\ r \in Metric /\ r.count = metric.count /\ r.sum = metric.sum
                   /\ r.max = metric.max /\ r.min = x
    BY DEF Metric
  <1>3. CASE metric.lastUpdated = 0
    <2> DEFINE x == IF type = "HISTOGRAM" THEN MAX_UINT ELSE metric.min
    <2>1. x \in Nat /\ (type = "HISTOGRAM" => x = MAX_UINT)
      BY <1>1 DEF Metric
    <2>2. firstUse(metric, type) = [metric EXCEPT !.metricType = type, !.min = x]
      BY <1>3 DEF firstUse
    <2> HIDE DEF x
    <2> QED BY <1>2, <1>3, <2>1, <2>2
  <1>4. CASE metric.lastUpdated # 0
    BY <1>4 DEF firstUse
  <1> QED BY <1>3, <1>4

\* An average lies between bounds of the samples.
LEMMA AverageBetween ==
    ASSUME NEW low \in Nat, NEW high \in Nat, NEW total \in Nat, NEW k \in Nat,
           k > 0, low * k <= total, total <= high * k
    PROVE  low <= total \div k /\ total \div k <= high
  <1> DEFINE q == total \div k
  <1>1. q \in Int /\ q * k <= total /\ total < (q + 1) * k
    OBVIOUS
  <1> HIDE DEF q
  <1>2. ~(q < low)
    <2> SUFFICES ASSUME q + 1 <= low PROVE FALSE
      BY <1>1
    <2>1. (q + 1) * k <= low * k
      BY <1>1
    <2> QED BY <1>1, <2>1
  <1>3. ~(q > high)
    <2> SUFFICES ASSUME high + 1 <= q PROVE FALSE
      BY <1>1
    <2>1. (high + 1) * k <= q * k
      BY <1>1
    <2>2. (high + 1) * k = high * k + k
      OBVIOUS
    <2> QED BY <1>1, <2>1, <2>2
  <1> QED BY <1>1, <1>2, <1>3 DEF q

\* A further sample keeps the smallest, the largest and the total in step.
LEMMA SampleKeepsBounds ==
    ASSUME NEW mn \in Nat, NEW mx \in Nat, NEW s \in Nat, NEW c \in Nat, NEW v \in Nat,
           mn * c <= s, s <= mx * c
    PROVE  /\ (IF v < mn THEN v ELSE mn) * (c + 1) <= s + v
           /\ s + v <= (IF v > mx THEN v ELSE mx) * (c + 1)
  <1>1. ASSUME NEW a \in Nat, a <= mn, a <= v PROVE a * (c + 1) <= s + v
    <2>1. a * (c + 1) = a * c + a
      OBVIOUS
    <2>2. a * c <= mn * c
      BY <1>1
    <2>3. a * c \in Nat /\ mn * c \in Nat
      OBVIOUS
    <2> QED BY <1>1, <2>1, <2>2, <2>3
  <1>2. ASSUME NEW a \in Nat, a >= mx, a >= v PROVE s + v <= a * (c + 1)
    <2>1. a * (c + 1) = a * c + a
      OBVIOUS
    <2>2. a * c >= mx * c
      BY <1>2
    <2>3. a * c \in Nat /\ mx * c \in Nat
      OBVIOUS
    <2> QED BY <1>2, <2>1, <2>2, <2>3
  <1>3. LET a == IF v < mn THEN v ELSE mn IN a \in Nat /\ a <= mn /\ a <= v
    OBVIOUS
  <1>4. LET a == IF v > mx THEN v ELSE mx IN a \in Nat /\ a >= mx /\ a >= v
    OBVIOUS
  <1> QED BY <1>1, <1>2, <1>3, <1>4
LEMMA SampleOK ==
    ASSUME NEW old \in Metric, SamplesOK(old), NEW v \in 0 .. MAX_UINT,
           NEW now \in Nat \ {0},
           firstUse(old, "HISTOGRAM").metricType = "HISTOGRAM"
    PROVE  LET new == withSample(firstUse(old, "HISTOGRAM"), v)
           IN  new \in Metric /\ SamplesOK([new EXCEPT !.lastUpdated = now])
  <1> DEFINE metric == firstUse(old, "HISTOGRAM")
             new == withSample(metric, v)
             a == IF v < metric.min THEN v ELSE metric.min
             b == IF v > metric.max THEN v ELSE metric.max
             c == metric.count
             s == metric.sum
             q == (s + v) \div (c + 1)
  <1>1. metric \in Metric /\ v \in Nat /\ MAX_UINT \in Nat
    BY FirstUse, MonitoringLoggerAssumption
  <1>2. /\ a * (c + 1) <= s + v /\ s + v <= b * (c + 1)
        /\ c = 0 => a = s + v /\ b = s + v
    <2>1. CASE old.lastUpdated = 0
      <3>1. c = 0 /\ s = 0 /\ metric.max = 0 /\ metric.min = MAX_UINT
        BY <2>1, FirstUse DEF SamplesOK
      <3>2. a = v /\ b = v
        BY <1>1, <3>1
      <3> HIDE DEF a, b, c, s
      <3> QED BY <1>1, <3>1, <3>2
    <2>2. CASE old.lastUpdated # 0
      <3>1. metric = old
        BY <2>2, FirstUse
      <3>2. c > 0 /\ metric.min * c <= s /\ s <= metric.max * c
        BY <2>2, <3>1 DEF SamplesOK
      <3>3. c \in Nat /\ s \in Nat /\ metric.min \in Nat /\ metric.max \in Nat
        BY <1>1 DEF Metric
      <3> HIDE DEF metric, c, s
      <3>4. a * (c + 1) <= s + v /\ s + v <= b * (c + 1)
        BY <1>1, <3>2, <3>3, SampleKeepsBounds
      <3> QED BY <3>2, <3>3, <3>4
    <2> QED BY <2>1, <2>2
  <1>3. /\ a \in Nat /\ b \in Nat /\ c \in Nat /\ s \in Nat
        /\ metric = [metric EXCEPT !.metricType = "HISTOGRAM"]
    <2>1. metric.min \in Nat /\ metric.max \in Nat /\ metric.count \in Nat
          /\ metric.sum \in Nat /\ metric.metricType = "HISTOGRAM"
      BY <1>1 DEF Metric
    <2>2. metric = [metric EXCEPT !.metricType = "HISTOGRAM"]
      <3> HIDE DEF metric
      <3> QED BY <1>1, <2>1 DEF Metric
    <2> QED BY <1>1, <2>1, <2>2
  <1>4. q \in Nat
    <2> HIDE DEF s, c
    <2>1. s + v \in Nat /\ c + 1 \in Nat /\ c + 1 > 0
      BY <1>1, <1>3
    <2> QED BY <2>1
  <1>5. new = [metric EXCEPT !.count = c + 1, !.sum = s + v, !.value = q,
                             !.min = a, !.max = b]
    BY DEF withSample
  <1> HIDE DEF a, b, q, metric, new
  <1>6. /\ new \in Metric /\ new.count = c + 1 /\ new.sum = s + v /\ new.value = q
        /\ new.min = a /\ new.max = b
    <2>1. s + v \in Nat /\ c + 1 \in Nat
      BY <1>1, <1>3
    <2> HIDE DEF s, c
    <2> QED BY <1>1, <1>3, <1>4, <1>5, <2>1 DEF Metric
  <1>7. LET stored == [new EXCEPT !.lastUpdated = now]
        IN  /\ stored.count = new.count /\ stored.sum = new.sum
            /\ stored.value = new.value /\ stored.min = new.min
            /\ stored.max = new.max /\ stored.lastUpdated = now
    BY <1>6 DEF Metric
  <1> DEFINE stored == [new EXCEPT !.lastUpdated = now]
  <1>8. /\ stored.count = c + 1 /\ stored.sum = s + v /\ stored.value = q
        /\ stored.min = a /\ stored.max = b /\ stored.lastUpdated # 0
    BY <1>6, <1>7
  <1> HIDE DEF stored, c, s
  <1>9. c + 1 > 0 /\ q = (s + v) \div (c + 1) /\ (c + 1 = 1 => c = 0)
    BY <1>3 DEF q
  <1>10. SamplesOK(stored)
    BY <1>2, <1>8, <1>9 DEF SamplesOK
  <1> QED BY <1>6, <1>10 DEF stored, new, metric

----------------------------------------------------------------------------
(* The steps *)

LEMMA AddLogStep ==
    ASSUME LInv, NEW level \in LogLevel, NEW m \in MsgIds \cup {NoMsg},
           NEW u \in Users \cup {NoUser}, addLog(level, m, u)
    PROVE  LInv'
  <1> DEFINE own == <<entry(level, m, u)>>
  <1>1. Entries(own, 1)
    BY Single
  <1>2. /\ addEntries(own) /\ metrics' = counted(metrics, own)
        /\ UNCHANGED <<metricNames, alertVars, configVars, timestamp>>
    BY DEF addLog
  <1> HIDE DEF own
  <1>3. LogsOK'
    BY <1>1, <1>2, AddEntriesStep DEF LInv
  <1>4. MetricsOK'
    <2>1. MsOK(counted(metrics, own), metricNames)
      BY <1>1, CountedOK DEF LInv, MetricsOK
    <2> QED BY <1>2, <2>1 DEF MetricsOK
  <1>5. AlertsOK' /\ ConfigOK'
    BY <1>2 DEF LInv, AlertsOK, ConfigOK, alertVars, configVars
  <1> QED BY <1>3, <1>4, <1>5 DEF LInv

LEMMA SampleStep ==
    ASSUME LInv, NEW ms, MsOK(ms, metricNames), NEW name \in MetricNames,
           NEW v \in 0 .. MAX_UINT, NEW own, NEW k, Entries(own, k),
           own \in Seq(LogEntry), k <= 1, sample(ms, name, v, own)
    PROVE  LInv'
  <1> DEFINE metric == firstUse(ms[name], "HISTOGRAM")
             new == withSample(metric, v)
             stored == [new EXCEPT !.lastUpdated = timestamp]
  <1>1. ms[name] \in Metric /\ timestamp \in Nat \ {0}
    BY DEF MsOK, LInv, LogsOK
  <1>2. metric.metricType = "HISTOGRAM" /\ store(ms, name, new, own)
    BY DEF sample
  <1>3. name \in Sampled => new \in Metric /\ SamplesOK(stored)
    <2>1. name \in Sampled => SamplesOK(ms[name])
      BY DEF MsOK
    <2> QED BY <1>1, <1>2, <2>1, SampleOK
  <1>4. new \in Metric
    <2>1. /\ metric \in Metric /\ v \in Nat
      BY <1>1, FirstUse, MonitoringLoggerAssumption
    <2>2. /\ metric.sum + v \in Nat /\ metric.count + 1 \in Nat
          /\ metric.count + 1 > 0
          /\ (IF v < metric.min THEN v ELSE metric.min) \in Nat
          /\ (IF v > metric.max THEN v ELSE metric.max) \in Nat
      BY <2>1 DEF Metric
    <2>3. (metric.sum + v) \div (metric.count + 1) \in Nat
      <3> DEFINE x == metric.sum + v
                 y == metric.count + 1
      <3>1. x \in Nat /\ y \in Nat /\ y > 0
        BY <2>2
      <3> HIDE DEF x, y
      <3>2. x \div y \in Nat
        BY <3>1
      <3> QED BY <3>2 DEF x, y
    <2> HIDE DEF metric
    <2> QED BY <2>1, <2>2, <2>3 DEF withSample, Metric
  <1> HIDE DEF new
  <1> QED BY <1>2, <1>3, <1>4, StoreStep

LEMMA CounterStep ==
    ASSUME LInv, NEW name \in MetricNames, NEW v \in Nat, updateCounter(name, v)
    PROVE  LInv'
  <1> DEFINE metric == firstUse(metrics[name], "COUNTER")
             new == [metric EXCEPT !.value = @ + v, !.count = @ + 1]
             stored == [new EXCEPT !.lastUpdated = timestamp]
  <1>1. metrics[name] \in Metric /\ timestamp \in Nat \ {0}
    BY DEF LInv, MetricsOK, MsOK, LogsOK
  <1>2. metric \in Metric
    BY <1>1, FirstUse
  <1>3. metric.metricType = "COUNTER" /\ store(metrics, name, new, <<>>)
    BY DEF updateCounter
  <1> HIDE DEF metric
  <1>4. new \in Metric /\ stored.metricType = "COUNTER" /\ stored.lastUpdated # 0
    <2>1. /\ metric.value + v \in Nat /\ metric.count + 1 \in Nat
      BY <1>2 DEF Metric
    <2>2. new \in Metric
      BY <1>2, <2>1 DEF Metric
    <2>3. new.metricType = "COUNTER"
      BY <1>2, <1>3 DEF Metric
    <2> HIDE DEF new
    <2> QED BY <1>1, <2>2, <2>3 DEF Metric
  <1>5. SamplesOK(stored)
    BY <1>4 DEF SamplesOK
  <1> HIDE DEF new
  <1> DEFINE own == <<>>
  <1>6. own \in Seq(LogEntry) /\ Entries(own, 0)
    BY Empty
  <1>7. MsOK(metrics, metricNames)
    BY DEF LInv, MetricsOK
  <1>8. store(metrics, name, new, own)
    BY <1>3
  <1> HIDE DEF own
  <1> QED BY <1>4, <1>5, <1>6, <1>7, <1>8, StoreStep

LEMMA GaugeStep ==
    ASSUME LInv, NEW name \in MetricNames, NEW v \in Nat, updateGauge(name, v)
    PROVE  LInv'
  <1> DEFINE metric == firstUse(metrics[name], "GAUGE")
             new == [metric EXCEPT !.value = v]
             stored == [new EXCEPT !.lastUpdated = timestamp]
  <1>1. metrics[name] \in Metric /\ timestamp \in Nat \ {0}
    BY DEF LInv, MetricsOK, MsOK, LogsOK
  <1>2. metric \in Metric
    BY <1>1, FirstUse
  <1>3. metric.metricType = "GAUGE" /\ store(metrics, name, new, <<>>)
    BY DEF updateGauge
  <1> HIDE DEF metric
  <1>4. new \in Metric /\ stored.metricType = "GAUGE" /\ stored.lastUpdated # 0
    BY <1>1, <1>2, <1>3 DEF Metric
  <1>5. SamplesOK(stored)
    BY <1>4 DEF SamplesOK
  <1> HIDE DEF new
  <1> DEFINE own == <<>>
  <1>6. own \in Seq(LogEntry) /\ Entries(own, 0)
    BY Empty
  <1>7. MsOK(metrics, metricNames)
    BY DEF LInv, MetricsOK
  <1>8. store(metrics, name, new, own)
    BY <1>3
  <1> HIDE DEF own
  <1> QED BY <1>4, <1>5, <1>6, <1>7, <1>8, StoreStep

LEMMA OperationStep ==
    ASSUME LInv, NEW m \in MsgIds, NEW u \in Users, NEW success \in BOOLEAN,
           NEW duration \in 0 .. MAX_UINT, logOperation(m, u, success, duration)
    PROVE  LInv'
  <1> DEFINE level == IF success THEN INFO ELSE ERROR
             own == <<entry(level, m, u)>>
             ms == operationCounted(success)
  <1>1. level \in LogLevel
    BY DEF INFO, ERROR, LogLevel, DEBUG, CRITICAL
  <1>2. Entries(own, 1) /\ own \in Seq(LogEntry)
    BY <1>1, Single
  <1>3. MsOK(ms, metricNames)
    BY OperationOK DEF LInv
  <1>4. \/ /\ addEntries(own) /\ metrics' = counted(ms, own)
           /\ UNCHANGED <<metricNames, alertVars, configVars, timestamp>>
        \/ sample(ms, "operation_duration_ms", duration, own)
    BY DEF logOperation
  <1> HIDE DEF own, ms
  <1>5. CASE sample(ms, "operation_duration_ms", duration, own)
    <2>1. "operation_duration_ms" \in MetricNames
      BY Names DEF MetricNames
    <2> QED BY <1>2, <1>3, <1>5, <2>1, SampleStep
  <1>6. CASE /\ addEntries(own) /\ metrics' = counted(ms, own)
             /\ UNCHANGED <<metricNames, alertVars, configVars, timestamp>>
    <2>1. LogsOK'
      BY <1>2, <1>6, AddEntriesStep DEF LInv
    <2>2. MetricsOK'
      <3>1. MsOK(counted(ms, own), metricNames)
        BY <1>2, <1>3, CountedOK
      <3> QED BY <1>6, <3>1 DEF MetricsOK
    <2>3. AlertsOK' /\ ConfigOK'
      BY <1>6 DEF LInv, AlertsOK, ConfigOK, alertVars, configVars
    <2> QED BY <2>1, <2>2, <2>3 DEF LInv
  <1> QED BY <1>4, <1>5, <1>6
LEMMA AlertRuleStep ==
    ASSUME LInv, NEW name \in MetricNames, NEW threshold \in Nat, NEW cooldown \in Nat,
           createAlertRule(name, threshold, cooldown)
    PROVE  LInv'
  <1> DEFINE id == alertIdCounter + 1
             rule == [metricName |-> name, threshold |-> threshold,
                      cooldown |-> cooldown, lastTriggered |-> 0]
  <1>1. /\ alertIdCounter' = id
        /\ alertRules' = [a \in DOMAIN alertRules \cup {id} |->
                             IF a = id THEN rule ELSE alertRules[a]]
        /\ activeAlerts' = Append(activeAlerts, id)
        /\ UNCHANGED <<logVars, metricVars, configVars, timestamp>>
    BY DEF createAlertRule
  <1>2. rule \in AlertRule
    BY DEF AlertRule
  <1>3. id \in Nat /\ id \in 1 .. id /\ 1 .. alertIdCounter \subseteq 1 .. id
    BY DEF LInv, AlertsOK
  <1> HIDE DEF id, rule
  <1>4. /\ DOMAIN alertRules' = DOMAIN alertRules \cup {id}
        /\ \A a \in DOMAIN alertRules' : alertRules'[a] \in AlertRule
    BY <1>1, <1>2 DEF LInv, AlertsOK
  <1>5. activeAlerts \in Seq(1 .. id)
    BY <1>3, SeqMonotonic DEF LInv, AlertsOK
  <1>6. /\ Append(activeAlerts, id) \in Seq(1 .. id)
        /\ ToSet(Append(activeAlerts, id)) = ToSet(activeAlerts) \cup {id}
    BY <1>3, <1>5, AppendedSet
  <1>7. AlertsOK'
    BY <1>1, <1>3, <1>4, <1>6 DEF LInv, AlertsOK
  <1>8. LogsOK' /\ ConfigOK' /\ MetricsOK'
    BY <1>1, MetricsSame DEF LInv, LogsOK, InOrder, ConfigOK, logVars, configVars
  <1> QED BY <1>7, <1>8 DEF LInv

LEMMA SwitchStep ==
    ASSUME LInv, UNCHANGED <<logVars, metricVars, alertVars, timestamp>>,
           minLogLevel' \in LogLevel,
           {loggingEnabled, metricsEnabled, alertingEnabled}' \subseteq BOOLEAN
    PROVE  LInv'
  <1>1. LogsOK' /\ AlertsOK' /\ MetricsOK'
    BY MetricsSame DEF LInv, LogsOK, InOrder, AlertsOK, logVars, alertVars
  <1>2. ConfigOK'
    BY DEF ConfigOK
  <1> QED BY <1>1, <1>2 DEF LInv

LEMMA ClearStep ==
    ASSUME LInv, emergencyClearAllData
    PROVE  LInv'
  <1>1. /\ logs' = [id \in DOMAIN logs \ ToSet(allLogIds) |-> logs[id]]
        /\ allLogIds' = <<>>
        /\ metrics' = withDefaults([n \in MetricNames |->
               IF n \in ToSet(metricNames) THEN emptyMetric ELSE metrics[n]])
        /\ metricNames' = DefaultNames
        /\ alertRules' = [a \in DOMAIN alertRules \ ToSet(activeAlerts)
                             |-> alertRules[a]]
        /\ activeAlerts' = <<>>
        /\ UNCHANGED <<logIdCounter, messageToLogs, userToLogs, alertIdCounter,
                       configVars, timestamp>>
    BY DEF emergencyClearAllData, clearRecords
  <1>2. DOMAIN logs' = {} /\ DOMAIN alertRules' = {}
    BY <1>1 DEF LInv, LogsOK, AlertsOK
  <1>3. /\ allLogIds' \in Seq(1 .. logIdCounter) /\ DOMAIN allLogIds' = {}
        /\ activeAlerts' \in Seq(1 .. alertIdCounter) /\ ToSet(activeAlerts') = {}
    <2>1. DOMAIN <<>> = {} /\ ToSet(<<>>) = {}
      BY EmptySeq DEF ToSet
    <2> QED BY <1>1, <2>1
  <1>4. LogsOK'
    BY <1>1, <1>2, <1>3 DEF LInv, LogsOK, InOrder, Increasing
  <1>5. AlertsOK'
    BY <1>1, <1>2, <1>3 DEF LInv, AlertsOK
  <1>6. ConfigOK'
    BY <1>1 DEF LInv, ConfigOK, configVars
  <1>7. MetricsOK'
    <2>1. [n \in MetricNames |->
             IF n \in ToSet(metricNames) THEN emptyMetric ELSE metrics[n]]
             = [n \in MetricNames |-> emptyMetric]
      BY DEF LInv, MetricsOK, MsOK
    <2>2. metrics' = withDefaults([n \in MetricNames |-> emptyMetric])
      BY <1>1, <2>1
    <2> QED BY <1>1, <2>2, DefaultsOK DEF MetricsOK
  <1> QED BY <1>4, <1>5, <1>6, <1>7 DEF LInv

LEMMA InitOK == Init => LInv
  <1> SUFFICES ASSUME Init PROVE LInv
    OBVIOUS
  <1>1. DOMAIN <<>> = {} /\ ToSet(<<>>) = {}
    BY EmptySeq DEF ToSet
  <1>2. /\ logs = <<>> /\ logIdCounter = 0 /\ allLogIds = <<>> /\ timestamp = 1
        /\ messageToLogs = [m \in MsgIds |-> <<>>]
        /\ userToLogs = [u \in Users |-> <<>>]
    BY DEF Init
  <1>3. \A S : <<>> \in Seq(S)
    OBVIOUS
  <1>4. LogsOK
    BY <1>1, <1>2, <1>3 DEF LogsOK, InOrder, Increasing
  <1>5. AlertsOK
    BY <1>1, <1>3 DEF Init, AlertsOK
  <1>6. ConfigOK
    BY DEF Init, ConfigOK, LogLevel, INFO, DEBUG, CRITICAL
  <1>7. MetricsOK
    BY DefaultsOK DEF Init, MetricsOK
  <1> QED BY <1>4, <1>5, <1>6, <1>7 DEF LInv

LEMMA NextOK ==
    ASSUME LInv, [Next]_vars
    PROVE  LInv'
  <1>1. CASE Tick
    BY <1>1, TickStep
  <1>2. ASSUME NEW l \in LevelInputs, NEW m \in MsgIds \cup {NoMsg},
               NEW u \in Users \cup {NoUser}, addLog(l, m, u)
        PROVE  LInv'
    BY <1>2, AddLogStep, MonitoringLoggerAssumption
  <1>3. ASSUME NEW m \in MsgIds, NEW u \in Users, NEW s \in BOOLEAN,
               NEW d \in {0} \cup ValueInputs, logOperation(m, u, s, d)
        PROVE  LInv'
    <2>1. d \in 0 .. MAX_UINT
      BY MonitoringLoggerAssumption
    <2> QED BY <1>3, <2>1, OperationStep
  <1>4. ASSUME NEW n \in MetricInputs, NEW v \in ValueInputs,
               updateCounter(n, v) \/ updateGauge(n, v) \/ updateHistogram(n, v)
        PROVE  LInv'
    <2>1. n \in MetricNames /\ v \in 0 .. MAX_UINT /\ v \in Nat
      BY MonitoringLoggerAssumption
    <2>2. CASE updateCounter(n, v)
      BY <2>1, <2>2, CounterStep
    <2>3. CASE updateGauge(n, v)
      BY <2>1, <2>3, GaugeStep
    <2>4. CASE updateHistogram(n, v)
      <3> DEFINE own == <<>>
      <3>1. own \in Seq(LogEntry) /\ Entries(own, 0)
        BY Empty
      <3>2. MsOK(metrics, metricNames) /\ sample(metrics, n, v, own)
        BY <2>4 DEF updateHistogram, LInv, MetricsOK
      <3> HIDE DEF own
      <3> QED BY <2>1, <3>1, <3>2, SampleStep
    <2> QED BY <1>4, <2>2, <2>3, <2>4
  <1>5. ASSUME NEW n \in MetricInputs, NEW t \in ThresholdInputs,
               NEW c \in CooldownInputs, createAlertRule(n, t, c)
        PROVE  LInv'
    <2>1. n \in MetricNames /\ t \in Nat /\ c \in Nat
      BY MonitoringLoggerAssumption
    <2> QED BY <1>5, <2>1, AlertRuleStep
  <1>6. ASSUME NEW l \in LevelInputs, setMinLogLevel(l)
        PROVE  LInv'
    BY <1>6, SwitchStep, MonitoringLoggerAssumption DEF setMinLogLevel, LInv, ConfigOK
  <1>7. ASSUME NEW b \in BOOLEAN,
               setLoggingEnabled(b) \/ setMetricsEnabled(b) \/ setAlertingEnabled(b)
        PROVE  LInv'
    BY <1>7, SwitchStep
       DEF setLoggingEnabled, setMetricsEnabled, setAlertingEnabled, LInv, ConfigOK
  <1>8. ASSUME NEW t \in 1 .. timestamp, archiveLogs(t)
        PROVE  LInv'
    <2>1. t \in Nat
      BY DEF LInv, LogsOK
    <2> QED BY <1>8, <2>1, ArchiveStep
  <1>9. CASE emergencyClearAllData
    BY <1>9, ClearStep
  <1>10. CASE UNCHANGED vars
    BY <1>10, SwitchStep DEF vars, configVars, LInv, ConfigOK
  <1> QED BY <1>1, <1>2, <1>3, <1>4, <1>5, <1>6, <1>7, <1>8, <1>9, <1>10 DEF Next

----------------------------------------------------------------------------
(* The theorems *)

\* The inductive invariant holds in every reachable state, for any sets of
\* messages, users and metrics and any arguments.
THEOREM Invariance == Spec => []LInv
  BY InitOK, NextOK, PTL DEF Spec

\* Every variable of the logger keeps its type, and ids are not ahead of their
\* counters.
THEOREM TypeCorrect == Spec => []TypeOK
  <1>1. LInv => TypeOK
    <2> SUFFICES ASSUME LInv PROVE TypeOK
      OBVIOUS
    <2>1. DOMAIN alertRules \subseteq 1 .. alertIdCounter
          /\ ToSet(activeAlerts) = DOMAIN alertRules
          /\ \A a \in DOMAIN alertRules : alertRules[a] \in AlertRule
      BY DEF LInv, AlertsOK
    <2> QED BY <2>1 DEF LInv, LogsOK, ConfigOK, MetricsOK, MsOK, TypeOK
  <1> QED BY <1>1, Invariance, PTL

\* getLogsByMessage, getLogsByUser and getRecentLogs show the live entries,
\* whatever is archived or cleared in between.
THEOREM ListsShowLogs == Spec => []LogsListed
  <1>1. LInv => IndexesTellTruth
    <2> SUFFICES ASSUME LInv, NEW id \in DOMAIN logs
                 PROVE  Cardinality({i \in DOMAIN allLogIds : allLogIds[i] = id}) = 1
      BY DEF IndexesTellTruth, LInv, LogsOK
    <2>1. 1 .. logIdCounter \subseteq Int
      OBVIOUS
    <2>2. allLogIds \in Seq(Int)
      BY <2>1, SeqMonotonic DEF LInv, LogsOK
    <2>3. Increasing(allLogIds) /\ id \in ToSet(allLogIds)
      BY DEF LInv, LogsOK
    <2> QED BY <2>2, <2>3, OnceInIncreasing
  <1>2. LInv => RecentLogsNewestFirst
    BY DEF LInv, LogsOK, Increasing, InOrder, RecentLogsNewestFirst
  <1> QED BY <1>1, <1>2, Invariance, PTL DEF LogsListed

\* The operation counters add up, every histogram's average lies between its
\* smallest and its largest sample, and every metric written is listed, in
\* whatever order logging, updates and clearing come.
THEOREM MetricsAreCoherent == Spec => []MetricsCoherent
  <1>1. LInv => OperationsAddUp
    BY DEF LInv, MetricsOK, MsOK, OpsAdd, OperationsAddUp
  <1>2. LInv => MetricsListed
    BY DEF LInv, MetricsOK, MsOK, MetricsListed
  <1>3. LInv => HistogramsCoherent
    <2> SUFFICES ASSUME LInv, NEW n \in Sampled,
                        metrics[n].metricType = "HISTOGRAM", metrics[n].count > 0
                 PROVE  /\ metrics[n].min <= metrics[n].value
                        /\ metrics[n].value <= metrics[n].max
                        /\ metrics[n].count = 1 =>
                              /\ metrics[n].min = metrics[n].sum
                              /\ metrics[n].max = metrics[n].sum
      BY DEF HistogramsCoherent, Sampled
    <2> DEFINE metric == metrics[n]
    <2>1. n \in MetricNames
      BY Names DEF Sampled, MetricNames
    <2>2. metric \in Metric /\ SamplesOK(metric)
      BY <2>1 DEF LInv, MetricsOK, MsOK
    <2>3. /\ metric.min \in Nat /\ metric.max \in Nat /\ metric.sum \in Nat
          /\ metric.count \in Nat /\ metric.count > 0
      BY <2>2 DEF Metric
    <2>4. metric.lastUpdated # 0
      BY <2>2, <2>3 DEF SamplesOK
    <2>5. /\ metric.min * metric.count <= metric.sum
          /\ metric.sum <= metric.max * metric.count
          /\ metric.value = metric.sum \div metric.count
          /\ metric.count = 1 => metric.min = metric.sum /\ metric.max = metric.sum
      BY <2>2, <2>4 DEF SamplesOK
    <2> HIDE DEF metric
    <2>6. metric.min <= metric.value /\ metric.value <= metric.max
      BY <2>3, <2>5, AverageBetween
    <2> QED BY <2>5, <2>6 DEF metric
  <1> QED BY <1>1, <1>2, <1>3, Invariance, PTL DEF MetricsCoherent
============================================================================
