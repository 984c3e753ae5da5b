------------------------------ MODULE Alerting ------------------------------
(***************************************************************************)
(* The operational alerts of the leaderboard worker, the shard router, the *)
(* market ingestor and the trading gateway.                                *)
(*                                                                         *)
(* Every sender hands its alert to notification.Service, either straight   *)
(* away or through an AlertAggregator, which tells the first occurrence of *)
(* a key at once and then one alert per window, with the number of         *)
(* occurrences.  A recovery resets the key of its failure, and two of the  *)
(* services evict keys that have been quiet for long.  The keys of an      *)
(* aggregator do not touch each other, so a behaviour follows one sender.  *)
(***************************************************************************)
EXTENDS Integers, FiniteSets

CONSTANTS AlertWindow,  \* the aggregation window, in ticks of the clock
          AlertTTL,     \* silence after which a key is evicted, longer than the window
          MaxAlertTime, \* bound on the clock
          MaxRaised     \* bound on the occurrences

ASSUME AlertingAssumption == {AlertWindow, AlertTTL} \subseteq Nat /\ AlertWindow <= AlertTTL

(* How each sender sends: "now" straight to the service, "wait" straight and *)
(* waiting for the answer, "window" through the aggregator, "urgent" through *)
(* the aggregator and waiting once the count is high.                        *)

LeaderboardContestAlerts ==
  [started |-> "now", ending |-> "now", finalized |-> "now"]
LeaderboardPrizeAlerts ==
  [prizesStarted |-> "now", prizesCompleted |-> "now", prizesFailed |-> "wait"]
LeaderboardFailureAlerts ==
  [finalizationFailed |-> "wait", transactionFailed |-> "wait", calculationError |-> "window",
   calculationSlow |-> "now"]
LeaderboardDataAlerts ==
  [rankingAnomaly |-> "window", walletCreditFailed |-> "urgent", snapshotWriteError |-> "window"]
LeaderboardReports == [dailySummary |-> "now"]

RouterHealthAlerts ==
  [shardUnhealthy |-> "urgent"]
RouterShardAlerts ==
  [shardFailover |-> "now", allShardsHealthy |-> "now", shardOverloaded |-> "window"]
RouterRoutingAlerts ==
  [routingError |-> "window", cacheInconsistency |-> "window", noHealthyShards |-> "wait",
   assignmentCorrupted |-> "wait"]
RouterLoadAlerts ==
  [cacheMissRate |-> "window", loadImbalance |-> "window", routingLatency |-> "window",
   shardAdded |-> "now", rebalanced |-> "now"]
RouterReports == [healthReport |-> "now"]

IngestorFeedAlerts ==
  [feedDisconnected |-> "window", failover |-> "now", switchback |-> "now"]
IngestorProviderAlerts ==
  [allProvidersDown |-> "window", priceAnomaly |-> "window", rateLimitHit |-> "window"]
IngestorDataAlerts ==
  [apiKeyExhausted |-> "now", priceDataGap |-> "window", webSocketError |-> "window"]
IngestorPublishAlerts ==
  [kafkaPublishError |-> "window", redisPublishError |-> "window"]

GatewayConnectionAlerts ==
  [connectionSpike |-> "window", connectionDrop |-> "window", gatewaySocketError |-> "window"]
GatewayLimitAlerts ==
  [rateLimited |-> "window", circuitTripped |-> "now", allCircuitsOpen |-> "now"]
GatewayLoadAlerts ==
  [batcherOverflow |-> "window", highLatency |-> "window", cannotAccept |-> "now"]
GatewayTrafficAlerts ==
  [peakConnections |-> "now", compression |-> "window", connectionAnomaly |-> "now",
   authFailures |-> "now"]

\* Startup is told without waiting, shutdown before the process goes.
LifecycleAlerts == [startup |-> "now", shutdown |-> "wait"]

\* The senders of each service, by the name of the table they are in.
ServiceAlerts ==
  [leaderboard |-> {LeaderboardContestAlerts, LeaderboardPrizeAlerts, LeaderboardFailureAlerts,
                    LeaderboardDataAlerts, LeaderboardReports, LifecycleAlerts},
   router      |-> {RouterHealthAlerts, RouterShardAlerts, RouterRoutingAlerts, RouterLoadAlerts,
                    RouterReports, LifecycleAlerts},
   ingestor    |-> {IngestorFeedAlerts, IngestorProviderAlerts, IngestorDataAlerts,
                    IngestorPublishAlerts, LifecycleAlerts},
   gateway     |-> {GatewayConnectionAlerts, GatewayLimitAlerts, GatewayLoadAlerts,
                    GatewayTrafficAlerts, LifecycleAlerts}]
Senders ==
  UNION {UNION {{[svc |-> s, alert |-> k, how |-> t[k]] : k \in DOMAIN t} : t \in ServiceAlerts[s]} :
         s \in DOMAIN ServiceAlerts}

\* The failures whose recovery resets their key.
Recoverable == {"shardUnhealthy", "feedDisconnected"}

NoKey == [here |-> FALSE, count |-> 0, sent |-> 0, seen |-> 0]

VARIABLES
  sender,    \* the sender this behaviour follows
  atime,     \* the clock
  agg,       \* its entry in aggregations
  raised,    \* (history) occurrences since the key was last absent
  told,      \* (history) the sum of the counts told in that time
  lastAlert, \* (history) when the last alert was told
  hurried,   \* (history) two alerts of a key were less than a window apart
  hadReset   \* (history) the key was reset or evicted since its last alert

aggregatorVars == <<sender, atime, agg, raised, told, lastAlert, hurried, hadReset>>

AggregatorInit ==
  /\ sender \in Senders
  /\ atime = 0 /\ agg = NoKey
  /\ raised = 0 /\ told = 0
  /\ lastAlert = 0 - AlertWindow /\ hurried = FALSE
  /\ hadReset = FALSE

Aggregated == sender.how \in {"window", "urgent"}

AlertTick ==
  /\ atime < MaxAlertTime
  /\ atime' = atime + 1
  /\ UNCHANGED <<sender, agg, raised, told, lastAlert, hurried, hadReset>>

\* A sender that goes straight to the service.
SendDirect ==
  /\ ~Aggregated /\ raised < MaxRaised
  /\ raised' = raised + 1
  /\ told' = told + 1
  /\ UNCHANGED <<sender, atime, agg, lastAlert, hurried, hadReset>>

\* The entry after the router has evicted the keys that were quiet too long.
Fresh == IF sender.svc = "router" /\ agg.here /\ atime - agg.seen > AlertTTL THEN NoKey ELSE agg

\* The bookkeeping of an occurrence: whether it is told, with how many.
Occurs(first, due, sentAt) ==
  /\ agg' = [here |-> TRUE, count |-> IF due THEN 0 ELSE Fresh.count + 1, sent |-> sentAt, seen |-> atime]
  /\ raised' = IF first THEN 1 ELSE raised + 1
  /\ told' = IF first THEN 1 ELSE IF due THEN told + Fresh.count + 1 ELSE told
  /\ lastAlert' = IF first \/ due THEN atime ELSE lastAlert
  /\ hurried' = (hurried \/ ((first \/ due) /\ ~hadReset /\ atime - lastAlert < AlertWindow))
  /\ hadReset' = (hadReset /\ ~(first \/ due))
  /\ UNCHANGED <<sender, atime>>

\* An alert that forgets to start the next window.
ShouldSendKeepsWindow ==
  /\ Aggregated /\ raised < MaxRaised
  /\ LET first == ~Fresh.here
         due == Fresh.here /\ atime - Fresh.sent >= AlertWindow IN
       Occurs(first, due, IF first THEN atime ELSE Fresh.sent)

\* ShouldSend: the first occurrence is told and stays counted; later ones are
\* told when a window has passed since the last alert, and the count starts anew.
ShouldSend ==
  /\ Aggregated /\ raised < MaxRaised
  /\ LET first == ~Fresh.here
         due == Fresh.here /\ atime - Fresh.sent >= AlertWindow IN
       Occurs(first, due, IF first \/ due THEN atime ELSE Fresh.sent)

\* sendShardRecovered and sendDataFeedReconnected reset the key before they look at the downtime.
Reset ==
  /\ sender.alert \in Recoverable /\ agg.here
  /\ agg' = NoKey
  /\ raised' = 0 /\ told' = 0 /\ hadReset' = TRUE
  /\ UNCHANGED <<sender, atime, lastAlert, hurried>>

\* The gateway's ticker.
Cleanup ==
  /\ sender.svc = "gateway" /\ agg.here /\ atime - agg.seen > AlertTTL
  /\ agg' = NoKey
  /\ raised' = 0 /\ told' = 0 /\ hadReset' = TRUE
  /\ UNCHANGED <<sender, atime, lastAlert, hurried>>

AggregatorNext == AlertTick \/ SendDirect \/ ShouldSend \/ Reset \/ Cleanup

\* No occurrence is dropped from the counts: what the alerts of a key told, with
\* what it still holds back, is every occurrence since the key appeared, the
\* first one counted twice; and unless the failure was over in between, two
\* alerts of a key are a window apart.
OccurrencesTold ==
  /\ agg.here => told + agg.count = raised + 1
  /\ ~Aggregated => told = raised
  /\ ~hurried
=============================================================================
