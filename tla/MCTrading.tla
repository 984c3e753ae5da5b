----------------------------- MODULE MCTrading ------------------------------
(***************************************************************************)
(* The trading side, each service explored on its own: the engine, the     *)
(* market data it fills from, the opening hours, the shards, the gateway,  *)
(* the requests it takes and the live views.                               *)
(***************************************************************************)
EXTENDS MCEngine, MarketData, Ingestion, MarketHours, ShardRouting, Gateway, TradeRequests,
        OrderLimits, LiveFeed

VARIABLE part   \* the service a behaviour is about

Init ==
  /\ part \in {"engine", "feed", "candles", "prices", "spreads", "registry",
               "contestSymbols", "hours", "overrides", "recurrence", "routing", "hub",
               "affinity", "ticks", "requests", "wsticket", "orderLimits", "livefeed",
               "announce"}
  /\ IF part = "hours" THEN TRUE ELSE hoursRule = CHOOSE s \in MarketRules : s.holidays = {} /\ s.open.day < s.close.day
  /\ IF part = "recurrence" THEN TRUE ELSE recurrence = CHOOSE r \in RecurrenceRules : r.kind = "hourly"
  /\ IF part = "registry" THEN TRUE ELSE registry = RegistryStart("deriv", EmptyMaps)
  /\ EngInit /\ MarketInit /\ SpreadInit /\ RegistryInit /\ ContestSymbolsInit /\ HoursInit
     /\ RecurrenceInit /\ RoutingInit /\ HubInit /\ AffinityInit /\ TickInit /\ RequestsInit
     /\ WSTicketInit /\ OrderLimitsInit /\ FeedHubInit /\ AnnounceInit

Next ==
  /\ UNCHANGED part
  /\ \/ /\ part = "engine" /\ EngNext
        /\ UNCHANGED <<marketVars, ingestionVars, mhVars, routingVars, gatewayVars,
                       tradeVars, orderLimitVars, liveVars>>
     \/ /\ \/ part = "feed" /\ FeedNext /\ UNCHANGED <<candleVars, price>>
           \/ part = "candles" /\ CandleNext /\ UNCHANGED <<feedVars, price>>
           \/ part = "prices" /\ PriceNext /\ UNCHANGED <<feedVars, candleVars>>
        /\ UNCHANGED <<engVars, ingestionVars, mhVars, routingVars, gatewayVars, tradeVars,
                       orderLimitVars, liveVars>>
     \/ /\ \/ part = "spreads" /\ SpreadNext /\ UNCHANGED <<registry, contestSymbolVars>>
           \/ part = "registry" /\ RegistryNext /\ UNCHANGED <<spreadVars, contestSymbolVars>>
           \/ part = "contestSymbols" /\ ContestSymbolsNext /\ UNCHANGED <<spreadVars, registry>>
        /\ UNCHANGED <<engVars, marketVars, mhVars, routingVars, gatewayVars, tradeVars,
                       orderLimitVars, liveVars>>
     \/ /\ \/ part = "hours" /\ HoursNext /\ UNCHANGED <<recurrenceVars>>
           \/ part = "overrides" /\ OverridesNext /\ UNCHANGED <<recurrenceVars>>
           \/ part = "recurrence" /\ RecurrenceNext /\ UNCHANGED <<hoursVars>>
        /\ UNCHANGED <<engVars, marketVars, ingestionVars, routingVars, gatewayVars,
                       tradeVars, orderLimitVars, liveVars>>
     \/ /\ part = "routing" /\ RoutingNext
        /\ UNCHANGED <<engVars, marketVars, ingestionVars, mhVars, gatewayVars, tradeVars,
                       orderLimitVars, liveVars>>
     \/ /\ \/ part = "hub" /\ HubNext /\ UNCHANGED <<affinityVars, tickVars>>
           \/ part = "affinity" /\ AffinityNext /\ UNCHANGED <<hubVars, tickVars>>
           \/ part = "ticks" /\ TickNext /\ UNCHANGED <<hubVars, affinityVars>>
        /\ UNCHANGED <<engVars, marketVars, ingestionVars, mhVars, routingVars, tradeVars,
                       orderLimitVars, liveVars>>
     \/ /\ \/ part = "requests" /\ RequestsNext /\ UNCHANGED <<wsTicketVars>>
           \/ part = "wsticket" /\ WSTicketNext /\ UNCHANGED <<requestVars>>
        /\ UNCHANGED <<engVars, marketVars, ingestionVars, mhVars, routingVars, gatewayVars,
                       orderLimitVars, liveVars>>
     \/ /\ part = "orderLimits" /\ OrderLimitsNext
        /\ UNCHANGED <<engVars, marketVars, ingestionVars, mhVars, routingVars, gatewayVars,
                       tradeVars, liveVars>>
     \/ /\ \/ part = "livefeed" /\ FeedHubNext /\ UNCHANGED <<announceVars>>
           \/ part = "announce" /\ AnnounceNext /\ UNCHANGED <<feedHubVars>>
        /\ UNCHANGED <<engVars, marketVars, ingestionVars, mhVars, routingVars, gatewayVars,
                       tradeVars, orderLimitVars>>

Spec == Init /\ [][Next]_<<part, engVars, marketVars, ingestionVars, mhVars, routingVars,
                           gatewayVars, tradeVars, orderLimitVars, liveVars>>

-----------------------------------------------------------------------------
(* Each service's properties, looked at in the behaviours that are about it. *)

\* However order, tick, close, cancel and bulk consumers interleave with
\* crashes and reloads, an order is filled at most once and the quantity a
\* participant may use is what the fills and the waiting orders leave of it
\* (order_processing.go, position_management.go).
FillsConserveQty ==
  part \in {"engine"} =>
    EngTypeOK /\ FilledOnce /\ QtyConserved

\* A failed switch of providers leaves the fallback flag true to the provider
\* in use, every tick ends in exactly one candle and the newest price reaches
\* Redis; spread settings are lost only to a writer that had not read them, a
\* streamed name finds its symbol, and a refresh repairs what lost or doubled
\* contest events left of the subscriptions (market-ingestor,
\* handlers_spreads.go).
MarketDataRight ==
  part \in {"feed", "candles", "prices", "spreads", "registry", "contestSymbols"} =>
    FallbackFlagTrue /\ TicksCounted /\ PriceReachesRedis /\ IngestionHolds

\* Trading windows, next openings and closings, the dates contests may use,
\* the admin's view of them and the recurrences agree with what the rules say
\* of every minute (market_hours.go, market_status.go, calendar.go).
HoursRight ==
  part \in {"hours", "overrides", "recurrence"} =>
    HoursHold

\* A router takes a pinned contest off a shard only when it has been without
\* that shard: draining one, adding one and loading them leave the pins alone,
\* whatever loads and persists race (router.go).
DrainRight ==
  part \in {"routing"} =>
    DrainKeepsContests

\* The hub's maps agree and no open connection misses a record it is owed, the
\* key in Redis names the pod that took over last, and a slow client's newest
\* message is lost only to one sent at the same time (hub.go, registry.go,
\* client.go).
GatewayRight ==
  part \in {"hub", "affinity", "ticks"} =>
    GatewaySafe

\* A trade request acts for its owner and at most once per key, a WebSocket
\* ticket opens one connection, and the limits on orders hold while an order
\* they refuse costs nobody anything (order_idempotency.go,
\* trading_handlers.go, ws_ticket.go, rate_limiter.go).
RequestsRight ==
  part \in {"requests", "wsticket", "orderLimits"} =>
    TradeRequestsSafe /\ OrderLimitsHold

\* A viewer's snapshot and the events after it leave no gap, and every change
\* of a board is announced in the end (tournament_feed.go, leaderboard.go).
LiveFeedRight ==
  part \in {"livefeed", "announce"} =>
    LiveFeedSafe
=============================================================================
