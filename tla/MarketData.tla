----------------------------- MODULE MarketData -----------------------------
(***************************************************************************)
(* The market ingestor.  Three machines, fed by the same ticks:             *)
(*                                                                         *)
(*  - the feed: ProviderManager's connection loop, its staleness watchdog, *)
(*    its health checker and the control API replace and close the one     *)
(*    provider object the connection loop is reading from;                 *)
(*  - the candles: ticks of several sources are filtered, aggregated into  *)
(*    a candle per time bucket, handed to a flush worker, written to the   *)
(*    database with an additive upsert and checkpointed in Redis;          *)
(*  - the prices: stored by handleTick, published to Redis once a second.  *)
(*                                                                         *)
(* A candle is the set of ticks it summarises: open, high, low, close and  *)
(* volume are functions of it.  The resolutions run the same code on state *)
(* of their own, so one symbol at one resolution is modelled.              *)
(***************************************************************************)
EXTENDS Integers, FiniteSets

CONSTANTS PrimaryKind, FallbackKind, OtherKind,  \* ProviderAuto: finnhub, twelvedata
          MaxFailures,    \* bound on failureCount
          MaxTicks,       \* ticks offered to handleTick
          MaxBucket,      \* the wall clock runs over buckets 0..MaxBucket
          MaxMarketFaults \* crashes, stops and failed flushes

Kinds == {PrimaryKind, FallbackKind, OtherKind}
Buckets == 0 .. MaxBucket
Ticks == 1 .. MaxTicks
NoCandle == [time |-> -1, ticks |-> {}]

VARIABLES
  feed,      \* ProviderManager: current, usingFallback, failureCount, failureStart, ready
  conn,      \* the connection loop: where it is, and whether its provider is still current
  watchdog,  \* stalenessWatchdog between its check and its switch
  checker,   \* primaryHealthChecker between its check and its switch
  stale,     \* no tick for longer than FailoverTimeout
  crypto,    \* activeCryptoProvider and the two crypto feeds
  active,    \* ca.candles[symbol][resolution]
  pend,      \* ca.pendingFlush
  batch,     \* the batch flushBatch is writing, and its step
  db,        \* table candles: how often each bucket counted each tick
  chk,       \* the checkpoint key in Redis
  chkPend,   \* the candle checkpointActiveCandles has collected
  ticks,     \* the ticks accepted so far, with their buckets
  now,       \* the wall clock
  lost,      \* ticks dropped by a failed flush, a stop or a crash
  marketFaults,
  price      \* a.ticks, a.dirtySymbols, publishSnapshot and the hash prices:latest

feedVars == <<feed, conn, watchdog, checker, stale>>
candleVars == <<crypto, active, pend, batch, db, chk, chkPend, ticks, now, lost, marketFaults>>
marketVars == <<feed, conn, watchdog, checker, stale, crypto, active, pend, batch, db, chk,
                chkPend, ticks, now, lost, marketFaults, price>>

-----------------------------------------------------------------------------
(* The feed. *)

FeedInit ==
  /\ feed = [cur |-> PrimaryKind, fallback |-> FALSE, fails |-> 0, since |-> "none", ready |-> FALSE]
  /\ conn = [pc |-> "idle", own |-> TRUE]
  /\ watchdog = "idle"
  /\ checker = "idle"
  /\ stale = FALSE

\* Close of the current provider.  A reader blocked in ReadMessage gets a nil
\* message when the provider's readLoop ends on the connection's error, and
\* nothing at all when the loop ends on stopCh: it then waits for ever.  A
\* provider closed while it is dialling is connected by the dial that follows.
Closed(c, keep) ==
  IF ~c.own THEN {c}
  ELSE CASE c.pc = "reading" -> {[pc |-> "lost", own |-> keep], [pc |-> "deaf", own |-> keep]}
         [] OTHER -> {[c EXCEPT !.own = keep]}

BeginConnect ==
  /\ conn.pc = "idle"
  /\ conn' = [pc |-> "dialing", own |-> TRUE]
  /\ UNCHANGED <<feed, watchdog, checker, stale>>

ConnectAndSubscribe ==
  /\ conn.pc = "dialing"
  /\ conn' = [conn EXCEPT !.pc = "reading"]
  /\ feed' = [feed EXCEPT !.ready = TRUE]
  /\ UNCHANGED <<watchdog, checker, stale>>

FeedTick ==
  /\ conn.pc = "reading"
  /\ stale' = FALSE
  /\ UNCHANGED <<feed, conn, watchdog, checker>>

ConnectionLost ==
  /\ conn.pc = "reading"
  /\ conn' = [conn EXCEPT !.pc = "lost"]
  /\ UNCHANGED <<feed, watchdog, checker, stale>>

RecordFailure(f) ==
  [f EXCEPT !.ready = FALSE,
            !.fails = IF f.fails < MaxFailures THEN f.fails + 1 ELSE f.fails,
            !.since = IF f.fails = 0 THEN "recent" ELSE f.since]

\* connectAndProcess returned an error: the current provider is closed,
\* whichever it is by now, and the failure counted.
ConnectionFailed ==
  /\ conn.pc \in {"dialing", "lost"}
  /\ conn' = [conn EXCEPT !.pc = "failed"]
  /\ feed' = RecordFailure(feed)
  /\ UNCHANGED <<watchdog, checker, stale>>

ShouldSwitchToFallback(f) ==
  ~f.fallback /\ f.fails > 0 /\ f.since = "old"

SwitchedToFallback(f) ==
  [f EXCEPT !.cur = FallbackKind, !.fallback = TRUE, !.fails = 0, !.since = "none"]

\* The loop asks, and then switches under a lock it takes again.
DecideFailover ==
  /\ conn.pc = "failed"
  /\ conn' = [conn EXCEPT !.pc = IF ShouldSwitchToFallback(feed) THEN "switching" ELSE "idle"]
  /\ UNCHANGED <<feed, watchdog, checker, stale>>

FailOver ==
  /\ conn.pc = "switching"
  /\ feed' = SwitchedToFallback(feed)
  /\ conn' = [conn EXCEPT !.pc = "idle"]
  /\ UNCHANGED <<watchdog, checker, stale>>

\* Time: a failure grows old while it lasts or not (clearFailure runs only
\* when the loop ends), and ticks may stay away.
FailureAges ==
  /\ feed.since = "recent"
  /\ feed' = [feed EXCEPT !.since = "old"]
  /\ UNCHANGED <<conn, watchdog, checker, stale>>

TicksStayAway ==
  /\ ~stale
  /\ stale' = TRUE
  /\ UNCHANGED <<feed, conn, watchdog, checker>>

StalenessWatchdog ==
  /\ watchdog = "idle" /\ stale /\ feed.ready
  /\ LET forced == [feed EXCEPT !.fails = 1, !.since = "old"] IN
       /\ feed' = forced
       /\ watchdog' = IF ShouldSwitchToFallback(forced) THEN "switching" ELSE "idle"
  /\ UNCHANGED <<conn, checker, stale>>

WatchdogSwitch ==
  /\ watchdog = "switching"
  /\ watchdog' = "idle"
  /\ feed' = SwitchedToFallback(feed)
  /\ conn' \in Closed(conn, FALSE)
  /\ UNCHANGED <<checker, stale>>

\* checkPrimaryHealth: a test connection of its own to the primary succeeded.
CheckPrimaryHealth ==
  /\ checker = "idle" /\ feed.fallback
  /\ checker' = "healthy"
  /\ UNCHANGED <<feed, conn, watchdog, stale>>

SwitchToPrimary ==
  /\ checker = "healthy"
  /\ checker' = "idle"
  /\ feed' = [feed EXCEPT !.cur = PrimaryKind, !.fallback = FALSE, !.fails = 0, !.since = "none"]
  /\ conn' \in Closed(conn, FALSE)
  /\ UNCHANGED <<watchdog, stale>>

\* The control API (the first form is a mutant: it forgets the flag).
SwitchToProviderKeepsFlag(k) ==
  /\ k # feed.cur
  /\ feed' = [feed EXCEPT !.cur = k, !.fails = 0, !.since = "none", !.ready = FALSE]
  /\ conn' \in Closed(conn, FALSE)
  /\ UNCHANGED <<watchdog, checker, stale>>

SwitchToProvider(k) ==
  /\ k # feed.cur
  /\ feed' = [cur |-> k, fallback |-> k # PrimaryKind, fails |-> 0, since |-> "none", ready |-> FALSE]
  /\ conn' \in Closed(conn, FALSE)
  /\ UNCHANGED <<watchdog, checker, stale>>

ForceReconnect ==
  /\ feed' = [feed EXCEPT !.ready = FALSE]
  /\ conn' \in Closed(conn, TRUE)
  /\ UNCHANGED <<watchdog, checker, stale>>

FeedNext ==
  \/ BeginConnect \/ ConnectAndSubscribe \/ FeedTick \/ ConnectionLost \/ ConnectionFailed
  \/ DecideFailover \/ FailOver \/ FailureAges \/ TicksStayAway
  \/ StalenessWatchdog \/ WatchdogSwitch \/ CheckPrimaryHealth \/ SwitchToPrimary
  \/ \E k \in Kinds : SwitchToProvider(k)
  \/ ForceReconnect

(***************************************************************************)
(* The flag the health checker, the watchdog and /readyz go by says which  *)
(* provider is current, although four goroutines check it under one lock   *)
(* and replace the provider under another: otherwise a manual switch would *)
(* make automatic fail-over impossible or switch the primary to itself.    *)
(***************************************************************************)
FallbackFlagTrue == feed.fallback <=> feed.cur # PrimaryKind

-----------------------------------------------------------------------------
(* The candles. *)

CryptoFeeds == {"nobitex", "binance"}

CandleInit ==
  /\ crypto = [using |-> "nobitex", cancelled |-> {}, up |-> {}]
  /\ active = NoCandle /\ pend = {} /\ batch = [step |-> "idle", candles |-> {}]
  /\ db = [b \in Buckets |-> [t \in Ticks |-> 0]]
  /\ chk = NoCandle /\ chkPend = NoCandle
  /\ ticks = [t \in {} |-> 0] /\ now = 0 /\ lost = {} /\ marketFaults = 0

\* handleSwitchCryptoProvider: Stop cancels the feed's only context, so a feed
\* that was stopped and is started again ends its loop after one failing poll.
\* Nobitex keeps its connected flag when it is stopped.
SwitchCryptoProvider(p) ==
  /\ p \in CryptoFeeds \cup {"both"}
  /\ LET started == IF p = "both" THEN CryptoFeeds ELSE {p}
         stopped == CryptoFeeds \ started IN
     crypto' = [using |-> p,
                cancelled |-> crypto.cancelled \cup stopped,
                up |-> crypto.up \ ((started \cap crypto.cancelled) \cup (stopped \cap {"binance"}))]
  /\ UNCHANGED <<active, pend, batch, db, chk, chkPend, ticks, now, lost, marketFaults>>

\* A poll or a connection of a crypto feed succeeds or fails.
CryptoFeedPolls(f) ==
  /\ f \notin crypto.cancelled
  /\ \E up \in {crypto.up \cup {f}, crypto.up \ {f}} : up # crypto.up /\ crypto' = [crypto EXCEPT !.up = up]
  /\ UNCHANGED <<active, pend, batch, db, chk, chkPend, ticks, now, lost, marketFaults>>

\* The source filter of handleTick for a crypto symbol ("feed" is the
\* ProviderManager's provider).
SourceAccepted(src) ==
  CASE crypto.using = "both" -> src = "binance" => "nobitex" \notin crypto.up
    [] OTHER -> \/ src = crypto.using
                \/ src = "feed" /\ crypto.using \notin crypto.up

\* updateCandle: a tick of another bucket, later or earlier, completes the
\* candle and starts a new one.
HandleTick(src, b) ==
  LET t == Cardinality(DOMAIN ticks) + 1 IN
  /\ t \in Ticks
  /\ SourceAccepted(src)
  /\ ticks' = [i \in DOMAIN ticks \cup {t} |-> IF i = t THEN b ELSE ticks[i]]
  /\ IF active.time = b
     THEN active' = [active EXCEPT !.ticks = @ \cup {t}] /\ pend' = pend
     ELSE /\ active' = [time |-> b, ticks |-> {t}]
          /\ pend' = IF active = NoCandle THEN pend ELSE pend \cup {active}
  /\ UNCHANGED <<crypto, batch, db, chk, chkPend, now, lost, marketFaults>>

ClockTicks ==
  /\ now < MaxBucket
  /\ now' = now + 1
  /\ UNCHANGED <<crypto, active, pend, batch, db, chk, chkPend, ticks, lost, marketFaults>>

CheckCompletedCandles ==
  /\ active # NoCandle /\ now > active.time
  /\ pend' = pend \cup {active}
  /\ active' = NoCandle
  /\ UNCHANGED <<crypto, batch, db, chk, chkPend, ticks, now, lost, marketFaults>>

FlushPending ==
  /\ batch.step = "idle" /\ pend # {}
  /\ batch' = [step |-> "insert", candles |-> pend]
  /\ pend' = {}
  /\ UNCHANGED <<crypto, active, db, chk, chkPend, ticks, now, lost, marketFaults>>

\* INSERT ... ON CONFLICT DO UPDATE SET volume = candles.volume + EXCLUDED.volume
Upserted(d, candles) ==
  [b \in Buckets |-> [t \in Ticks |->
     d[b][t] + Cardinality({c \in candles : c.time = b /\ t \in c.ticks})]]

FlushBatch ==
  /\ batch.step = "insert"
  /\ db' = Upserted(db, batch.candles)
  /\ batch' = [batch EXCEPT !.step = "cleanup"]
  /\ UNCHANGED <<crypto, active, pend, chk, chkPend, ticks, now, lost, marketFaults>>

\* The key names symbol and resolution, not the bucket: the checkpoint of a
\* newer candle goes with that of the flushed one.
FlushCleanup ==
  /\ batch.step = "cleanup"
  /\ chk' = NoCandle
  /\ batch' = [step |-> "idle", candles |-> {}]
  /\ UNCHANGED <<crypto, active, pend, db, chkPend, ticks, now, lost, marketFaults>>

TicksOf(candles) == UNION {c.ticks : c \in candles}

\* Three attempts failed: the batch is dropped.
FlushFails ==
  /\ batch.step = "insert" /\ marketFaults < MaxMarketFaults
  /\ lost' = lost \cup TicksOf(batch.candles)
  /\ batch' = [step |-> "idle", candles |-> {}]
  /\ marketFaults' = marketFaults + 1
  /\ UNCHANGED <<crypto, active, pend, db, chk, chkPend, ticks, now>>

CheckpointCollect ==
  /\ active # NoCandle /\ chkPend = NoCandle
  /\ chkPend' = active
  /\ UNCHANGED <<crypto, active, pend, batch, db, chk, ticks, now, lost, marketFaults>>

\* The candle is marshalled after the lock is given back: what is written is
\* the collected candle or what it has become.
CheckpointWrite ==
  /\ chkPend # NoCandle
  /\ \E c \in {chkPend} \cup (IF active.time = chkPend.time THEN {active} ELSE {}) : chk' = c
  /\ chkPend' = NoCandle
  /\ UNCHANGED <<crypto, active, pend, batch, db, ticks, now, lost, marketFaults>>

\* What memory held is gone, except what the checkpoint gives back: a candle
\* whose bucket has not ended.  The key is deleted either way.  Stop ends the
\* same way, because it cancels the context that the final flush uses.
Restarted ==
  LET back == IF chk # NoCandle /\ now <= chk.time THEN chk ELSE NoCandle IN
  /\ active' = back
  /\ chk' = NoCandle /\ chkPend' = NoCandle
  /\ pend' = {} /\ batch' = [step |-> "idle", candles |-> {}]
  /\ lost' = lost \cup (TicksOf({active} \cup pend
                                \cup (IF batch.step = "insert" THEN batch.candles ELSE {})) \ back.ticks)

StopOrCrash ==
  /\ marketFaults < MaxMarketFaults
  /\ marketFaults' = marketFaults + 1
  /\ crypto' = [crypto EXCEPT !.cancelled = {}, !.up = {}]
  /\ Restarted
  /\ UNCHANGED <<db, ticks, now>>

CandleNext ==
  \/ \E p \in CryptoFeeds \cup {"both"} : SwitchCryptoProvider(p)
  \/ \E f \in CryptoFeeds : CryptoFeedPolls(f)
  \/ \E src \in CryptoFeeds \cup {"feed"}, b \in Buckets : HandleTick(src, b)
  \/ ClockTicks \/ CheckCompletedCandles \/ FlushPending \/ FlushBatch \/ FlushCleanup
  \/ FlushFails \/ CheckpointCollect \/ CheckpointWrite \/ StopOrCrash

\* How often a tick is counted, in memory and in the table.
InMemory == {active} \cup pend \cup (IF batch.step = "insert" THEN batch.candles ELSE {})
Counted(t) == db[ticks[t]][t] + Cardinality({c \in InMemory : t \in c.ticks})

(***************************************************************************)
(* Late and early ticks, the minute checker, the flush worker and the      *)
(* checkpoints never count a tick twice or drop one while nothing fails;   *)
(* a restart repeats a tick at most once, and a tick that is counted       *)
(* nowhere was lost by a restart or by a flush that gave up; and a tick is *)
(* counted in its own bucket only.                                         *)
(***************************************************************************)
TicksCounted ==
  \A t \in DOMAIN ticks :
    /\ Counted(t) <= 1 + marketFaults
    /\ Counted(t) = 0 => t \in lost
    /\ \A b \in Buckets \ {ticks[t]} : db[b][t] = 0

-----------------------------------------------------------------------------
(* The price of one symbol: handleTick stores it and marks the symbol dirty, *)
(* publishSnapshot takes the mark, reads the price and writes it to Redis.   *)

PriceInit ==
  price = [latest |-> 0, storing |-> {}, dirty |-> FALSE, pub |-> "idle", val |-> 0, redis |-> 0, failed |-> FALSE]

StoreTick(w) ==
  /\ price.latest < MaxTicks /\ w \notin price.storing
  /\ price' = [price EXCEPT !.latest = @ + 1, !.storing = @ \cup {w}]

MarkDirty(w) ==
  /\ w \in price.storing
  /\ price' = [price EXCEPT !.dirty = TRUE, !.storing = @ \ {w}]

TakeDirty ==
  /\ price.pub = "idle" /\ price.dirty
  /\ price' = [price EXCEPT !.pub = "taken", !.dirty = FALSE]

ReadPrice ==
  /\ price.pub = "taken"
  /\ price' = [price EXCEPT !.pub = "read", !.val = price.latest]

WritePrice ==
  /\ price.pub = "read"
  /\ \/ price' = [price EXCEPT !.pub = "idle", !.redis = price.val]
     \/ price' = [price EXCEPT !.pub = "idle", !.failed = TRUE]

PriceNext ==
  \/ \E w \in CryptoFeeds : StoreTick(w) \/ MarkDirty(w)
  \/ TakeDirty \/ ReadPrice \/ WritePrice

(***************************************************************************)
(* A price that Redis does not show yet is on its way there: the symbol is *)
(* dirty, about to be marked, or being published.  Only a failed pipeline  *)
(* leaves Redis behind until the symbol's next tick.                       *)
(***************************************************************************)
PriceReachesRedis ==
  price.redis # price.latest =>
    price.dirty \/ price.storing # {} \/ price.pub # "idle" \/ price.failed

MarketInit == FeedInit /\ CandleInit /\ PriceInit
=============================================================================
