----------------------------- MODULE Resilience -----------------------------
(***************************************************************************)
(* packages/resilience: the circuit breaker every service puts in front of *)
(* its dependencies, and the rate limiters.                                *)
(*                                                                         *)
(* The breaker's state and its half-open counters are atomics that callers *)
(* read and add to without the mutex; only transitions take it.  So a      *)
(* caller may act on a state that has changed since.                       *)
(***************************************************************************)
EXTENDS Integers, FiniteSets, Functions

CONSTANTS Callers,           \* goroutines that call through the breaker
          TripAfter,         \* MaxFailures of the breaker
          MaxLost,           \* bound on the calls that panic
          Limiters,          \* processes that share a Redis limiter
          WindowRate,        \* Rate of the limiter
          WindowSize,        \* Window, in ticks
          ClockSkew,         \* how far the clocks of the processes may be apart
          MaxWindowTime,     \* bound on the clock
          BurstSize, BucketIdle, \* of the token bucket; ticks after which an idle bucket is dropped
          MaxBucketTime

\* Every limiter the services make fills its burst up again within the idle
\* time after which cleanup drops a bucket: two windows.
ASSUME ResilienceAssumption ==
  /\ IsFiniteSet(Callers) /\ MaxLost \in Nat
  /\ {WindowRate, ClockSkew, MaxWindowTime, BurstSize, BucketIdle} \subseteq Nat
  /\ WindowSize \in Nat \ {0} /\ BurstSize <= BucketIdle + 1

(* The half-open settings of the presets, and the breakers each service makes. *)

Setting(calls, successes) == [calls |-> calls, successes |-> successes]

DatabasePreset == Setting(3, 2)
ReplicaPreset == Setting(5, 3)
RedisPreset == Setting(5, 3)
KafkaPreset == Setting(2, 2)
KafkaConsumerPreset == Setting(3, 2)
ExternalAPIPreset == Setting(1, 1)
ShardRouterPreset == Setting(3, 2)
LenientPreset == Setting(5, 3)
DefaultSetting == Setting(3, 2)

UserCircuits == [database |-> DatabasePreset, replica |-> ReplicaPreset, redis |-> RedisPreset,
                 sms |-> [ExternalAPIPreset EXCEPT !.calls = 2]]
AdminCircuits == [database |-> DatabasePreset, replica |-> ReplicaPreset, redis |-> RedisPreset,
                  kafkaAdmin |-> Setting(3, 2)]
LeaderboardCircuits == [database |-> LenientPreset, redis |-> RedisPreset, redisCluster |-> RedisPreset,
                        kafka |-> KafkaConsumerPreset]
GatewayCircuits == [database |-> DatabasePreset, replica |-> ReplicaPreset, redis |-> RedisPreset,
                    kafka |-> KafkaPreset, shardRouter |-> ShardRouterPreset]
RouterCircuits == [database |-> DatabasePreset, replica |-> ReplicaPreset, redis |-> RedisPreset]
EngineCircuits == [database |-> DatabasePreset, redis |-> RedisPreset, kafka |-> KafkaPreset,
                   kafkaConsumer |-> KafkaConsumerPreset]
PaymentCircuits == [database |-> DatabasePreset, replica |-> ReplicaPreset, redis |-> RedisPreset,
                    provider |-> DefaultSetting]

Circuits ==
  UNION {{t[d] : d \in DOMAIN t} : t \in {UserCircuits, AdminCircuits, LeaderboardCircuits,
    GatewayCircuits, RouterCircuits, EngineCircuits, PaymentCircuits}}

VARIABLES
  preset,   \* the half-open settings of the breaker, one a service uses
  circuit,  \* state, whether ResetTimeout has passed, failures, halfOpenCalls, halfOpenSuccesses
  calling,  \* what each caller does, and the state it last read
  lostCalls,     \* (history) calls that panicked and so recorded nothing
  wtime,    \* real time, at Redis
  skew,     \* how far ahead the clock of each process is
  zset,     \* the sorted set: how many entries have each score
  expires,  \* when Redis drops it
  fixed,    \* the counter of the fixed window and its expiry
  admitted, \* (history) requests admitted at each time, by either limiter
  btime,    \* the clock of the token bucket
  bucket,   \* the bucket of a key
  doomed,   \* cleanup has chosen it
  racedTokens,    \* (history) tokens taken from a chosen bucket
  took      \* (history) tokens taken

breakerVars == <<preset, circuit, calling, lostCalls>>
windowVars == <<wtime, skew, zset, expires, fixed, admitted>>
bucketVars == <<btime, bucket, doomed, racedTokens, took>>
resilienceVars == <<preset, circuit, calling, lostCalls,
                    wtime, skew, zset, expires, fixed, admitted, btime, bucket, doomed, racedTokens, took>>

NoCall == [pc |-> "idle", seen |-> "none"]
Shut == [state |-> "closed", elapsed |-> FALSE, failures |-> 0, calls |-> 0, successes |-> 0]

BreakerInit ==
  /\ preset \in Circuits
  /\ circuit = Shut
  /\ calling = [c \in Callers |-> NoCall]
  /\ lostCalls = 0

-----------------------------------------------------------------------------
(* circuitbreaker.CircuitBreaker *)

CallGoes(c, pc) == calling' = [calling EXCEPT ![c] = IF pc = "idle" THEN NoCall ELSE [@ EXCEPT !.pc = pc]]

\* mu is free: only the close of a circuit holds it over two steps.
MuFree == \A c \in Callers : calling[c].pc # "clear"

\* transitionTo: nothing when the state is the same, else the time of the change starts anew.
To(cb, s) == IF cb.state = s THEN cb ELSE [cb EXCEPT !.state = s, !.elapsed = FALSE]

\* halfOpenCalls.Add(1), capped just above the limit it is compared with.
AddCall(cb) == [cb EXCEPT !.calls = IF @ > preset.calls THEN @ ELSE @ + 1]

LoadState(c) ==
  /\ calling[c] = NoCall
  /\ calling' = [calling EXCEPT ![c] = [pc |-> "allow", seen |-> circuit.state]]
  /\ UNCHANGED <<preset, circuit, lostCalls>>

\* A test call takes one of the half-open slots, or is rejected.
TakeSlot(c) ==
  /\ circuit' = AddCall(circuit)
  /\ CallGoes(c, IF circuit.calls < preset.calls THEN "run" ELSE "idle")

\* allowRequest, by the state the caller read; an open circuit is looked at again under mu.
AllowRequest(c) ==
  /\ calling[c].pc = "allow"
  /\ \/ calling[c].seen = "closed" /\ CallGoes(c, "run") /\ UNCHANGED circuit
     \/ calling[c].seen = "half" /\ TakeSlot(c)
     \/ /\ calling[c].seen = "open" /\ MuFree
        /\ \/ circuit.state = "half" /\ TakeSlot(c)
           \/ circuit.state = "closed" /\ CallGoes(c, "run") /\ UNCHANGED circuit
           \/ /\ circuit.state = "open" /\ circuit.elapsed
              /\ circuit' = To([circuit EXCEPT !.calls = 1, !.successes = 0], "half")
              /\ CallGoes(c, "run")
           \/ /\ circuit.state = "open" /\ ~circuit.elapsed
              /\ CallGoes(c, "idle") /\ UNCHANGED circuit
  /\ UNCHANGED <<preset, lostCalls>>

\* The wrapped call returns, or times out, and the caller reads the state to record it under.
CallReturns(c, outcome) ==
  /\ calling[c].pc = "run"
  /\ calling' = [calling EXCEPT ![c] = [pc |-> outcome, seen |-> circuit.state]]
  /\ UNCHANGED <<preset, circuit, lostCalls>>

\* ExecuteWithContext does not recover: a call that panics is recorded neither way.
CallPanics(c) ==
  /\ calling[c].pc = "run" /\ lostCalls < MaxLost
  /\ lostCalls' = lostCalls + 1
  /\ CallGoes(c, "idle") /\ UNCHANGED <<preset, circuit>>

RecordSuccess(c) ==
  /\ calling[c].pc = "success"
  /\ \/ /\ calling[c].seen # "half"
        /\ CallGoes(c, "idle") /\ UNCHANGED circuit
     \/ /\ calling[c].seen = "half"
        /\ circuit' = [circuit EXCEPT !.successes = IF @ < preset.successes THEN @ + 1 ELSE @]
        /\ CallGoes(c, IF circuit.successes + 1 >= preset.successes THEN "close" ELSE "idle")
  /\ UNCHANGED <<preset, lostCalls>>

\* The close, and the clearing of the failures it found, under mu but not under failuresMu.
CloseCircuit(c) ==
  /\ calling[c].pc = "close" /\ MuFree
  /\ circuit' = To(circuit, "closed")
  /\ CallGoes(c, "clear") /\ UNCHANGED <<preset, lostCalls>>

ClearFailures(c) ==
  /\ calling[c].pc = "clear"
  /\ circuit' = [circuit EXCEPT !.failures = 0]
  /\ CallGoes(c, "idle") /\ UNCHANGED <<preset, lostCalls>>

\* recordFailure; any number of the older failures may have left the window.
RecordCallFailure(c) ==
  /\ calling[c].pc = "failure"
  /\ \/ /\ calling[c].seen = "closed"
        /\ \E kept \in 0 .. circuit.failures :
             /\ circuit' = [circuit EXCEPT !.failures = IF kept < TripAfter THEN kept + 1 ELSE kept]
             /\ CallGoes(c, IF kept + 1 >= TripAfter THEN "trip" ELSE "idle")
     \/ calling[c].seen = "half" /\ CallGoes(c, "trip") /\ UNCHANGED circuit
     \/ calling[c].seen = "open" /\ CallGoes(c, "idle") /\ UNCHANGED circuit
  /\ UNCHANGED <<preset, lostCalls>>

TripCircuit(c) ==
  /\ calling[c].pc = "trip" /\ MuFree
  /\ circuit' = To(circuit, "open")
  /\ CallGoes(c, "idle") /\ UNCHANGED <<preset, lostCalls>>

ResetTimeoutPasses ==
  /\ circuit.state = "open" /\ ~circuit.elapsed
  /\ circuit' = [circuit EXCEPT !.elapsed = TRUE]
  /\ UNCHANGED <<preset, calling, lostCalls>>

\* State(), as the health endpoints ask it, makes the transition without a call.
QueryState ==
  /\ circuit.state = "open" /\ circuit.elapsed /\ MuFree
  /\ circuit' = To([circuit EXCEPT !.calls = 0, !.successes = 0], "half")
  /\ UNCHANGED <<preset, calling, lostCalls>>

\* Reset, from the circuit admin endpoints.
ResetCircuit ==
  /\ MuFree /\ circuit # Shut
  /\ circuit' = [To(circuit, "closed") EXCEPT !.failures = 0, !.calls = 0, !.successes = 0]
  /\ UNCHANGED <<preset, calling, lostCalls>>

BreakerNext ==
  \/ \E c \in Callers :
       \/ LoadState(c) \/ AllowRequest(c) \/ CallPanics(c)
       \/ \E o \in {"success", "failure"} : CallReturns(c, o)
       \/ RecordSuccess(c) \/ CloseCircuit(c) \/ ClearFailures(c)
       \/ RecordCallFailure(c) \/ TripCircuit(c)
  \/ ResetTimeoutPasses \/ QueryState \/ ResetCircuit

\* A half-open circuit never waits for answers that cannot come: when no call is
\* in flight and none panicked, a test slot is free, so the dependency is tried
\* again.  (Nothing else leaves half-open: there is no timeout on it.)
HalfOpenStillTries ==
  circuit.state = "half" /\ lostCalls = 0 /\ (\A c \in Callers : calling[c] = NoCall)
    => circuit.calls < preset.calls

-----------------------------------------------------------------------------
(* SlidingWindowLimiter and FixedWindowLimiter: Lua scripts in Redis, called *)
(* with the clock of the calling process.                                    *)

Times == 0 .. MaxWindowTime + ClockSkew
Total(f, S) == SumFunctionOnSet(f, S)

WindowInit ==
  /\ wtime = 0
  /\ skew \in [Limiters -> 0 .. ClockSkew]
  /\ zset = [t \in Times |-> 0]
  /\ expires = 0
  /\ fixed = [count |-> 0, expires |-> 0]
  /\ admitted = [sliding |-> [t \in Times |-> 0], fixed |-> [t \in Times |-> 0]]

\* Time passes, and Redis drops the keys whose PEXPIRE is over.
WindowTick ==
  /\ wtime < MaxWindowTime
  /\ wtime' = wtime + 1
  /\ fixed' = IF fixed.expires <= wtime + 1 THEN [count |-> 0, expires |-> 0] ELSE fixed
  /\ zset' = IF expires <= wtime + 1 THEN [t \in Times |-> 0] ELSE zset
  /\ UNCHANGED <<skew, expires, admitted>>

Entries(now) == [t \in Times |-> IF t <= now - WindowSize THEN 0 ELSE zset[t]]

\* AllowNCtx with slidingWindowScript: entries older than a window go, and the
\* request is added under the caller's time when the limit has room for it.
SlidingAllow(p) ==
  LET now == wtime + skew[p] IN
  /\ Total(Entries(now), Times) + 1 <= WindowRate
  /\ zset' = [Entries(now) EXCEPT ![now] = @ + 1]
  /\ expires' = wtime + WindowSize
  /\ admitted' = [admitted EXCEPT !.sliding[wtime] = @ + 1]
  /\ UNCHANGED <<wtime, skew, fixed>>

\* A refused request, and checkOnlyScript, still remove the old entries.
SlidingRefuse(p) ==
  LET now == wtime + skew[p] IN
  /\ zset' = Entries(now) /\ zset' # zset
  /\ UNCHANGED <<wtime, skew, expires, fixed, admitted>>

\* fixedWindowScript: the first request of a window sets its expiry.
FixedAllow ==
  /\ fixed.count + 1 <= WindowRate
  /\ fixed' = [count |-> fixed.count + 1,
               expires |-> IF fixed.count = 0 THEN wtime + WindowSize ELSE fixed.expires]
  /\ admitted' = [admitted EXCEPT !.fixed[wtime] = @ + 1]
  /\ UNCHANGED <<wtime, skew, zset, expires>>

WindowNext ==
  \/ WindowTick \/ FixedAllow
  \/ \E p \in Limiters : SlidingAllow(p) \/ SlidingRefuse(p)

\* However the requests fall and whichever process asks, the sliding limiter admits
\* no more than its rate in any window shortened by what the clocks differ, and
\* the fixed one no more than two rates in any window.
WindowsLimit ==
  \A t \in Times :
    /\ Total(admitted.sliding, {u \in Times : u > t - (WindowSize - ClockSkew) /\ u <= t}) <= WindowRate
    /\ Total(admitted.fixed, {u \in Times : u > t - WindowSize /\ u <= t}) <= 2 * WindowRate

-----------------------------------------------------------------------------
(* UserRateLimiter (and WebSocketLimiter, which is the same): a token bucket *)
(* per key, one token per tick, dropped by a ticker when nobody used it.     *)

NoBucket == [here |-> FALSE, tokens |-> 0, update |-> 0, access |-> 0]

BucketInit ==
  /\ btime = 0
  /\ bucket = NoBucket
  /\ doomed = FALSE /\ racedTokens = 0 /\ took = 0

BucketTick ==
  /\ btime < MaxBucketTime
  /\ btime' = btime + 1
  /\ UNCHANGED <<bucket, doomed, racedTokens, took>>

\* getBucket and refill.
Refilled ==
  IF ~bucket.here THEN [here |-> TRUE, tokens |-> BurstSize, update |-> btime, access |-> btime]
  ELSE [bucket EXCEPT !.tokens = IF @ + (btime - bucket.update) > BurstSize THEN BurstSize
                                 ELSE @ + (btime - bucket.update),
                      !.update = btime, !.access = btime]

\* takeN; a refused request still counts as use.
TakeToken ==
  /\ \/ /\ Refilled.tokens >= 1
        /\ bucket' = [Refilled EXCEPT !.tokens = @ - 1]
        /\ took' = took + 1
        /\ racedTokens' = IF doomed THEN racedTokens + 1 ELSE racedTokens
     \/ /\ Refilled.tokens < 1
        /\ bucket' = Refilled /\ UNCHANGED <<took, racedTokens>>
  /\ UNCHANGED <<btime, doomed>>

\* A bucket chosen before it had time to fill up again.
ChooseYoung ==
  /\ bucket.here /\ ~doomed /\ btime - bucket.access > 0
  /\ doomed' = TRUE
  /\ UNCHANGED <<btime, bucket, racedTokens, took>>

\* cleanup first looks at every bucket ...
ChooseIdle ==
  /\ bucket.here /\ ~doomed /\ btime - bucket.access > BucketIdle
  /\ doomed' = TRUE
  /\ UNCHANGED <<btime, bucket, racedTokens, took>>

\* ... and then deletes the chosen ones, without looking again.
DeleteIdle ==
  /\ doomed
  /\ doomed' = FALSE /\ bucket' = NoBucket
  /\ UNCHANGED <<btime, racedTokens, took>>

BucketNext == BucketTick \/ TakeToken \/ ChooseIdle \/ DeleteIdle

\* Dropping an idle bucket gives nothing away: a key never takes more than the
\* burst and what the rate has added, but for what it took between the
\* moment cleanup chose its bucket and the moment it deleted it.
BucketHonest == took <= BurstSize + btime + racedTokens
=============================================================================
