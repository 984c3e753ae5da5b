------------------------------ MODULE ReadPool ------------------------------
(***************************************************************************)
(* packages/db/replica.go: reads go to replicas in turn, writes to the     *)
(* primary.  A ticker starts one goroutine per replica that asks for its   *)
(* lag; it stores the health of the replica first and its lag afterwards.  *)
(* Health endpoints ping the replicas meanwhile, and a ping that succeeds  *)
(* makes a replica healthy again without a new lag.                        *)
(***************************************************************************)
EXTENDS Integers, FiniteSetsExt

CONSTANTS Replicas,          \* how many replicas could be connected
          MaxReplicationLag, \* in ticks
          RetryOnLag,        \* whether the primary stands in for replicas that lag
          LagCheckInterval,  \* ticks between two checks of a replica
          LagTimeout,        \* ticks after which a check gives up
          Faulty,            \* bound: the replicas that may fall behind or go away
          MaxPoolFaults      \* bound on the stalls and outages of replicas

ASSUME PoolAssumption ==
  /\ {Replicas, MaxReplicationLag, LagCheckInterval, LagTimeout} \subseteq Nat \ {0}
  /\ LagTimeout < LagCheckInterval /\ RetryOnLag \in BOOLEAN

\* How old an answer may be while every check succeeds.
FreshBound == MaxReplicationLag + LagCheckInterval + LagTimeout

\* Lags are not told apart beyond this.
MaxBehind == FreshBound + 1

ReplicaIds == 0 .. Replicas - 1
Primary == -1

VARIABLES
  behind,     \* how far each replica really is behind the primary
  stalled,    \* replicas that replay nothing at the moment
  unreachable,\* replicas that do not answer
  conns,      \* each replicaConn: healthy, lag, (history) whether a check vouches for both
  lagCheck,   \* the goroutine that checks a replica: its step, its age, the lag it read
  sinceTick,  \* ticks since the lag checker fired
  rotation,   \* replicaIndex
  poolClosed,
  poolFaults  \* (bound) stalls and outages so far

poolVars == <<behind, stalled, unreachable, conns, lagCheck, sinceTick, rotation,
              poolClosed, poolFaults>>

NoCheck == [at |-> "none", age |-> 0, lag |-> 0]

PoolInit ==
  /\ behind = [r \in ReplicaIds |-> 0] /\ stalled = {} /\ unreachable = {}
  /\ conns = [r \in ReplicaIds |-> [healthy |-> TRUE, lag |-> 0, vouched |-> TRUE]]
  /\ lagCheck = [r \in ReplicaIds |-> NoCheck]
  /\ sinceTick = 0 /\ rotation = 0 /\ poolClosed = FALSE
  /\ poolFaults = 0

(* The replicas. *)

StallOrCatchUp(r) ==
  /\ ~poolClosed /\ r \in Faulty /\ (r \in stalled \/ poolFaults < MaxPoolFaults)
  /\ poolFaults' = poolFaults + (IF r \in stalled THEN 0 ELSE 1)
  /\ stalled' = IF r \in stalled THEN stalled \ {r} ELSE stalled \cup {r}
  /\ behind' = IF r \in stalled THEN [behind EXCEPT ![r] = 0] ELSE behind
  /\ UNCHANGED <<unreachable, conns, lagCheck, sinceTick, rotation, poolClosed>>

GoOrComeBack(r) ==
  /\ ~poolClosed /\ r \in Faulty /\ (r \in unreachable \/ poolFaults < MaxPoolFaults)
  /\ poolFaults' = poolFaults + (IF r \in unreachable THEN 0 ELSE 1)
  /\ unreachable' = IF r \in unreachable THEN unreachable \ {r} ELSE unreachable \cup {r}
  /\ UNCHANGED <<behind, stalled, conns, lagCheck, sinceTick, rotation, poolClosed>>

PoolTick ==
  /\ ~poolClosed /\ sinceTick < LagCheckInterval
  /\ \A r \in ReplicaIds : lagCheck[r].at # "none" => lagCheck[r].age < LagTimeout
  /\ behind' = [r \in ReplicaIds |->
       IF r \in stalled THEN Min({behind[r] + 1, MaxBehind}) ELSE behind[r]]
  /\ lagCheck' = [r \in ReplicaIds |->
       IF lagCheck[r].at = "none" THEN NoCheck ELSE [lagCheck[r] EXCEPT !.age = @ + 1]]
  /\ sinceTick' = sinceTick + 1
  /\ UNCHANGED <<stalled, unreachable, conns,
                 rotation, poolClosed, poolFaults>>

(* The lag checker. *)

CheckAllReplicaLag ==
  /\ ~poolClosed /\ sinceTick = LagCheckInterval
  /\ sinceTick' = 0
  /\ lagCheck' = [r \in ReplicaIds |-> [NoCheck EXCEPT !.at = "query"]]
  /\ UNCHANGED <<behind, stalled, unreachable, conns,
                 rotation, poolClosed, poolFaults>>

QueryLag(r) ==
  /\ lagCheck[r].at = "query" /\ r \notin unreachable
  /\ lagCheck' = [lagCheck EXCEPT ![r] = [at |-> "healthy", age |-> @.age, lag |-> behind[r]]]
  /\ UNCHANGED <<behind, stalled, unreachable, conns, sinceTick,
                 rotation, poolClosed, poolFaults>>

\* The query failed or timed out.
MarkUnhealthy(r) ==
  /\ lagCheck[r].at = "query"
  /\ r \in unreachable \/ lagCheck[r].age = LagTimeout
  /\ lagCheck' = [lagCheck EXCEPT ![r] = NoCheck]
  /\ conns' = [conns EXCEPT ![r] = [healthy |-> FALSE, lag |-> @.lag, vouched |-> @.vouched]]
  /\ UNCHANGED <<behind, stalled, unreachable, sinceTick,
                 rotation, poolClosed, poolFaults>>

StoreHealthy(r) ==
  /\ lagCheck[r].at = "healthy"
  /\ lagCheck' = [lagCheck EXCEPT ![r] = [at |-> "lag", age |-> @.age, lag |-> @.lag]]
  /\ conns' = [conns EXCEPT ![r] =
       [healthy |-> TRUE, lag |-> @.lag, vouched |-> @.vouched /\ @.healthy]]
  /\ UNCHANGED <<behind, stalled, unreachable, sinceTick,
                 rotation, poolClosed, poolFaults>>

StoreLag(r) ==
  /\ lagCheck[r].at = "lag"
  /\ lagCheck' = [lagCheck EXCEPT ![r] = NoCheck]
  /\ conns' = [conns EXCEPT ![r] =
       [healthy |-> @.healthy, lag |-> lagCheck[r].lag, vouched |-> TRUE]]
  /\ UNCHANGED <<behind, stalled, unreachable, sinceTick,
                 rotation, poolClosed, poolFaults>>

\* A health endpoint pings the replicas.
HealthCheck ==
  /\ ~poolClosed
  /\ conns' = [r \in ReplicaIds |->
       [healthy |-> r \notin unreachable, lag |-> conns[r].lag,
        vouched |-> conns[r].vouched /\ (conns[r].healthy \/ r \in unreachable)]]
  /\ UNCHANGED <<behind, stalled, unreachable, lagCheck, sinceTick,
                 rotation, poolClosed, poolFaults>>

(* Reads. *)

Eligible(r) == conns[r].healthy /\ conns[r].lag <= MaxReplicationLag

Replica ==
  LET turn(i) == (rotation + i) % Replicas
      fit == {i \in ReplicaIds : Eligible(turn(i))}
  IN IF poolClosed THEN {Primary}
     ELSE IF fit # {} THEN {turn(Min(fit))}
     ELSE IF RetryOnLag THEN {Primary}
     ELSE ReplicaIds

\* Each call of Replica moves the rotation on, whomever it returns.
Read ==
  /\ ~poolClosed /\ Replica # {}
  /\ rotation' = (rotation + 1) % Replicas
  /\ UNCHANGED <<behind, stalled, unreachable, conns, lagCheck, sinceTick,
                 poolClosed, poolFaults>>

\* Close waits for the checks that are under way.
ClosePool ==
  /\ ~poolClosed /\ \A r \in ReplicaIds : lagCheck[r].at = "none"
  /\ poolClosed' = TRUE
  /\ UNCHANGED <<behind, stalled, unreachable, conns, lagCheck, sinceTick,
                 rotation, poolFaults>>

PoolNext ==
  \/ PoolTick \/ CheckAllReplicaLag \/ HealthCheck \/ Read \/ ClosePool
  \/ \E r \in ReplicaIds :
       \/ StallOrCatchUp(r) \/ GoOrComeBack(r)
       \/ QueryLag(r) \/ MarkUnhealthy(r) \/ StoreHealthy(r) \/ StoreLag(r)

\* A replica answers with data that is at most the allowed lag, one interval
\* and one time-out old, however checks, pings and outages interleave, unless
\* nobody vouches for its lag: a ping, or the first half of a check, made it
\* healthy while the lag stored for it is from before it failed, or no replica
\* is fit and the pool may not turn to the primary.
ReadsFresh ==
  \A r \in Replica \ {Primary} :
    Eligible(r) /\ conns[r].vouched => behind[r] <= FreshBound
=============================================================================
