---------------------------- MODULE ShardRouting ----------------------------
(***************************************************************************)
(* The shard router: which engine shard serves a contest.                  *)
(*                                                                         *)
(* Every router process keeps the shards of shard_config in memory and a   *)
(* hash ring over the active ones.  A contest that takes players is pinned *)
(* to its shard in contests.shard_id, so that a changed ring does not move *)
(* it; the pin is written by background workers from a bounded queue.      *)
(* Answers are cached in Redis.  Reads go to a replica of the database     *)
(* when it is healthy and not too far behind, and so does the pin, because *)
(* the job keeps the connection the routing read came from: a pin that was *)
(* missing on a replica is never written.                                  *)
(*                                                                         *)
(* A shard moves on from active to draining, so the comparison of          *)
(* updated_at is a comparison of statuses.                                 *)
(***************************************************************************)
EXTENDS Integers, Sequences, FiniteSets

CONSTANTS Routers,        \* the router processes
          MaxShards,      \* the shards are 1..MaxShards; 0 is no shard
          PersistQueue,   \* capacity of the persist channel
          MaxShardChanges \* bound on the changes an admin makes

\* There is a shard.
ASSUME ShardsAssumption == MaxShards \in Nat \ {0}

Shards == 1 .. MaxShards

VARIABLES
  config,     \* shard_config: "none" is no row
  pin,        \* contests.shard_id, 0 when the contest has none
  memory,     \* each router's shards: "none" is not in the map
  loading,    \* what each router's refresh has read and not merged yet
  persistCh,  \* each router's persist jobs
  cached,     \* whether Redis holds an assignment of the contest
  changes,    \* how often an admin has changed the shards
  auditRow,   \* the newest row of shard_assignment_log: who wrote it, and old_shard_id
  missed      \* shards of the configuration each router has ever been without

routingVars == <<config, pin, memory, loading, persistCh, cached, changes, auditRow, missed>>

Up == {"active", "draining"}
Loadable(rows) == [s \in Shards |-> IF rows[s] = "inactive" THEN "none" ELSE rows[s]]

RoutingInit ==
  /\ config = [s \in Shards |-> IF s = 1 THEN "active" ELSE "none"]
  /\ pin = 0
  /\ memory = [r \in Routers |-> config]
  /\ loading = [r \in Routers |-> <<>>]
  /\ persistCh = [r \in Routers |-> <<>>]
  /\ cached = FALSE
  /\ changes = 0
  /\ auditRow = [router |-> CHOOSE r \in Routers : TRUE, old |-> 0]
  /\ missed = [r \in Routers |-> {}]

\* The routers and the shards they now do without, although the configuration has them.
Notice(rows, mem) ==
  missed' = [r \in Routers |->
               missed[r] \cup {s \in Shards : rows[s] # "none" /\ mem[r][s] = "none"}]

(***************************************************************************)
(* The refresh of the shards in memory.                                    *)
(***************************************************************************)

\* LoadShards reads before it takes the lock, and a replica that lags reads
\* what the primary was: the rows wait in loading until they are merged.
ReadShards(r) ==
  /\ loading[r] = <<>>
  /\ loading' = [loading EXCEPT ![r] = <<Loadable(config)>>]
  /\ UNCHANGED <<config, pin, memory, persistCh, cached, changes, auditRow, missed>>

\* A shard that was read stays as it is in memory when memory is ahead; a
\* shard that was not read is dropped, wherever it came from.
MergeShards(r) ==
  /\ loading[r] # <<>>
  /\ LET read == Head(loading[r])
     IN memory' = [memory EXCEPT ![r] = [s \in Shards |->
                     IF read[s] = "active" /\ @[s] = "draining" THEN @[s] ELSE read[s]]]
  /\ loading' = [loading EXCEPT ![r] = <<>>]
  /\ Notice(config, memory')
  /\ UNCHANGED <<config, pin, persistCh, cached, changes, auditRow>>

\* A process that starts again loads the shards, and its queue is gone.
RestartRouter(r) ==
  /\ memory' = [memory EXCEPT ![r] = Loadable(config)]
  /\ loading' = [loading EXCEPT ![r] = <<>>]
  /\ persistCh' = [persistCh EXCEPT ![r] = <<>>]
  /\ Notice(config, memory')
  /\ UNCHANGED <<config, pin, cached, changes, auditRow>>

(***************************************************************************)
(* The changes an admin makes, each through one router.                    *)
(***************************************************************************)

\* The row first, the map of this router after it, both under its lock.
ChangeShard(r, s, row, mem) ==
  /\ changes < MaxShardChanges
  /\ changes' = changes + 1
  /\ config' = [config EXCEPT ![s] = row]
  /\ memory' = [memory EXCEPT ![r][s] = mem]
  /\ Notice(config', memory')
  /\ UNCHANGED <<pin, loading, persistCh, auditRow>>

\* InvalidateAll after a drain or a removal; a Redis error is only logged.
ClearAssignments == cached' \in {FALSE, cached}

\* The row is updated whatever it says, so a drain through a router that has
\* not heard of a removal makes the shard a draining one again.
DrainShard(r, s) ==
  /\ memory[r][s] = "active"
  /\ ChangeShard(r, s, "draining", "draining")
  /\ ClearAssignments

\* A shard_id that has a row is refused by the primary key.
AddShard(r, s) ==
  /\ memory[r][s] = "none" /\ config[s] = "none"
  /\ ChangeShard(r, s, "active", "active")
  /\ UNCHANGED cached

RemoveShard(r, s) ==
  /\ memory[r][s] # "none"
  /\ ChangeShard(r, s, "inactive", "none")
  /\ ClearAssignments

ExpireAssignment ==
  /\ cached
  /\ cached' = FALSE
  /\ UNCHANGED <<config, pin, memory, loading, persistCh, changes, auditRow, missed>>

(***************************************************************************)
(* The routing of the contest, after a miss in the cache.                  *)
(***************************************************************************)

\* The ring over the active shards: every process with the same ones agrees.
RouteTo(mem) ==
  LET ring == {s \in Shards : mem[s] = "active"}
  IN IF ring = {} THEN 0 ELSE CHOOSE s \in ring : \A t \in ring : t <= s

KeepsActive(r, p) == p # 0 /\ memory[r][p] = "active"

\* A pinned shard is kept while the router has it, active or draining.
Keeps(r, p) == p # 0 /\ memory[r][p] \in Up

\* The pin that was read when this router has its shard, else the ring's.
Answer(r, p) == IF Keeps(r, p) THEN p ELSE RouteTo(memory[r])

\* The answer is cached unless Redis refuses.
CacheAnswer(shard) == shard # 0 /\ cached' \in BOOLEAN

\* A read of the primary: the ring's answer for a contest that takes players
\* is queued as its new pin when the queue has room.
RouteToSticky(r) ==
  /\ ~cached
  /\ CacheAnswer(Answer(r, pin))
  /\ IF ~Keeps(r, pin) /\ Len(persistCh[r]) < PersistQueue
     THEN persistCh' = [persistCh EXCEPT
                          ![r] = Append(@, [old |-> pin, new |-> Answer(r, pin)])]
     ELSE UNCHANGED persistCh
  /\ UNCHANGED <<config, pin, memory, loading, changes, auditRow, missed>>

\* A contest in another status, a failed read, and a read of a replica, which
\* may be behind and refuses the pin: only the cache hears of the answer.
RouteUnpinned(r) ==
  /\ ~cached
  /\ {p \in {0} \cup Shards : Answer(r, p) # 0} # {}
  /\ cached' \in BOOLEAN
  /\ UNCHANGED <<config, pin, memory, loading, persistCh, changes, auditRow, missed>>

\* persistShardAssignment: the pin and the audit row in one transaction, or
\* neither; the job is gone in both cases.
PersistShardAssignment(r) ==
  /\ persistCh[r] # <<>>
  /\ LET job == Head(persistCh[r])
     IN \/ /\ pin' = job.new
           /\ auditRow' = [router |-> r, old |-> job.old]
        \/ UNCHANGED <<pin, auditRow>>
  /\ persistCh' = [persistCh EXCEPT ![r] = Tail(@)]
  /\ UNCHANGED <<config, memory, loading, cached, changes, missed>>

RoutingNext ==
  \/ ExpireAssignment
  \/ \E r \in Routers :
       \/ ReadShards(r) \/ MergeShards(r) \/ RestartRouter(r)
       \/ RouteToSticky(r) \/ RouteUnpinned(r) \/ PersistShardAssignment(r)
       \/ \E s \in Shards : DrainShard(r, s) \/ AddShard(r, s) \/ RemoveShard(r, s)

(***************************************************************************)
(* Draining a shard, adding one and refreshing never move a pinned         *)
(* contest: shard_assignment_log says a router took the contest off a      *)
(* shard only if that router has been without the shard at some time,      *)
(* because it was removed or because the router had not loaded it.         *)
(***************************************************************************)
DrainKeepsContests ==
  auditRow.old = 0 \/ auditRow.old \in missed[auditRow.router]
=============================================================================
