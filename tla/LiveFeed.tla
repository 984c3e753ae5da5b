------------------------------ MODULE LiveFeed ------------------------------
(***************************************************************************)
(* What the gateway tells spectators and players about a tournament.       *)
(*                                                                         *)
(* feed: the public feed of one tournament, seen by one spectator of       *)
(* several.  The status of the tournament is its version; a change is      *)
(* committed and then published.  A subscriber is added to the hub before  *)
(* a snapshot is read for it, from a replica, in a goroutine of its own.   *)
(*                                                                         *)
(* announce: the leaderboard of one contest.  A change of the scores       *)
(* starts a timer unless one runs, and the timer announces the top ten,    *)
(* which are cached for a few seconds, in a goroutine of its own.          *)
(***************************************************************************)
EXTENDS Integers, Sequences, FiniteSets, Functions

CONSTANTS Spectators,     \* the connections that try to follow the feed
          MaxFeedConns,   \* maxConnections
          FeedQueue,      \* capacity of sendCh
          SubRate,        \* subRateLimit
          MaxVersions,    \* bound on the versions of the tournament
          MaxScores,      \* bound on the changes of the scores
          MaxFirings      \* bound on the broadcasts in progress at once

\* The limits are numbers.
ASSUME LiveFeedAssumption == {MaxFeedConns, FeedQueue, SubRate} \subseteq Nat \ {0}

VARIABLES
  version,     \* the committed version of the tournament
  published,   \* the newest version the gateway has begun to broadcast
  sendingTo,   \* the followers the broadcast still has to reach
  allClients,  \* h.allClients
  followers,   \* h.tournamentClients of the tournament
  joined,      \* per spectator: connecting, connected, leaving, left
  subscribed,  \* c.subscribed has the tournament
  subActions,  \* how often it has (un)subscribed within the window
  snapshot,    \* the snapshot goroutine each of its actions started
  sendCh,      \* its queue
  seen,        \* the newest version it was told of since it subscribed
  excused      \* spectators that lost a message or whose snapshot failed or lagged

feedHubVars == <<version, published, sendingTo, allClients, followers, joined, subscribed,
                 subActions, snapshot, sendCh, seen, excused>>

VARIABLES
  score,       \* how many of the changes are in Redis
  consumed,    \* how many of the changes this pod has consumed
  timer,       \* lbDebounceTimers has the contest
  firing,      \* the broadcasts in progress, with what they have read
  top10,       \* the cached top ten, and whether they are fresh
  announced,   \* the scores announced last
  waived,      \* the newest change that an announcement missed through old scores,
               \* a failed read or an older announcement after it
  stopping     \* the pod shuts down

announceVars == <<score, consumed, timer, firing, top10, announced, waived, stopping>>
liveVars == <<feedHubVars, announceVars>>

NoSnapshot == [at |-> "none", version |-> 0]

FeedHubInit ==
  /\ version = 0 /\ published = 0 /\ sendingTo = {}
  /\ allClients = {} /\ followers = {}
  /\ joined = [s \in Spectators |-> "no"]
  /\ subscribed = {}
  /\ subActions = [s \in Spectators |-> 0]
  /\ snapshot = [s \in Spectators |-> [n \in 1 .. SubRate |-> NoSnapshot]]
  /\ sendCh = [s \in Spectators |-> <<>>]
  /\ seen = [s \in Spectators |-> -1]
  /\ excused = {}

NotFiring == [at |-> "idle", score |-> 0]

AnnounceInit ==
  /\ score = 0 /\ consumed = 0 /\ timer = FALSE
  /\ firing = [g \in 1 .. MaxFirings |-> NotFiring]
  /\ top10 = [score |-> 0, fresh |-> FALSE]
  /\ announced = 0 /\ waived = 0 /\ stopping = FALSE

(***************************************************************************)
(* The tournament.                                                         *)
(***************************************************************************)

ChangeTournament ==
  /\ version < MaxVersions
  /\ version' = version + 1
  /\ UNCHANGED <<published, sendingTo, allClients, followers, joined, subscribed, subActions,
                 snapshot, sendCh, seen, excused>>

\* send: a full queue drops the message.
Queue(s, v) ==
  IF Len(sendCh[s]) < FeedQueue
  THEN sendCh' = [sendCh EXCEPT ![s] = Append(@, v)] /\ UNCHANGED excused
  ELSE excused' = excused \cup {s} /\ UNCHANGED sendCh

\* forwardContestEvent broadcasts to the followers there are: the list is
\* copied, and each is sent the message after that.
BroadcastToTournament ==
  /\ published < version /\ sendingTo = {}
  /\ published' = published + 1
  /\ sendingTo' = followers
  /\ UNCHANGED <<version, allClients, followers, joined, subscribed, subActions, snapshot,
                 sendCh, seen, excused>>

SendTo(s) ==
  /\ s \in sendingTo
  /\ sendingTo' = sendingTo \ {s}
  /\ Queue(s, published)
  /\ UNCHANGED <<version, published, allClients, followers, joined, subscribed, subActions,
                 snapshot, seen>>

(***************************************************************************)
(* A spectator.                                                            *)
(***************************************************************************)

\* The limit is looked at before the upgrade and again when it is registered.
HandleTournamentFeedWS(s) ==
  /\ joined[s] = "no" /\ Cardinality(allClients) < MaxFeedConns
  /\ joined' = [joined EXCEPT ![s] = "upgrading"]
  /\ UNCHANGED <<version, published, sendingTo, allClients, followers, subscribed, subActions,
                 snapshot, sendCh, seen, excused>>

RegisterAnyway(s) == allClients' = allClients \cup {s} /\ joined' = [joined EXCEPT ![s] = "yes"]

RegisterClient(s) ==
  IF Cardinality(allClients) >= MaxFeedConns
  THEN joined' = [joined EXCEPT ![s] = "left"] /\ UNCHANGED allClients
  ELSE allClients' = allClients \cup {s} /\ joined' = [joined EXCEPT ![s] = "yes"]

JoinFeed(s) ==
  /\ joined[s] = "upgrading"
  /\ RegisterClient(s)
  /\ UNCHANGED <<version, published, sendingTo, followers, subscribed, subActions, snapshot,
                 sendCh, seen, excused>>

CheckSubRateLimit(s) == subActions[s] < SubRate /\ subActions' = [subActions EXCEPT ![s] = @ + 1]

\* The follower is added first, the snapshot is read later.
HandleSubscribe(s) ==
  /\ joined[s] = "yes" /\ s \notin subscribed
  /\ CheckSubRateLimit(s)
  /\ subscribed' = subscribed \cup {s}
  /\ followers' = followers \cup {s}
  /\ snapshot' = [snapshot EXCEPT ![s][subActions[s] + 1] = [at |-> "query", version |-> 0]]
  /\ seen' = [seen EXCEPT ![s] = -1]
  /\ excused' = excused \ {s}
  /\ UNCHANGED <<version, published, sendingTo, allClients, joined, sendCh>>

\* Rate limited as well: over the limit the spectator stays subscribed.
HandleUnsubscribe(s) ==
  /\ joined[s] = "yes" /\ s \in subscribed
  /\ CheckSubRateLimit(s)
  /\ subscribed' = subscribed \ {s}
  /\ followers' = followers \ {s}
  /\ UNCHANGED <<version, published, sendingTo, allClients, joined, snapshot, sendCh, seen,
                 excused>>

\* The query, on a copy of the database that may not have the newest version.
\* A copy that has not even what was broadcast excuses the gap.
SendTournamentSnapshot(s, n) ==
  /\ snapshot[s][n].at = "query"
  /\ \E v \in 0 .. version :
       /\ snapshot' = [snapshot EXCEPT ![s][n] = [at |-> "send", version |-> v]]
       /\ excused' = IF v < published THEN excused \cup {s} ELSE excused
  /\ UNCHANGED <<version, published, sendingTo, allClients, followers, joined, subscribed,
                 subActions, sendCh, seen>>

\* The query fails or takes too long, and there is no snapshot.
SnapshotFails(s, n) ==
  /\ snapshot[s][n].at = "query"
  /\ snapshot' = [snapshot EXCEPT ![s][n] = NoSnapshot]
  /\ excused' = excused \cup {s}
  /\ UNCHANGED <<version, published, sendingTo, allClients, followers, joined, subscribed,
                 subActions, sendCh, seen>>

QueueSnapshot(s, n) ==
  /\ snapshot[s][n].at = "send"
  /\ Queue(s, snapshot[s][n].version)
  /\ snapshot' = [snapshot EXCEPT ![s][n] = NoSnapshot]
  /\ UNCHANGED <<version, published, sendingTo, allClients, followers, joined, subscribed,
                 subActions, seen>>

\* A write that fails ends the pump, which then takes no further step.
FeedWritePump(s) ==
  /\ joined[s] = "yes" /\ sendCh[s] # <<>>
  /\ seen' = [seen EXCEPT ![s] = IF @ < Head(sendCh[s]) THEN Head(sendCh[s]) ELSE @]
  /\ sendCh' = [sendCh EXCEPT ![s] = Tail(@)]
  /\ UNCHANGED <<version, published, sendingTo, allClients, followers, joined, subscribed,
                 subActions, snapshot, excused>>

\* readPump's end takes the spectator out of one map after the other.
RemoveClientFromAll(s) ==
  /\ joined[s] = "yes"
  /\ joined' = [joined EXCEPT ![s] = "leaving"]
  /\ followers' = followers \ {s}
  /\ UNCHANGED <<version, published, sendingTo, allClients, subscribed, subActions, snapshot,
                 sendCh, seen, excused>>

UnregisterClient(s) ==
  /\ joined[s] = "leaving"
  /\ joined' = [joined EXCEPT ![s] = "left"]
  /\ allClients' = allClients \ {s}
  /\ UNCHANGED <<version, published, sendingTo, followers, subscribed, subActions, snapshot,
                 sendCh, seen, excused>>

FeedHubNext ==
  \/ ChangeTournament
  \/ BroadcastToTournament
  \/ \E s \in Spectators :
       \/ SendTo(s)
       \/ HandleTournamentFeedWS(s) \/ JoinFeed(s) \/ RemoveClientFromAll(s) \/ UnregisterClient(s)
       \/ HandleSubscribe(s) \/ HandleUnsubscribe(s) \/ FeedWritePump(s)
       \/ \E n \in 1 .. SubRate :
            SendTournamentSnapshot(s, n) \/ SnapshotFails(s, n) \/ QueueSnapshot(s, n)

\* The versions a spectator has been shown, or will be by its queue or the
\* broadcast that is under way.
Shown(s) == {seen[s]} \cup Range(sendCh[s]) \cup IF s \in sendingTo THEN {published} ELSE {}

\* A spectator that follows the tournament and whose snapshot has been sent
\* has, shown or on the way, the newest version that was published, unless a
\* message was dropped or the snapshot failed or was behind: no change falls
\* between the snapshot and the events.  The connections stay within the
\* limit, and the followers are connections the hub knows.
FeedHasNoGap ==
  /\ Cardinality(allClients) <= MaxFeedConns
  /\ followers \subseteq allClients /\ followers \subseteq subscribed
  /\ \A s \in followers \ excused :
       (\A n \in 1 .. SubRate : snapshot[s][n].at = "none") => \E v \in Shown(s) : v >= published

(***************************************************************************)
(* The leaderboard.                                                        *)
(***************************************************************************)

\* The scores in Redis are written by another service, before this pod hears
\* of them or after.
ScoreChanges ==
  /\ score < MaxScores
  /\ score' = score + 1
  /\ UNCHANGED <<consumed, timer, firing, top10, announced, waived, stopping>>

\* A delta over the threshold schedules a broadcast.
ScheduleLeaderboardBroadcast ==
  /\ consumed < MaxScores /\ ~stopping
  /\ consumed' = consumed + 1
  /\ timer' = TRUE
  /\ UNCHANGED <<score, firing, top10, announced, waived, stopping>>

\* The timer's entry goes first, so that a change from now on starts another.
FireTimer(g) ==
  /\ timer /\ firing[g].at = "idle"
  /\ firing' = [firing EXCEPT ![g].at = "cache"]
  /\ timer' = FALSE

FireLeaderboardBroadcast(g) ==
  /\ FireTimer(g) /\ ~stopping
  /\ UNCHANGED <<score, consumed, top10, announced, waived, stopping>>

\* Scores that lack a change this pod knows of leave it out.
Read10(g, scores, where) ==
  /\ firing' = [firing EXCEPT ![g] = [at |-> where, score |-> scores]]
  /\ waived' = IF scores < consumed THEN consumed ELSE waived

\* A fresh cache answers, else Redis does and the cache is renewed after it.
GetTop10Cached(g) ==
  /\ firing[g].at = "cache"
  /\ IF top10.fresh
     THEN Read10(g, top10.score, "announce")
     ELSE firing' = [firing EXCEPT ![g].at = "redis"] /\ UNCHANGED waived
  /\ UNCHANGED <<score, consumed, timer, top10, announced, stopping>>

ReadRedis(g) ==
  /\ firing[g].at = "redis"
  /\ Read10(g, score, "renew")
  /\ UNCHANGED <<score, consumed, timer, top10, announced, stopping>>

\* The announcement goes out without entries.
ReadFails(g) ==
  /\ firing[g].at = "redis"
  /\ firing' = [firing EXCEPT ![g] = NotFiring]
  /\ waived' = consumed
  /\ UNCHANGED <<score, consumed, timer, top10, announced, stopping>>

RenewTop10(g) ==
  /\ firing[g].at = "renew"
  /\ top10' = [score |-> firing[g].score, fresh |-> TRUE]
  /\ firing' = [firing EXCEPT ![g].at = "announce"]
  /\ UNCHANGED <<score, consumed, timer, announced, waived, stopping>>

AnnounceTop10(g) ==
  /\ firing[g].at = "announce"
  /\ announced' = firing[g].score
  /\ waived' = IF firing[g].score < announced /\ waived < announced THEN announced ELSE waived
  /\ firing' = [firing EXCEPT ![g] = NotFiring]
  /\ UNCHANGED <<score, consumed, timer, top10, stopping>>

ExpireTop10 ==
  /\ top10.fresh
  /\ top10' = [top10 EXCEPT !.fresh = FALSE]
  /\ UNCHANGED <<score, consumed, timer, firing, announced, waived, stopping>>

\* What is being broadcast goes on.
StopAllTimers ==
  /\ ~stopping
  /\ stopping' = TRUE /\ timer' = FALSE
  /\ UNCHANGED <<score, consumed, firing, top10, announced, waived>>

AnnounceNext ==
  \/ ScoreChanges \/ ScheduleLeaderboardBroadcast \/ ExpireTop10 \/ StopAllTimers
  \/ \E g \in 1 .. MaxFirings :
       \/ FireLeaderboardBroadcast(g) \/ GetTop10Cached(g) \/ ReadRedis(g) \/ ReadFails(g)
       \/ RenewTop10(g) \/ AnnounceTop10(g)

\* Every change this pod has consumed is in the last announcement, or one that is
\* still to come holds it or will read the scores after it; only old scores, a
\* failed read or an older announcement that came later stand in its way.
ChangesAnnounced ==
  \/ stopping \/ timer
  \/ announced >= consumed \/ waived >= consumed
  \/ \E g \in 1 .. MaxFirings :
       \/ firing[g].at \in {"cache", "redis"}
       \/ firing[g].at \in {"renew", "announce"} /\ firing[g].score >= consumed

\* What the live views promise.
LiveFeedSafe == FeedHasNoGap /\ ChangesAnnounced
=============================================================================
