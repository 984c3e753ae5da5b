------------------------------- MODULE Gateway -------------------------------
(***************************************************************************)
(* The trading gateway: the WebSocket hub of one pod, the registry in      *)
(* Redis that says which pod serves a user in a contest, and the queue of  *)
(* ticks of one client.                                                    *)
(*                                                                         *)
(* hub: the connections of one user to one pod.  One goroutine owns the    *)
(* three maps of the hub and takes registrations and departures from two   *)
(* channels, in no order between the two.  A connection is                 *)
(* "new" -> "open" -> "closed" (done) -> "gone" (its reader has ended).    *)
(*                                                                         *)
(* affinity: the connections of one user to one contest, over several      *)
(* pods.  The key in Redis holds the name of a pod and nothing about the   *)
(* connection.                                                             *)
(*                                                                         *)
(* ticks: a client has one slot for ticks, market statuses and the         *)
(* welcome, and a newer message takes the place of an older one.           *)
(***************************************************************************)
EXTENDS Integers, Sequences, SequencesExt

CONSTANTS MaxConns,       \* connections a behaviour may open
          MaxPerUser,     \* maxConnectionsPerUser
          MaxPolls,       \* bound on the records polled for the user
          CriticalQueue,  \* capacity of criticalSend
          Pods,           \* the pods of the gateway
          MaxSignals,     \* bound on the disconnect signals in flight
          MaxBatches,     \* bound on the tick batches and other market messages
          PoolQueue,      \* capacity of the jobs channel
          PoolWorkers     \* the workers of the broadcast pool

Conns == 1 .. MaxConns
HubContests == {1, 2}

VARIABLES
  socket,           \* per connection: its phase and its contest
  registerCh, unregisterCh,  \* the channels of the hub
  clients,        \* h.clients
  contestClients, \* h.contestClients
  userClients,    \* h.userClients of the user, oldest first
  hubStep,        \* where the hub's goroutine is, and with which connection
  polls,          \* how many records this pod has polled
  sending,        \* per topic: the record being sent and who has not got it yet
  crowd,          \* the critical messages that are with the pool
  critical,       \* criticalSend of each connection
  heard,          \* what each connection has written to the user
  owed            \* ghost: per connection and topic, the records it is to hear of

mapVars == <<clients, contestClients, userClients, hubStep>>
deliveryVars == <<polls, sending, crowd, critical, heard, owed>>
hubVars == <<socket, registerCh, unregisterCh, clients, contestClients, userClients, hubStep,
             polls, sending, crowd, critical, heard, owed>>

VARIABLES
  link,      \* per connection: its pod, how far it is in Register and Unregister, the
             \* pod it takes over from, and whether the hub has taken it in and closed it
  owner,     \* the key of the user and the contest in Redis: a set of at most one pod
  local,     \* the pods whose registry has the connection in its local map
  signals,   \* the disconnect messages published and not handled, by pod
  lastSet    \* the connection that last wrote the key, and the pods that have
             \* given up a connection since, or "expired"

affinityVars == <<link, owner, local, signals, lastSet>>

VARIABLES
  messages,  \* how many messages have been begun
  sender,    \* per goroutine that sends to the client: the message and its step
  pooled,    \* a message has gone through the pool: there were over ten clients
  jobs,      \* the jobs channel
  slot,      \* the client's send channel
  shown,     \* the messages written to the client, newest last
  superseded \* ghost: messages that were done with when another was begun

tickVars == <<messages, sender, pooled, jobs, slot, shown, superseded>>
gatewayVars == <<hubVars, affinityVars, tickVars>>

OwedNothing == [t \in {"user", "contest", "crowd"} |-> <<>>]
HubIdle == [at |-> "select", conn |-> 0]

HubInit ==
  /\ socket = [c \in Conns |-> [phase |-> "new", contest |-> 1]]
  /\ registerCh = <<>> /\ unregisterCh = <<>>
  /\ clients = {} /\ userClients = <<>>
  /\ contestClients = [k \in HubContests |-> {}]
  /\ hubStep = HubIdle
  /\ polls = 0
  /\ sending = [t \in {"user", "contest"} |-> [msg |-> 0, to |-> <<>>]]
  /\ crowd = {}
  /\ critical = [c \in Conns |-> <<>>]
  /\ heard = [c \in Conns |-> <<>>]
  /\ owed = [c \in Conns |-> OwedNothing]

LinkOf(p, at) == [pod |-> p, at |-> at, old |-> p, taken |-> FALSE, closed |-> FALSE]

AffinityInit ==
  /\ link = [c \in Conns |-> LinkOf(CHOOSE p \in Pods : TRUE, "new")]
  /\ owner = {} /\ local = {}
  /\ signals = [p \in Pods |-> 0]
  /\ lastSet = [conn |-> 0, since |-> {}]

\* The hub sends ticks, and whoever calls SendMessage the status of the markets or
\* a welcome.
Sources == {"ticks", "status"}
NoMessage == [n |-> 0, from |-> "ticks"]
SenderIdle == [at |-> "idle", msg |-> NoMessage]

TickInit ==
  /\ messages = 0 /\ pooled = FALSE
  /\ sender = [g \in Sources \cup PoolWorkers |-> SenderIdle]
  /\ jobs = <<>>
  /\ slot = NoMessage /\ shown = <<>>
  /\ superseded = {}

(***************************************************************************)
(* The hub.                                                                *)
(***************************************************************************)

\* handleWebSocket: a new client is handed to the hub.
Connect(c, k) ==
  /\ socket[c].phase = "new"
  /\ \A d \in Conns : d < c => socket[d].phase # "new"
  /\ socket' = [socket EXCEPT ![c] = [phase |-> "open", contest |-> k]]
  /\ registerCh' = Append(registerCh, c)
  /\ UNCHANGED <<unregisterCh, mapVars, deliveryVars>>

Close(cs) == [c \in Conns |-> IF c \in cs /\ socket[c].phase = "open"
                              THEN [socket[c] EXCEPT !.phase = "closed"] ELSE socket[c]]

\* addClient: the hub's goroutine takes the locks one after the other, and a
\* user's connections only while nothing is being sent to them.
TakeRegister ==
  LET c == Head(registerCh) IN
  /\ hubStep.at = "select" /\ registerCh # <<>>
  /\ registerCh' = Tail(registerCh)
  /\ clients' = clients \cup {c}
  /\ contestClients' = [contestClients EXCEPT ![socket[c].contest] = @ \cup {c}]
  /\ hubStep' = [at |-> "join", conn |-> c]
  /\ UNCHANGED <<socket, unregisterCh, userClients, deliveryVars>>

\* Over the limit the oldest connection makes room.
JoinUser ==
  /\ hubStep.at = "join" /\ sending["user"].to = <<>>
  /\ IF Len(userClients) >= MaxPerUser
     THEN /\ userClients' = Append(Tail(userClients), hubStep.conn)
          /\ hubStep' = [at |-> "evict", conn |-> Head(userClients)]
     ELSE /\ userClients' = Append(userClients, hubStep.conn)
          /\ hubStep' = HubIdle
  /\ UNCHANGED <<socket, registerCh, unregisterCh, clients, contestClients, deliveryVars>>

DropClientKeepingContest(c) ==
  /\ clients' = clients \ {c}
  /\ UNCHANGED contestClients

DropClient(c) ==
  /\ clients' = clients \ {c}
  /\ contestClients' = [k \in HubContests |-> contestClients[k] \ {c}]

\* It leaves the other two maps and is closed.
EvictClient ==
  /\ hubStep.at = "evict"
  /\ DropClient(hubStep.conn)
  /\ socket' = Close({hubStep.conn})
  /\ hubStep' = HubIdle
  /\ UNCHANGED <<registerCh, unregisterCh, userClients, deliveryVars>>

\* removeClient.  A client the hub does not know is left alone: when its departure
\* is taken before its registration, the dead client stays in the maps.
TakeUnregister ==
  LET c == Head(unregisterCh) IN
  /\ hubStep.at = "select" /\ unregisterCh # <<>>
  /\ unregisterCh' = Tail(unregisterCh)
  /\ IF c \in clients
     THEN DropClient(c) /\ hubStep' = [at |-> "leave", conn |-> c]
     ELSE UNCHANGED <<clients, contestClients, hubStep>>
  /\ UNCHANGED <<socket, registerCh, userClients, deliveryVars>>

LeaveUser ==
  /\ hubStep.at = "leave" /\ sending["user"].to = <<>>
  /\ userClients' = SelectSeq(userClients, LAMBDA d : d # hubStep.conn)
  /\ hubStep' = HubIdle
  /\ UNCHANGED <<socket, registerCh, unregisterCh, clients, contestClients, deliveryVars>>

\* readPump ends when the peer leaves or the connection was closed; what was queued
\* for it goes with it.
ReadPumpEnds(c) ==
  /\ socket[c].phase \in {"open", "closed"}
  /\ socket' = [socket EXCEPT ![c].phase = "gone"]
  /\ unregisterCh' = Append(unregisterCh, c)
  /\ critical' = [critical EXCEPT ![c] = <<>>]
  /\ heard' = [heard EXCEPT ![c] = <<>>]
  /\ owed' = [owed EXCEPT ![c] = OwedNothing]
  /\ UNCHANGED <<registerCh, mapVars, polls, sending, crowd>>

\* A signal of another pod closes every connection of the user in the contest.
DisconnectUser(k) ==
  /\ \E c \in Range(userClients) : socket[c].contest = k /\ socket[c].phase = "open"
  /\ socket' = Close({c \in Range(userClients) : socket[c].contest = k})
  /\ UNCHANGED <<registerCh, unregisterCh, mapVars, deliveryVars>>

\* An open connection that the hub has taken in and is not about to evict.
TakenIn(c) ==
  /\ socket[c].phase = "open" /\ c \notin Range(registerCh)
  /\ hubStep.at \in {"join", "evict"} => hubStep.conn # c

\* A record of the topic t is polled, and meant for the connections cs that the
\* hub lists now; it is owed to them, and to all that have been taken in.
Poll(t, cs, for) ==
  /\ polls < MaxPolls
  /\ polls' = polls + 1
  /\ owed' = [c \in Conns |->
       IF socket[c].phase = "open" /\ (c \in cs \/ (TakenIn(c) /\ for[c] /\ hubStep.at # "stopped"))
       THEN [owed[c] EXCEPT ![t] = Append(@, polls')] ELSE owed[c]]
  /\ UNCHANGED <<socket, registerCh, unregisterCh, mapVars, critical, heard>>

\* SendToUser holds the lock of the users' connections until it has told them all.
SendToUser ==
  /\ sending["user"].to = <<>>
  /\ Poll("user", Range(userClients), [c \in Conns |-> TRUE])
  /\ sending' = [sending EXCEPT !["user"] = [msg |-> polls', to |-> userClients]]
  /\ UNCHANGED crowd

\* SendToContest works on a copy of the contest's connections, in any order; over
\* ten of them are told by the workers of the pool, or by goroutines of their own
\* when its queue is full.
SendToContest(k) ==
  LET cs == contestClients[k]
      for == [c \in Conns |-> socket[c].contest = k]
  IN /\ sending["contest"].to = <<>>
     /\ \/ /\ Poll("contest", cs, for)
           /\ \E order \in SetToSeqs(cs) :
                sending' = [sending EXCEPT !["contest"] = [msg |-> polls', to |-> order]]
           /\ UNCHANGED crowd
        \/ /\ Poll("crowd", cs, for)
           /\ crowd' = crowd \cup {<<c, polls'>> : c \in cs}
           /\ UNCHANGED sending

\* One goroutine per topic: those of a user's topics do the same, and so do the
\* three that tell a contest.  The offsets are committed after the records were
\* sent, so a record may be polled twice, or by another pod of the group.
ConsumeFills == SendToUser
ConsumePositions == SendToUser
ConsumeOrderAcks == SendToUser
ConsumeOrderCancelled == SendToUser
ConsumePnLDeltas == SendToUser
ConsumeNotifications == SendToUser
ConsumeContestEvents == \E k \in HubContests : SendToContest(k)
ReceiveParticipants == \E k \in HubContests : SendToContest(k)

\* A closed connection is passed over; a queue that stays full for five seconds
\* closes its client.
SendCriticalMessage(c, m) ==
  \/ socket[c].phase # "open" /\ UNCHANGED <<socket, critical>>
  \/ /\ socket[c].phase = "open" /\ Len(critical[c]) < CriticalQueue
     /\ critical' = [critical EXCEPT ![c] = Append(@, m)]
     /\ UNCHANGED socket
  \/ /\ socket[c].phase = "open" /\ Len(critical[c]) >= CriticalQueue
     /\ socket' = Close({c})
     /\ UNCHANGED critical

SendNext(t) ==
  /\ sending[t].to # <<>>
  /\ SendCriticalMessage(Head(sending[t].to), <<t, sending[t].msg>>)
  /\ sending' = [sending EXCEPT ![t].to = Tail(@)]
  /\ UNCHANGED <<registerCh, unregisterCh, mapVars, polls, crowd, owed, heard>>

SendCrowd(c, n) ==
  /\ <<c, n>> \in crowd
  /\ SendCriticalMessage(c, <<"crowd", n>>)
  /\ crowd' = crowd \ {<<c, n>>}
  /\ UNCHANGED <<registerCh, unregisterCh, mapVars, polls, sending, owed, heard>>

\* writePump: critical messages before anything else; an error ends the client.
WritePump(c) ==
  /\ socket[c].phase = "open" /\ critical[c] # <<>>
  /\ critical' = [critical EXCEPT ![c] = Tail(@)]
  /\ \/ heard' = [heard EXCEPT ![c] = Append(@, Head(critical[c]))] /\ UNCHANGED socket
     \/ socket' = Close({c}) /\ UNCHANGED heard
  /\ UNCHANGED <<registerCh, unregisterCh, mapVars, polls, sending, crowd, owed>>

StopHub ==
  /\ hubStep.at = "select"
  /\ hubStep' = [at |-> "stopped", conn |-> 0]
  /\ socket' = Close(clients)
  /\ clients' = {} /\ userClients' = <<>>
  /\ contestClients' = [k \in HubContests |-> {}]
  /\ crowd' = {} \* the pool is stopped with the hub
  /\ UNCHANGED <<registerCh, unregisterCh, polls, sending, owed, critical, heard>>

HubNext ==
  \/ \E c \in Conns, k \in HubContests : Connect(c, k)
  \/ TakeRegister \/ JoinUser \/ EvictClient
  \/ TakeUnregister \/ LeaveUser
  \/ \E c \in Conns : ReadPumpEnds(c)
  \/ \E k \in HubContests : DisconnectUser(k)
  \/ ConsumeFills \/ ConsumePositions \/ ConsumeOrderAcks \/ ConsumeOrderCancelled
  \/ ConsumePnLDeltas \/ ConsumeNotifications
  \/ ConsumeContestEvents \/ ReceiveParticipants
  \/ SendNext("user") \/ SendNext("contest")
  \/ \E c \in Conns, n \in 1 .. MaxPolls : SendCrowd(c, n)
  \/ \E c \in Conns : WritePump(c)
  \/ StopHub

\* What a connection was sent of a topic and has not heard yet, as numbers.
Received(c, t) ==
  [i \in DOMAIN SelectSeq(heard[c] \o critical[c], LAMBDA m : m[1] = t) |->
     SelectSeq(heard[c] \o critical[c], LAMBDA m : m[1] = t)[i][2]]
StillSending(c, t) == IF c \in Range(sending[t].to) THEN <<sending[t].msg>> ELSE <<>>

\* Between two steps of the hub its three maps name the same connections, never
\* more of a user than the limit.  And whatever the hub does while records are
\* being sent, a connection the user still has open since it was taken in has been
\* told, has queued or is about to be sent every record of this pod for its user
\* or its contest: once, and those of one topic in the order they came, unless
\* the contest is so large that the pool tells it (hub.go, broadcast_pool.go).
HubKeepsFaith ==
  /\ hubStep.at \in {"select", "stopped"} =>
       /\ clients = Range(userClients) /\ IsInjective(userClients)
       /\ \A k \in HubContests : contestClients[k] = {c \in clients : socket[c].contest = k}
       /\ Len(userClients) <= MaxPerUser
  /\ \A c \in Conns : TakenIn(c) /\ hubStep.at # "stopped" =>
       /\ c \in clients
       /\ \A t \in {"user", "contest"} : Received(c, t) \o StillSending(c, t) = owed[c][t]
       /\ IsInjective(Received(c, "crowd"))
       /\ Range(owed[c]["crowd"]) = Range(Received(c, "crowd")) \cup {j[2] : j \in {i \in crowd : i[1] = c}}

(***************************************************************************)
(* The registry.                                                           *)
(***************************************************************************)

Serving(p) == {c \in Conns : link[c].pod = p /\ link[c].at \notin {"new", "gone"}}

OpenLink(c, p) ==
  /\ link[c].at = "new"
  /\ \A d \in Conns : d < c => link[d].at # "new"
  /\ link' = [link EXCEPT ![c] = LinkOf(p, "registering")]
  /\ UNCHANGED <<owner, local, signals, lastSet>>

\* The hub's goroutine gets to the registration in its own time.
HubTakesIn(c) ==
  /\ link[c].at \notin {"new", "gone"} /\ ~link[c].taken
  /\ link' = [link EXCEPT ![c].taken = TRUE]
  /\ UNCHANGED <<owner, local, signals, lastSet>>

WriteKey(c) ==
  /\ owner' = {link[c].pod}
  /\ lastSet' = [conn |-> c, since |-> {}]

\* registerScript sets the key unless it names another pod.
RegisterScript(c) ==
  /\ link[c].at = "registering"
  /\ IF owner \subseteq {link[c].pod}
     THEN WriteKey(c) /\ link' = [link EXCEPT ![c].at = "set"]
     ELSE /\ link' = [link EXCEPT ![c].at = "conflict", ![c].old = CHOOSE p \in owner : TRUE]
          /\ UNCHANGED <<owner, lastSet>>
  /\ UNCHANGED <<local, signals>>

\* The old pod is heard, if Redis takes the message, and the key is overwritten.
PublishDisconnect(c) ==
  /\ link[c].at = "conflict"
  /\ \/ signals[link[c].old] < MaxSignals
        /\ signals' = [signals EXCEPT ![link[c].old] = @ + 1]
     \/ UNCHANGED signals
  /\ link' = [link EXCEPT ![c].at = "signalled"]
  /\ UNCHANGED <<owner, local, lastSet>>

ForceSet(c) ==
  /\ link[c].at = "signalled"
  /\ WriteKey(c)
  /\ link' = [link EXCEPT ![c].at = "set"]
  /\ UNCHANGED <<local, signals>>

\* A call to Redis fails, whether or not it was carried out: the connection stays
\* and is not in the local map.
RegisterFails(c) ==
  /\ link[c].at \in {"registering", "signalled"}
  /\ \/ UNCHANGED <<owner, lastSet>>
     \/ (link[c].at = "signalled" \/ owner \subseteq {link[c].pod}) /\ WriteKey(c)
  /\ link' = [link EXCEPT ![c].at = "live"]
  /\ UNCHANGED <<local, signals>>

AddLocal(c) ==
  /\ link[c].at = "set"
  /\ local' = local \cup {link[c].pod}
  /\ link' = [link EXCEPT ![c].at = "live"]
  /\ UNCHANGED <<owner, signals, lastSet>>

CloseLinks(cs) == [c \in Conns |-> IF c \in cs THEN [link[c] EXCEPT !.closed = TRUE] ELSE link[c]]

ClientLeaves(c) ==
  /\ link[c].at \notin {"new", "gone"} /\ ~link[c].closed
  /\ link' = CloseLinks({c})
  /\ UNCHANGED <<owner, local, signals, lastSet>>

\* A signal names the user and the contest, so a connection that is newer than
\* the signal is closed as well; one the hub has not taken in yet is missed.
HandleSignal(p) ==
  /\ signals[p] > 0
  /\ signals' = [signals EXCEPT ![p] = @ - 1]
  /\ link' = CloseLinks({c \in Serving(p) : link[c].taken})
  /\ UNCHANGED <<owner, local, lastSet>>

LoseSignal(p) ==
  /\ signals[p] > 0
  /\ signals' = [signals EXCEPT ![p] = @ - 1]
  /\ UNCHANGED <<link, owner, local, lastSet>>

\* unregisterScript deletes the key only while it names this pod.
DeleteOwnKey(p) == owner' = owner \ {p}

\* The cleanup of a closed connection.  It deletes the key even when a newer
\* connection to the same pod has written it; a failure is only logged.
UnregisterScript(c) ==
  /\ link[c].at = "live" /\ link[c].closed
  /\ \/ /\ DeleteOwnKey(link[c].pod)
        /\ lastSet' = [lastSet EXCEPT !.since = @ \cup {link[c].pod}]
     \/ UNCHANGED <<owner, lastSet>>
  /\ link' = [link EXCEPT ![c].at = "dropping"]
  /\ UNCHANGED <<local, signals>>

DropLocal(c) ==
  /\ link[c].at = "dropping"
  /\ local' = local \ {link[c].pod}
  /\ link' = [link EXCEPT ![c].at = "gone"]
  /\ UNCHANGED <<owner, signals, lastSet>>

\* The heartbeat extends the keys of the local map: a key runs out when its pod has
\* forgotten it, or when the heartbeats fail for as long as it lives.
ExpireKey ==
  /\ owner # {}
  /\ owner' = {}
  /\ lastSet' = [lastSet EXCEPT !.since = @ \cup {"expired"}]
  /\ UNCHANGED <<link, local, signals>>

\* A pod that ends takes its connections along; only an orderly shutdown
\* cleans its keys.
EndPod(p, orderly) ==
  /\ Serving(p) # {}
  /\ link' = [c \in Conns |-> IF c \in Serving(p)
                              THEN [link[c] EXCEPT !.at = "gone", !.closed = TRUE] ELSE link[c]]
  /\ local' = local \ {p}
  /\ signals' = [signals EXCEPT ![p] = 0]
  /\ IF orderly /\ p \in local
     THEN DeleteOwnKey(p) /\ lastSet' = [lastSet EXCEPT !.since = @ \cup {p}]
     ELSE UNCHANGED <<owner, lastSet>>

AffinityNext ==
  \/ \E c \in Conns : \/ \E p \in Pods : OpenLink(c, p)
                      \/ HubTakesIn(c) \/ RegisterFails(c)
                      \/ RegisterScript(c) \/ PublishDisconnect(c) \/ ForceSet(c) \/ AddLocal(c)
                      \/ ClientLeaves(c) \/ UnregisterScript(c) \/ DropLocal(c)
  \/ \E p \in Pods : HandleSignal(p) \/ LoseSignal(p) \/ \E b \in BOOLEAN : EndPod(p, b)
  \/ ExpireKey

\* The key follows the connection that wrote it last: while that connection
\* is there, its pod has cleaned nothing up since and the key has not run out,
\* the key names its pod, whatever the pods it was taken from clean up late.
TakeoverHolds ==
  LET c == lastSet.conn
  IN c # 0 /\ ~link[c].closed /\ lastSet.since \cap {link[c].pod, "expired"} = {}
       => owner = {link[c].pod}

(***************************************************************************)
(* The market data of one client.                                          *)
(***************************************************************************)

InHand == {sender[g].msg.n : g \in DOMAIN sender} \cup {jobs[i].n : i \in DOMAIN jobs}

NextMessage(from) == [n |-> messages + 1, from |-> from]
Begun ==
  /\ messages < MaxBatches
  /\ messages' = messages + 1
  /\ superseded' = superseded \cup (1 .. messages \ InHand)

\* The hub's ticker and the other callers: one message to each client, by the
\* goroutine itself or, for over ten clients, as jobs of the pool, where a full
\* queue drops it.
Broadcast(from) ==
  /\ sender[from].at = "idle" /\ Begun
  /\ \/ sender' = [sender EXCEPT ![from] = [at |-> "send", msg |-> NextMessage(from)]]
        /\ UNCHANGED <<pooled, jobs>>
     \/ /\ jobs' = IF Len(jobs) < PoolQueue THEN Append(jobs, NextMessage(from)) ELSE jobs
        /\ pooled' = TRUE
        /\ UNCHANGED sender
  /\ UNCHANGED <<slot, shown>>

BroadcastTicks == Broadcast("ticks")
BroadcastMarketStatus == Broadcast("status")

TakeJob(w) ==
  /\ sender[w].at = "idle" /\ jobs # <<>>
  /\ sender' = [sender EXCEPT ![w] = [at |-> "send", msg |-> Head(jobs)]]
  /\ jobs' = Tail(jobs)
  /\ UNCHANGED <<messages, pooled, slot, shown, superseded>>

Enqueue(g) ==
  /\ slot = NoMessage
  /\ slot' = sender[g].msg
  /\ sender' = [sender EXCEPT ![g] = SenderIdle]

\* sendEnvelope: a full queue gives its message up for the new one, unless another
\* goroutine is faster: then the new one is given up.
SendEnvelope(g) ==
  /\ \/ sender[g].at = "send" /\ Enqueue(g)
     \/ /\ sender[g].at = "send" /\ slot # NoMessage
        /\ sender' = [sender EXCEPT ![g].at = "drain"]
        /\ UNCHANGED slot
     \/ /\ sender[g].at = "drain"
        /\ slot' = NoMessage
        /\ sender' = [sender EXCEPT ![g].at = "retry"]
     \/ sender[g].at = "retry" /\ Enqueue(g)
     \/ /\ sender[g].at = "retry" /\ slot # NoMessage
        /\ sender' = [sender EXCEPT ![g] = SenderIdle]
        /\ UNCHANGED slot
  /\ UNCHANGED <<messages, pooled, jobs, shown, superseded>>

WriteTick ==
  /\ slot # NoMessage
  /\ shown' = Append(shown, slot)
  /\ slot' = NoMessage
  /\ UNCHANGED <<messages, sender, pooled, jobs, superseded>>

TickNext ==
  \/ BroadcastTicks \/ BroadcastMarketStatus
  \/ \E w \in PoolWorkers : TakeJob(w)
  \/ \E g \in DOMAIN sender : SendEnvelope(g)
  \/ WriteTick

\* A slow client loses messages, and none is shown twice.  As long as none has gone
\* through the pool, the client never goes back to older ticks, and once nothing is
\* being sent, what it has last, queued or shown, is no message that was done with
\* before another was begun: the newest is lost only to one sent at the same time
\* (client.go, broadcast_pool.go).
NewestTickKept ==
  /\ IsInjective(shown)
  /\ ~pooled =>
       /\ \A i, j \in DOMAIN shown :
            i < j /\ shown[i].from = shown[j].from => shown[i].n < shown[j].n
       /\ messages # 0 /\ (\A g \in DOMAIN sender : sender[g].at = "idle") =>
            LET last == IF slot # NoMessage THEN slot ELSE Last(shown)
            IN last.n \notin superseded

\* What the gateway owes its clients, over its three parts.
GatewaySafe == HubKeepsFaith /\ TakeoverHolds /\ NewestTickKept
=============================================================================
