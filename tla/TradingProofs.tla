--------------------------- MODULE TradingProofs ----------------------------
(***************************************************************************)
(* Proofs about the trading side: what the gateway promises of requests    *)
(* and tickets, for any number of users, contests, handlers, identities    *)
(* and tickets, and the engine's promises under the specification that     *)
(* runs the parts.                                                         *)
(***************************************************************************)
EXTENDS MCTrading, EngineProofs

-----------------------------------------------------------------------------
(* The gateway's requests. *)

RequestKinds == {"order", "socket", "cancel", "close", "tpsl"}
RequestSteps == {"idle", "running", "participant", "claim", "claimed", "publish"}
Rows == [user : Traders \cup {NoOne}, contest : TradeContests \cup {0},
         status : {"none", "pending", "open", "filled", "over"}]
Databases == [row : [OrderIds -> Rows], running : SUBSET TradeContests,
              joined : SUBSET (Traders \X TradeContests)]

\* The record of an order.
OrderRecord(i, u, c) == [kind |-> "order", id |-> i, user |-> u, contest |-> c]

Requests == [kind : RequestKinds, user : Traders, contest : TradeContests, id : OrderIds,
             at : RequestSteps \ {"idle"}]

RequestsTyped ==
  /\ claim \in [OrderIds -> {Unclaimed} \cup
                            {Row(u, c, "claimed") : u \in Traders, c \in TradeContests}]
  /\ primary \in Databases /\ replica \in Databases
  /\ request \in [Handlers -> {NoRequest} \cup Requests]
  /\ topics \subseteq [kind : RequestKinds \ {"socket"}, id : OrderIds, user : Traders,
                       contest : TradeContests]

\* A row, in the primary or in a replica that lags behind it, comes from an
\* order that was published, and a participant the replica shows is one.
RowsOrdered ==
  /\ replica.joined \subseteq primary.joined
  /\ \A d \in {primary, replica} : \A i \in OrderIds :
       d.row[i].status # "none" => OrderRecord(i, d.row[i].user, d.row[i].contest) \in topics

\* Where an order is claimed its user takes part in the contest; where it is
\* published the claim is its own.  A request about an order follows the
\* order.
RequestsChecked ==
  \A h \in Handlers :
    LET r == request[h]
    IN IF r.kind \in {"order", "socket"}
       THEN /\ (r.at \in {"claim", "claimed", "publish"} \/ r.kind = "socket")
                 => <<r.user, r.contest>> \in primary.joined
            /\ r.at = "publish" => claim[r.id] = Row(r.user, r.contest, "claimed")
       ELSE r # NoRequest => OrderRecord(r.id, r.user, r.contest) \in topics

\* The owner of an identity is the user and contest of all its records.
TopicsClaimed ==
  \A r \in topics :
    /\ claim[r.id] = Row(r.user, r.contest, "claimed")
    /\ <<r.user, r.contest>> \in primary.joined
    /\ OrderRecord(r.id, r.user, r.contest) \in topics

RequestsInv == RequestsTyped /\ RowsOrdered /\ RequestsChecked /\ TopicsClaimed

RequestsSpec == RequestsInit /\ [][RequestsNext]_requestVars

-----------------------------------------------------------------------------
(* Requests. *)

\* At first there is no claim, no row and no record.
LEMMA RequestsStart == RequestsInit => RequestsInv
BY DEF RequestsInit, RequestsInv, RequestsTyped, RowsOrdered, RequestsChecked, TopicsClaimed,
       Rows, Databases, Unclaimed, Row, NoRequest

\* What a row of any copy says of its order is typed.
LEMMA CopiedRow ==
  ASSUME RequestsTyped, NEW copy \in ReadCopies, NEW i \in OrderIds, copy.row[i].user \in Traders,
         RowsOrdered, copy.row[i].status # "none"
  PROVE  /\ copy.row[i].contest \in TradeContests
         /\ OrderRecord(i, copy.row[i].user, copy.row[i].contest) \in topics
<1>1. OrderRecord(i, copy.row[i].user, copy.row[i].contest) \in topics
  BY DEF RowsOrdered, ReadCopies
<1> QED BY <1>1 DEF RequestsTyped, OrderRecord

\* One handler's request may begin, go on or end, while the tables stay, if what
\* it becomes is typed and checked.
LEMMA OneRequest ==
  ASSUME RequestsInv, NEW h \in Handlers, NEW g \in {NoRequest} \cup Requests,
         request' = [request EXCEPT ![h] = g],
         UNCHANGED <<claim, primary, replica, topics>>,
         IF g.kind \in {"order", "socket"}
         THEN /\ (g.at \in {"claim", "claimed", "publish"} \/ g.kind = "socket")
                   => <<g.user, g.contest>> \in primary.joined
              /\ g.at = "publish" => claim[g.id] = Row(g.user, g.contest, "claimed")
         ELSE g # NoRequest => OrderRecord(g.id, g.user, g.contest) \in topics
  PROVE  RequestsInv'
<1>1. RequestsTyped'
  BY DEF RequestsInv, RequestsTyped
<1>2. RowsOrdered' /\ TopicsClaimed'
  BY DEF RequestsInv, RowsOrdered, TopicsClaimed
<1>3. RequestsChecked'
  <2> SUFFICES ASSUME NEW k \in Handlers
               PROVE  LET r == request'[k]
                      IN IF r.kind \in {"order", "socket"}
                         THEN /\ (r.at \in {"claim", "claimed", "publish"} \/ r.kind = "socket")
                                   => <<r.user, r.contest>> \in primary.joined
                              /\ r.at = "publish" => claim[r.id] = Row(r.user, r.contest, "claimed")
                         ELSE r # NoRequest => OrderRecord(r.id, r.user, r.contest) \in topics
    BY DEF RequestsChecked
  <2>1. request'[k] = IF k = h THEN g ELSE request[k]
    BY DEF RequestsInv, RequestsTyped
  <2> QED BY <2>1 DEF RequestsInv, RequestsChecked
<1> QED BY <1>1, <1>2, <1>3 DEF RequestsInv

\* A request ends.
LEMMA EndKeeps ==
  ASSUME RequestsInv, NEW h \in Handlers, End(h), UNCHANGED <<claim, primary, replica, topics>>
  PROVE  RequestsInv'
BY OneRequest DEF End, NoRequest

\* The requests a player begins.
LEMMA BeginKeeps ==
  ASSUME RequestsInv, NEW h \in Handlers, NEW u \in Traders, NEW i \in OrderIds,
         \/ \E c \in TradeContests : HandlePlaceOrder(h, u, c, i) \/ HandleOrderRequest(h, u, c, i)
         \/ HandleCancelOrder(h, u, i) \/ HandleClosePosition(h, u, i)
         \/ HandleModifyTPSL(h, u, i)
  PROVE  RequestsInv'
<1>1. ASSUME NEW c \in TradeContests, NEW kind \in RequestKinds, Begin(h, kind, u, c, i),
             kind = "socket" => <<u, c>> \in primary.joined,
             kind \notin {"order", "socket"} => OrderRecord(i, u, c) \in topics
      PROVE  RequestsInv'
  <2> DEFINE g == [kind |-> kind, user |-> u, contest |-> c, id |-> i, at |-> "running"]
  <2>1. g \in Requests
    BY DEF Requests, RequestSteps
  <2>2. /\ request' = [request EXCEPT ![h] = g]
        /\ UNCHANGED <<claim, primary, replica, topics>>
    BY <1>1 DEF Begin, databaseVars
  <2>3. g.kind = kind /\ g.user = u /\ g.contest = c /\ g.id = i /\ g.at = "running"
    OBVIOUS
  <2> HIDE DEF g
  <2> QED BY <1>1, <2>1, <2>2, <2>3, OneRequest
<1>2. ASSUME NEW c \in TradeContests, HandlePlaceOrder(h, u, c, i) PROVE RequestsInv'
  BY <1>1, <1>2 DEF HandlePlaceOrder, RequestKinds
<1>3. ASSUME NEW c \in TradeContests, HandleOrderRequest(h, u, c, i) PROVE RequestsInv'
  <2>1. <<u, c>> \in primary.joined
    BY <1>3 DEF HandleOrderRequest, ReadCopies, RequestsInv, RowsOrdered
  <2> QED BY <1>1, <1>3, <2>1 DEF HandleOrderRequest, RequestKinds
<1>4. ASSUME NEW kind \in {"cancel", "close", "tpsl"}, NEW statuses \in {{"pending"}, {"filled"}},
             Ask(h, kind, u, i, statuses)
      PROVE  RequestsInv'
  <2>1. PICK copy \in ReadCopies :
          /\ copy.row[i].user = u /\ copy.row[i].status # "none"
          /\ Begin(h, kind, u, copy.row[i].contest, i)
    BY <1>4 DEF Ask
  <2>2. /\ copy.row[i].contest \in TradeContests
        /\ OrderRecord(i, u, copy.row[i].contest) \in topics
    BY <2>1, CopiedRow DEF RequestsInv
  <2> QED BY <1>1, <2>1, <2>2 DEF RequestKinds
<1> QED
  BY <1>2, <1>3, <1>4 DEF HandleCancelOrder, HandleClosePosition, HandleModifyTPSL

\* A check lets the request go on to a step for which it is a reason, or ends it.
LEMMA CheckedKeeps ==
  ASSUME RequestsInv, NEW h \in Handlers, request[h] # NoRequest, NEW holds \in BOOLEAN,
         NEW where \in RequestSteps \ {"idle"}, Checked(h, holds, where),
         holds /\ request[h].kind \in {"order", "socket"} =>
            /\ where \in {"claim", "claimed", "publish"}
                 => <<request[h].user, request[h].contest>> \in primary.joined
            /\ where = "publish" => claim[request[h].id]
                                      = Row(request[h].user, request[h].contest, "claimed")
  PROVE  RequestsInv'
<1>1. CASE holds
  <2> DEFINE g == [request[h] EXCEPT !.at = where]
  <2>1. request[h] \in Requests
    BY DEF RequestsInv, RequestsTyped
  <2>2. g \in Requests /\ g.kind = request[h].kind /\ g.user = request[h].user
        /\ g.contest = request[h].contest /\ g.id = request[h].id /\ g.at = where
    BY <2>1 DEF Requests
  <2>3. request' = [request EXCEPT ![h] = g] /\ UNCHANGED <<claim, primary, replica, topics>>
    BY <1>1 DEF Checked, GoOn, databaseVars
  <2>4. IF request[h].kind \in {"order", "socket"}
        THEN request[h].kind = "socket" => <<request[h].user, request[h].contest>> \in primary.joined
        ELSE OrderRecord(request[h].id, request[h].user, request[h].contest) \in topics
    BY DEF RequestsInv, RequestsChecked
  <2> HIDE DEF g
  <2> QED BY <1>1, <2>2, <2>3, <2>4, OneRequest
<1>2. CASE ~holds
  BY <1>2, EndKeeps DEF Checked, databaseVars
<1> QED BY <1>1, <1>2

\* The checks of a handler.
LEMMA ChecksKeep ==
  ASSUME RequestsInv, NEW h \in Handlers,
         ValidateContestRunning(h) \/ CheckParticipation(h) \/ ReadClaim(h)
  PROVE  RequestsInv'
<1>0. /\ request[h] \in {NoRequest} \cup Requests /\ NoRequest.at = "idle"
      /\ request[h] # NoRequest => request[h].kind \in RequestKinds
  BY DEF RequestsInv, RequestsTyped, NoRequest, Requests
<1>1. CASE ValidateContestRunning(h)
  <2>1. request[h] # NoRequest
    BY <1>0, <1>1 DEF ValidateContestRunning
  <2>2. PICK holds \in BOOLEAN :
          Checked(h, holds, CASE request[h].kind = "order" -> "participant"
                              [] request[h].kind = "socket" -> "claim"
                              [] OTHER -> "publish")
    BY <1>1 DEF ValidateContestRunning
  <2>3. CASE request[h].kind = "order"
    <3>1. Checked(h, holds, "participant")
      BY <2>2, <2>3
    <3> QED BY <2>1, <3>1, CheckedKeeps DEF RequestSteps
  <2>4. CASE request[h].kind = "socket"
    <3>1. Checked(h, holds, "claim")
      BY <2>2, <2>4
    <3>2. <<request[h].user, request[h].contest>> \in primary.joined
      BY <2>4 DEF RequestsInv, RequestsChecked
    <3> QED BY <2>1, <3>1, <3>2, CheckedKeeps DEF RequestSteps
  <2>5. CASE request[h].kind \notin {"order", "socket"}
    <3>1. Checked(h, holds, "publish")
      BY <2>2, <2>5
    <3> QED BY <2>1, <2>5, <3>1, CheckedKeeps DEF RequestSteps
  <2> QED BY <2>3, <2>4, <2>5
<1>2. CASE CheckParticipation(h)
  <2>1. request[h] # NoRequest
    BY <1>0, <1>2 DEF CheckParticipation
  <2>2. PICK copy \in ReadCopies :
          Checked(h, <<request[h].user, request[h].contest>> \in copy.joined, "claim")
    BY <1>2 DEF CheckParticipation
  <2>3. CASE <<request[h].user, request[h].contest>> \in copy.joined
    <3>1. Checked(h, TRUE, "claim")
      BY <2>2, <2>3 DEF Checked
    <3>2. <<request[h].user, request[h].contest>> \in primary.joined
      BY <2>3 DEF ReadCopies, RequestsInv, RowsOrdered
    <3> QED BY <2>1, <3>1, <3>2, CheckedKeeps DEF RequestSteps
  <2>4. CASE <<request[h].user, request[h].contest>> \notin copy.joined
    BY <2>2, <2>4, EndKeeps DEF Checked, databaseVars
  <2> QED BY <2>3, <2>4
<1>3. CASE ReadClaim(h)
  <2>1. request[h] # NoRequest /\ request[h].at = "claimed"
    BY <1>0, <1>3 DEF ReadClaim
  <2>2. CASE OwnClaim(h)
    <3>1. Checked(h, TRUE, "publish")
      BY <1>3, <2>2 DEF ReadClaim, Checked
    <3>2. claim[request[h].id] = Row(request[h].user, request[h].contest, "claimed")
      BY <2>2 DEF OwnClaim
    <3>3. request[h].kind \in {"order", "socket"}
            => <<request[h].user, request[h].contest>> \in primary.joined
      BY <2>1 DEF RequestsInv, RequestsChecked
    <3> QED BY <2>1, <3>1, <3>2, <3>3, CheckedKeeps DEF RequestSteps
  <2>3. CASE ~OwnClaim(h)
    BY <1>3, <2>3, EndKeeps DEF ReadClaim, Checked, databaseVars
  <2> QED BY <2>2, <2>3
<1> QED BY <1>1, <1>2, <1>3

\* The claim of an identity takes one that is free and leaves the others.
LEMMA ClaimKeeps ==
  ASSUME RequestsInv, NEW h \in Handlers, ClaimClientOrderID(h)
  PROVE  RequestsInv'
<1> DEFINE g == [request[h] EXCEPT !.at = "claimed"]
<1>1. request[h] \in Requests /\ request[h].at = "claim"
  BY DEF ClaimClientOrderID, RequestsInv, RequestsTyped, NoRequest
<1>2. g \in Requests /\ g.kind = request[h].kind /\ g.user = request[h].user
      /\ g.contest = request[h].contest /\ g.id = request[h].id /\ g.at = "claimed"
  BY <1>1 DEF Requests, RequestSteps
<1>3. request' = [request EXCEPT ![h] = g] /\ UNCHANGED <<primary, replica, topics>>
  BY DEF ClaimClientOrderID, GoOn
<1> HIDE DEF g
<1>4. \A i \in OrderIds : claim[i] # Unclaimed => claim'[i] = claim[i]
  BY <1>1 DEF ClaimClientOrderID, RequestsInv, RequestsTyped
<1>5. \A i \in OrderIds, u \in Traders, c \in TradeContests :
        claim[i] = Row(u, c, "claimed") => claim'[i] = Row(u, c, "claimed")
  BY <1>4 DEF Row, Unclaimed
<1>6. RequestsTyped'
  <2>1. claim' \in [OrderIds -> {Unclaimed} \cup
                       {Row(u, c, "claimed") : u \in Traders, c \in TradeContests}]
    BY <1>1 DEF ClaimClientOrderID, RequestsInv, RequestsTyped, Requests
  <2>2. request' \in [Handlers -> {NoRequest} \cup Requests]
    BY <1>2, <1>3 DEF RequestsInv, RequestsTyped
  <2> QED BY <1>3, <2>1, <2>2 DEF RequestsInv, RequestsTyped
<1>7. RowsOrdered'
  BY <1>3 DEF RequestsInv, RowsOrdered
<1>8. TopicsClaimed'
  <2>1. \A r \in topics : r.id \in OrderIds /\ r.user \in Traders /\ r.contest \in TradeContests
    BY DEF RequestsInv, RequestsTyped
  <2>2. \A r \in topics : claim'[r.id] = Row(r.user, r.contest, "claimed")
    BY <1>5, <2>1 DEF RequestsInv, TopicsClaimed
  <2> QED BY <1>3, <2>2 DEF RequestsInv, TopicsClaimed
<1>9. RequestsChecked'
  <2> SUFFICES ASSUME NEW k \in Handlers
               PROVE  LET r == request'[k]
                      IN IF r.kind \in {"order", "socket"}
                         THEN /\ (r.at \in {"claim", "claimed", "publish"} \/ r.kind = "socket")
                                   => <<r.user, r.contest>> \in primary.joined
                              /\ r.at = "publish" => claim'[r.id] = Row(r.user, r.contest, "claimed")
                         ELSE r # NoRequest => OrderRecord(r.id, r.user, r.contest) \in topics
    BY <1>3 DEF RequestsChecked
  <2>1. CASE k = h
    <3>1. request'[k] = g
      BY <1>3, <2>1 DEF RequestsInv, RequestsTyped
    <3> QED BY <1>1, <1>2, <2>1, <3>1 DEF RequestsInv, RequestsChecked, NoRequest, Requests
  <2>2. CASE k # h
    <3>1. request'[k] = request[k]
      BY <1>3, <2>2 DEF RequestsInv, RequestsTyped
    <3>2. request[k].at = "publish" => request[k] \in Requests
      BY DEF RequestsInv, RequestsTyped, NoRequest
    <3>3. request[k].at = "publish" /\ claim[request[k].id] = Row(request[k].user, request[k].contest, "claimed")
            => claim'[request[k].id] = Row(request[k].user, request[k].contest, "claimed")
      BY <1>5, <3>2 DEF Requests
    <3> QED BY <3>1, <3>3 DEF RequestsInv, RequestsChecked
  <2> QED BY <2>1, <2>2
<1> QED BY <1>6, <1>7, <1>8, <1>9 DEF RequestsInv

\* What a handler publishes is backed.
LEMMA PublishKeeps ==
  ASSUME RequestsInv, NEW h \in Handlers, Publish(h)
  PROVE  RequestsInv'
<1> DEFINE r == request[h]
           g == [kind |-> IF r.kind = "socket" THEN "order" ELSE r.kind,
                 id |-> r.id, user |-> r.user, contest |-> r.contest]
<1>1. r \in Requests /\ r.at = "publish" /\ r # NoRequest
  BY DEF Publish, RequestsInv, RequestsTyped, NoRequest
<1>2. /\ g \in [kind : RequestKinds \ {"socket"}, id : OrderIds, user : Traders, contest : TradeContests]
      /\ g.id = r.id /\ g.user = r.user /\ g.contest = r.contest
      /\ g.kind = "order" <=> r.kind \in {"order", "socket"}
  BY <1>1 DEF Requests, RequestKinds
<1>3. /\ claim[r.id] = Row(r.user, r.contest, "claimed") /\ <<r.user, r.contest>> \in primary.joined
      /\ g.kind # "order" => OrderRecord(r.id, r.user, r.contest) \in topics
  <2>1. CASE r.kind \in {"order", "socket"}
    BY <1>1, <1>2, <2>1 DEF RequestsInv, RequestsChecked
  <2>2. CASE r.kind \notin {"order", "socket"}
    <3> DEFINE o == OrderRecord(r.id, r.user, r.contest)
    <3>1. o \in topics
      BY <1>1, <2>2 DEF RequestsInv, RequestsChecked
    <3>2. o.id = r.id /\ o.user = r.user /\ o.contest = r.contest
      BY DEF OrderRecord
    <3> QED BY <3>1, <3>2 DEF RequestsInv, TopicsClaimed
  <2> QED BY <2>1, <2>2
<1>4. topics' \in {topics, topics \cup {g}} /\ End(h) /\ UNCHANGED <<claim, primary, replica>>
  BY DEF Publish, databaseVars
<1> HIDE DEF r, g
\* The record first, then the end of the request.
<1>5. RequestsTyped' /\ RowsOrdered' /\ TopicsClaimed'
  <2>1. RequestsTyped'
    BY <1>2, <1>4 DEF RequestsInv, RequestsTyped, End
  <2>2. RowsOrdered'
    BY <1>4 DEF RequestsInv, RowsOrdered
  <2>3. g.kind = "order" => g = OrderRecord(r.id, r.user, r.contest)
    BY <1>2 DEF OrderRecord
  <2>4. g \in topics' => OrderRecord(g.id, g.user, g.contest) \in topics'
    BY <1>2, <1>3, <1>4, <2>3
  <2>5. \A p \in topics' : \/ p \in topics
                          \/ p = g
    BY <1>4
  <2>6. topics \subseteq topics' /\ claim' = claim /\ primary' = primary
    BY <1>4
  <2>7. TopicsClaimed'
    BY <1>2, <1>3, <2>4, <2>5, <2>6, Zenon DEF RequestsInv, TopicsClaimed
  <2> QED BY <2>1, <2>2, <2>7
<1>6. RequestsChecked'
  <2>1. \A k \in Handlers : request'[k] = NoRequest \/ request'[k] = request[k]
    BY <1>4 DEF End, RequestsInv, RequestsTyped
  <2> QED BY <1>4, <2>1 DEF RequestsInv, RequestsChecked, NoRequest
<1> QED BY <1>5, <1>6 DEF RequestsInv

\* The primary may move on, and the replica catch up, as long as every row comes
\* from an order that was published and participants stay.
LEMMA DatabaseMoves ==
  ASSUME RequestsInv, UNCHANGED <<claim, request, topics>>, primary' \in Databases,
         primary.joined \subseteq primary'.joined,
         \A i \in OrderIds : primary'.row[i].status # "none"
           => OrderRecord(i, primary'.row[i].user, primary'.row[i].contest) \in topics,
         replica' = replica \/ replica' = primary'
  PROVE  RequestsInv'
<1>1. RequestsTyped'
  BY DEF RequestsInv, RequestsTyped
<1>2. RowsOrdered'
  BY DEF RequestsInv, RowsOrdered
<1>3. RequestsChecked'
  BY DEF RequestsInv, RequestsChecked
<1>4. TopicsClaimed'
  BY DEF RequestsInv, TopicsClaimed
<1> QED BY <1>1, <1>2, <1>3, <1>4 DEF RequestsInv

\* The engine, the contests and the replication.
LEMMA OutsideKeeps ==
  ASSUME RequestsInv,
         \/ \E i \in OrderIds : EngineTakesOrder(i) \/ EngineMovesOrder(i)
         \/ \E u \in Traders, c \in TradeContests : JoinContest(u, c)
         \/ \E c \in TradeContests : ContestStops(c)
         \/ Replicated
  PROVE  RequestsInv'
<1>0. primary \in Databases /\ UNCHANGED <<claim, request, topics>>
      /\ \A i \in OrderIds : primary.row[i].status # "none"
           => OrderRecord(i, primary.row[i].user, primary.row[i].contest) \in topics
  <2>1. UNCHANGED <<claim, request, topics>>
    BY DEF EngineTakesOrder, EngineMovesOrder, JoinContest, ContestStops, Replicated, Outside
  <2>2. primary \in Databases
    BY DEF RequestsInv, RequestsTyped
  <2> QED BY <2>1, <2>2 DEF RequestsInv, RowsOrdered
<1>1. ASSUME NEW i \in OrderIds, EngineTakesOrder(i) PROVE RequestsInv'
  <2>1. PICK r \in topics, s \in {"pending", "filled"} :
          /\ r.kind = "order" /\ r.id = i
          /\ primary' = [primary EXCEPT !.row[i] = Row(r.user, r.contest, s)]
    BY <1>1 DEF EngineTakesOrder
  <2>2. r \in [kind : RequestKinds \ {"socket"}, id : OrderIds, user : Traders, contest : TradeContests]
    BY DEF RequestsInv, RequestsTyped
  <2>3. r = OrderRecord(i, r.user, r.contest)
    BY <2>1, <2>2 DEF OrderRecord
  <2>4. Row(r.user, r.contest, s) \in Rows
    BY <2>2 DEF Row, Rows
  <2>5. primary' \in Databases /\ primary'.joined = primary.joined
    BY <1>0, <2>1, <2>4 DEF Databases
  <2>6. \A k \in OrderIds : primary'.row[k] = IF k = i THEN Row(r.user, r.contest, s) ELSE primary.row[k]
    BY <1>0, <2>1 DEF Databases
  <2>7. \A k \in OrderIds : primary'.row[k].status # "none"
          => OrderRecord(k, primary'.row[k].user, primary'.row[k].contest) \in topics
    BY <1>0, <2>3, <2>6 DEF Row
  <2> QED BY <1>0, <1>1, <2>5, <2>7, DatabaseMoves DEF EngineTakesOrder
<1>2. ASSUME NEW i \in OrderIds, EngineMovesOrder(i) PROVE RequestsInv'
  <2>1. PICK s \in {"open", "filled", "over"} : primary' = [primary EXCEPT !.row[i].status = s]
    BY <1>2 DEF EngineMovesOrder
  <2>2. primary.row[i].status # "none"
    BY <1>2 DEF EngineMovesOrder
  <2>3. primary' \in Databases /\ primary'.joined = primary.joined
    BY <1>0, <2>1 DEF Databases, Rows
  <2>4. \A k \in OrderIds : /\ primary'.row[k].user = primary.row[k].user
                            /\ primary'.row[k].contest = primary.row[k].contest
                            /\ k # i => primary'.row[k] = primary.row[k]
    BY <1>0, <2>1 DEF Databases, Rows
  <2>5. \A k \in OrderIds : primary'.row[k].status # "none" => primary.row[k].status # "none"
    BY <2>2, <2>4
  <2>6. \A k \in OrderIds : primary'.row[k].status # "none"
          => OrderRecord(k, primary'.row[k].user, primary'.row[k].contest) \in topics
    BY <1>0, <2>4, <2>5
  <2> QED BY <1>0, <1>2, <2>3, <2>6, DatabaseMoves DEF EngineMovesOrder
<1>3. ASSUME NEW u \in Traders, NEW c \in TradeContests, JoinContest(u, c) PROVE RequestsInv'
  <2>1. primary' \in Databases /\ primary'.row = primary.row /\ primary.joined \subseteq primary'.joined
    BY <1>0, <1>3 DEF JoinContest, Databases
  <2> QED BY <1>0, <1>3, <2>1, DatabaseMoves DEF JoinContest
<1>4. ASSUME NEW c \in TradeContests, ContestStops(c) PROVE RequestsInv'
  <2>1. primary' \in Databases /\ primary'.row = primary.row /\ primary.joined \subseteq primary'.joined
    BY <1>0, <1>4 DEF ContestStops, Databases
  <2> QED BY <1>0, <1>4, <2>1, DatabaseMoves DEF ContestStops
<1>5. CASE Replicated
  BY <1>0, <1>5, DatabaseMoves DEF Replicated
<1> QED BY <1>1, <1>2, <1>3, <1>4, <1>5

\* Every step of the requests keeps the invariant.
LEMMA RequestsStep == RequestsInv /\ [RequestsNext]_requestVars => RequestsInv'
<1> SUFFICES ASSUME RequestsInv, [RequestsNext]_requestVars PROVE RequestsInv'
  OBVIOUS
<1>1. CASE UNCHANGED requestVars
  BY <1>1 DEF requestVars, databaseVars, RequestsInv, RequestsTyped, RowsOrdered, RequestsChecked,
              TopicsClaimed
<1>2. ASSUME NEW h \in Handlers, RequestFails(h) PROVE RequestsInv'
  BY <1>2, EndKeeps DEF RequestFails, databaseVars
<1> QED
  BY <1>1, <1>2, BeginKeeps, ChecksKeep, ClaimKeeps, PublishKeeps, OutsideKeeps DEF RequestsNext

\* All records of one identity are of one user and one contest, in which the user
\* takes part, and what is asked of an order follows the order
\* (trading_handlers.go handlePlaceOrder, client.go handleOrderRequest,
\* order_idempotency.go): however the retries interleave and however far the
\* replica lags behind.
THEOREM RequestsAlwaysBacked == RequestsSpec => []RequestsBacked
<1>1. RequestsInv => RequestsBacked
  <2> SUFFICES ASSUME RequestsInv PROVE RequestsBacked
    OBVIOUS
  <2>1. \A r, s \in topics : r.id = s.id => r.user = s.user /\ r.contest = s.contest
    <3> SUFFICES ASSUME NEW r \in topics, NEW s \in topics, r.id = s.id
                 PROVE  r.user = s.user /\ r.contest = s.contest
      OBVIOUS
    <3>1. Row(r.user, r.contest, "claimed") = Row(s.user, s.contest, "claimed")
      <4>1. claim[r.id] = Row(r.user, r.contest, "claimed")
        BY DEF RequestsInv, TopicsClaimed
      <4>2. claim[s.id] = Row(s.user, s.contest, "claimed")
        BY DEF RequestsInv, TopicsClaimed
      <4> QED BY <4>1, <4>2
    <3> QED BY <3>1 DEF Row
  <2>2. \A r \in topics : [r EXCEPT !.kind = "order"] = OrderRecord(r.id, r.user, r.contest)
    BY DEF RequestsInv, RequestsTyped, OrderRecord
  <2> QED BY <2>1, <2>2 DEF RequestsInv, TopicsClaimed, RequestsBacked
<1> QED BY <1>1, RequestsStart, RequestsStep, PTL DEF RequestsSpec

-----------------------------------------------------------------------------
(* Tickets. *)

Past == {"check", "session", "enter", "open"}
Entitled == {"session", "enter", "open"}
Openings == [ticket : WSTickets \cup {NoOne}, contest : TradeContests \cup {0},
             binding : WSTickets \cup {NoOne}, at : {"none", "take", "refused"} \cup Past]

TicketRows == [contest : TradeContests \cup {0}, at : {"none", "drawn", "stored", "gone"},
               known : BOOLEAN]

TicketsTyped ==
  /\ wsTicket \in [WSTickets -> TicketRows]
  /\ cookie \in WSTickets \cup {NoOne}
  /\ opening \in [1 .. MaxOpenings -> Openings]
  /\ opened \subseteq 1 .. MaxOpenings

\* An attempt that got its ticket is the only one that did, and the ticket is
\* gone from Redis; past the checks of the record, binding and contest are its
\* own.
TicketsUsed ==
  /\ \A n \in 1 .. MaxOpenings :
       LET o == opening[n]
       IN /\ o.at \in {"take", "check"} => o.ticket \in WSTickets
          /\ o.at \in Past /\ o.ticket # NoOne => wsTicket[o.ticket].at = "gone"
          /\ o.at \in Entitled /\ o.ticket # NoOne
               => o.binding = o.ticket /\ wsTicket[o.ticket].contest = o.contest
  /\ \A n, m \in 1 .. MaxOpenings :
       n # m /\ opening[n].at \in Past /\ opening[m].at \in Past /\ opening[n].ticket # NoOne
         => opening[n].ticket # opening[m].ticket
  /\ \A n \in opened : opening[n].at = "open"

TicketsInv == TicketsTyped /\ TicketsUsed

WSTicketSpec == WSTicketInit /\ [][WSTicketNext]_wsTicketVars

\* At first nobody has a ticket and nothing is open.
LEMMA TicketsStart == WSTicketInit => TicketsInv
BY DEF WSTicketInit, TicketsInv, TicketsTyped, TicketsUsed, TicketRows, Openings, Past, Entitled,
       NoOpening

\* One attempt may go on while the tickets stay: it gets past the check only with
\* the ticket it took, and to the session only with its own binding and contest.
LEMMA OneOpening ==
  ASSUME TicketsInv, NEW n \in 1 .. MaxOpenings, NEW g \in Openings,
         opening' = [opening EXCEPT ![n] = g], wsTicket' = wsTicket,
         cookie' \in WSTickets \cup {NoOne},
         opened' \in {opened, opened \cup {n}}, n \in opened' => g.at = "open",
         g.at \in {"take", "check"} => g.ticket \in WSTickets,
         g.at \in Past /\ g.ticket # NoOne => opening[n].at \in Past /\ opening[n].ticket = g.ticket,
         g.at \in Entitled /\ g.ticket # NoOne
           => g.binding = g.ticket /\ wsTicket[g.ticket].contest = g.contest
  PROVE  TicketsInv'
<1>1. \A m \in 1 .. MaxOpenings : opening'[m] = IF m = n THEN g ELSE opening[m]
  BY DEF TicketsInv, TicketsTyped
<1>2. TicketsTyped'
  BY DEF TicketsInv, TicketsTyped
<1>3. \A m \in 1 .. MaxOpenings :
        LET o == opening'[m]
        IN /\ o.at \in {"take", "check"} => o.ticket \in WSTickets
           /\ o.at \in Past /\ o.ticket # NoOne => wsTicket[o.ticket].at = "gone"
           /\ o.at \in Entitled /\ o.ticket # NoOne
                => o.binding = o.ticket /\ wsTicket[o.ticket].contest = o.contest
  BY <1>1 DEF TicketsInv, TicketsUsed
<1>4. \A m, k \in 1 .. MaxOpenings :
        m # k /\ opening'[m].at \in Past /\ opening'[k].at \in Past /\ opening'[m].ticket # NoOne
          => opening'[m].ticket # opening'[k].ticket
  BY <1>1 DEF TicketsInv, TicketsUsed
<1>5. \A m \in opened' : opening'[m].at = "open"
  BY <1>1 DEF TicketsInv, TicketsTyped, TicketsUsed
<1> QED BY <1>2, <1>3, <1>4, <1>5 DEF TicketsInv, TicketsUsed

\* The same for an attempt of which only the step changes.
LEMMA OpeningGoesOn ==
  ASSUME TicketsInv, NEW n \in 1 .. MaxOpenings, NEW where \in {"refused"} \cup Past,
         OpeningAt(n, where), wsTicket' = wsTicket, cookie' \in WSTickets \cup {NoOne},
         opened' \in {opened, opened \cup {n}}, n \in opened' => where = "open",
         where = "check" => opening[n].ticket \in WSTickets,
         where \in Past => opening[n].at \in Past,
         where \in Entitled /\ opening[n].ticket # NoOne
           => /\ opening[n].binding = opening[n].ticket
              /\ wsTicket[opening[n].ticket].contest = opening[n].contest
  PROVE  TicketsInv'
<1> DEFINE g == [opening[n] EXCEPT !.at = where]
<1>1. opening[n] \in Openings
  BY DEF TicketsInv, TicketsTyped
<1>2. g \in Openings /\ g.ticket = opening[n].ticket /\ g.contest = opening[n].contest
      /\ g.binding = opening[n].binding /\ g.at = where
  BY <1>1 DEF Openings
<1>3. opening' = [opening EXCEPT ![n] = g]
  BY DEF OpeningAt
<1>4. where # "take"
  BY DEF Past
<1> HIDE DEF g
<1> QED BY <1>2, <1>3, <1>4, OneOpening

\* Tickets that are issued, stored, received, or expire while no attempt
\* depends on it.
LEMMA TicketsMove ==
  ASSUME TicketsInv, UNCHANGED <<opening, opened>>,
         cookie' \in WSTickets \cup {NoOne},
         wsTicket' \in [WSTickets -> TicketRows],
         \A t \in WSTickets : wsTicket[t].at = "gone"
           => wsTicket'[t].at = "gone" /\ wsTicket'[t].contest = wsTicket[t].contest
  PROVE  TicketsInv'
<1>1. TicketsTyped'
  BY DEF TicketsInv, TicketsTyped
<1>2. \A n \in 1 .. MaxOpenings :
        LET o == opening[n]
        IN /\ o.at \in {"take", "check"} => o.ticket \in WSTickets
           /\ o.at \in Past /\ o.ticket # NoOne => wsTicket'[o.ticket].at = "gone"
           /\ o.at \in Entitled /\ o.ticket # NoOne
                => o.binding = o.ticket /\ wsTicket'[o.ticket].contest = o.contest
  <2> SUFFICES ASSUME NEW n \in 1 .. MaxOpenings
               PROVE  LET o == opening[n]
                      IN /\ o.at \in {"take", "check"} => o.ticket \in WSTickets
                         /\ o.at \in Past /\ o.ticket # NoOne => wsTicket'[o.ticket].at = "gone"
                         /\ o.at \in Entitled /\ o.ticket # NoOne
                              => o.binding = o.ticket /\ wsTicket'[o.ticket].contest = o.contest
    OBVIOUS
  <2>1. opening[n].ticket \in WSTickets \cup {NoOne}
    BY DEF TicketsInv, TicketsTyped, Openings
  <2>2. Entitled \subseteq Past
    BY DEF Entitled, Past
  <2>3. opening[n].at \in Past /\ opening[n].ticket # NoOne
          => /\ wsTicket'[opening[n].ticket].at = "gone"
             /\ wsTicket'[opening[n].ticket].contest = wsTicket[opening[n].ticket].contest
    BY <2>1 DEF TicketsInv, TicketsUsed
  <2> QED BY <2>2, <2>3 DEF TicketsInv, TicketsUsed
<1> QED BY <1>1, <1>2 DEF TicketsInv, TicketsUsed

\* What an attempt begins with.
LEMMA AttemptsBegin ==
  ASSUME TicketsInv, NEW n \in 1 .. MaxOpenings,
         \/ \E t \in WSTickets, k \in TradeContests : HandleWebSocket(n, t, k)
         \/ \E k \in TradeContests : HandleWithToken(n, k)
  PROVE  TicketsInv'
<1>0. opening[n].at = "none" /\ UNCHANGED <<wsTicket, cookie, opened>>
      /\ cookie \in WSTickets \cup {NoOne}
  BY DEF HandleWebSocket, HandleWithToken, BeginsAttempt, TicketsInv, TicketsTyped
<1>1. n \notin opened
  BY <1>0 DEF TicketsInv, TicketsUsed
<1>2. ASSUME NEW t \in WSTickets, NEW k \in TradeContests, HandleWebSocket(n, t, k)
      PROVE  TicketsInv'
  <2> DEFINE g == [ticket |-> t, contest |-> k, binding |-> cookie, at |-> "take"]
  <2>1. g \in Openings /\ g.at = "take" /\ g.ticket = t
    BY <1>0 DEF Openings
  <2>2. opening' = [opening EXCEPT ![n] = g]
    BY <1>2 DEF HandleWebSocket
  <2>3. "take" \notin Past \cup Entitled
    BY DEF Past, Entitled
  <2> HIDE DEF g
  <2> QED BY <1>0, <1>1, <2>1, <2>2, <2>3, OneOpening
<1>3. ASSUME NEW k \in TradeContests, HandleWithToken(n, k) PROVE TicketsInv'
  <2> DEFINE g == [NoOpening EXCEPT !.contest = k, !.at = "session"]
  <2>1. g \in Openings /\ g.at = "session" /\ g.ticket = NoOne
    BY DEF Openings, NoOpening, Past
  <2>2. opening' = [opening EXCEPT ![n] = g]
    BY <1>3 DEF HandleWithToken
  <2> HIDE DEF g
  <2> QED BY <1>0, <1>1, <2>1, <2>2, OneOpening
<1> QED BY <1>2, <1>3

\* GETDEL gives a ticket to the one attempt that finds it stored.
LEMMA TakenKeeps ==
  ASSUME TicketsInv, NEW n \in 1 .. MaxOpenings, NEW where \in {"check", "refused"},
         opening[n].at = "take", OpeningAt(n, where),
         wsTicket' = [wsTicket EXCEPT ![opening[n].ticket].at = "gone"],
         where = "check" => wsTicket[opening[n].ticket].at = "stored",
         cookie' \in WSTickets \cup {NoOne}, opened' = opened
  PROVE  TicketsInv'
<1> DEFINE t == opening[n].ticket
<1>1. opening[n].at = "take" /\ t \in WSTickets /\ opening[n] \in Openings /\ opened' = opened
  BY DEF TicketsInv, TicketsTyped, TicketsUsed
<1>2. n \notin opened
  BY <1>1 DEF TicketsInv, TicketsUsed
<1>3. /\ OpeningAt(n, where)
      /\ where = "check" => wsTicket[t].at = "stored"
      /\ cookie' \in WSTickets \cup {NoOne}
  OBVIOUS
<1> DEFINE g == [opening[n] EXCEPT !.at = where]
<1>4. g \in Openings /\ g.ticket = t /\ g.at = where
  BY <1>1 DEF Openings, Past
<1>5. \A m \in 1 .. MaxOpenings : opening'[m] = IF m = n THEN g ELSE opening[m]
  BY <1>3 DEF OpeningAt, TicketsInv, TicketsTyped
<1>6. wsTicket' = [wsTicket EXCEPT ![t].at = "gone"]
  OBVIOUS
<1>7. \A s \in WSTickets : /\ wsTicket'[s].contest = wsTicket[s].contest
                           /\ wsTicket'[s].at = IF s = t THEN "gone" ELSE wsTicket[s].at
  BY <1>6 DEF TicketsInv, TicketsTyped
\* Where the ticket was still stored, no attempt had got it.
<1>8. where = "check" => \A m \in 1 .. MaxOpenings : opening[m].at \in Past => opening[m].ticket # t
  <2> SUFFICES ASSUME where = "check", NEW m \in 1 .. MaxOpenings, opening[m].at \in Past,
                      opening[m].ticket = t
               PROVE  FALSE
    OBVIOUS
  <2>1. wsTicket[t].at = "gone"
    BY <1>1, TicketsNamed DEF TicketsInv, TicketsUsed
  <2> QED BY <1>3, <2>1
<1>9. "refused" \notin Past /\ where \notin Entitled /\ where # "take"
  BY DEF Past, Entitled
<1>10. \A m \in 1 .. MaxOpenings : opening[m].ticket \in WSTickets \cup {NoOne}
  BY DEF TicketsInv, TicketsTyped, Openings
<1> HIDE DEF g, t
<1>11. TicketsTyped'
  <2>1. wsTicket' \in [WSTickets -> TicketRows]
    BY <1>1, <1>6 DEF TicketsInv, TicketsTyped, TicketRows
  <2>2. opening' \in [1 .. MaxOpenings -> Openings]
    BY <1>3, <1>4 DEF OpeningAt, g, TicketsInv, TicketsTyped
  <2> QED BY <1>1, <1>3, <2>1, <2>2 DEF TicketsInv, TicketsTyped
<1>12. \A m \in 1 .. MaxOpenings :
         LET o == opening'[m]
         IN /\ o.at \in {"take", "check"} => o.ticket \in WSTickets
            /\ o.at \in Past /\ o.ticket # NoOne => wsTicket'[o.ticket].at = "gone"
            /\ o.at \in Entitled /\ o.ticket # NoOne
                 => o.binding = o.ticket /\ wsTicket'[o.ticket].contest = o.contest
  <2> SUFFICES ASSUME NEW m \in 1 .. MaxOpenings
               PROVE  LET o == opening'[m]
                      IN /\ o.at \in {"take", "check"} => o.ticket \in WSTickets
                         /\ o.at \in Past /\ o.ticket # NoOne => wsTicket'[o.ticket].at = "gone"
                         /\ o.at \in Entitled /\ o.ticket # NoOne
                              => o.binding = o.ticket /\ wsTicket'[o.ticket].contest = o.contest
    OBVIOUS
  <2>1. CASE m = n
    BY <1>1, <1>4, <1>5, <1>7, <1>9, <2>1
  <2>2. CASE m # n
    BY <1>5, <1>7, <1>10, <2>2 DEF TicketsInv, TicketsUsed
  <2> QED BY <2>1, <2>2
<1>13. \A m, k \in 1 .. MaxOpenings :
         m # k /\ opening'[m].at \in Past /\ opening'[k].at \in Past /\ opening'[m].ticket # NoOne
           => opening'[m].ticket # opening'[k].ticket
  <2> SUFFICES ASSUME NEW m \in 1 .. MaxOpenings, NEW k \in 1 .. MaxOpenings, m # k,
                      opening'[m].at \in Past, opening'[k].at \in Past, opening'[m].ticket # NoOne
               PROVE  opening'[m].ticket # opening'[k].ticket
    OBVIOUS
  <2>1. CASE m = n
    BY <1>4, <1>5, <1>8, <1>9, <2>1
  <2>2. CASE k = n
    BY <1>4, <1>5, <1>8, <1>9, <2>2
  <2>3. CASE m # n /\ k # n
    BY <1>5, <2>3 DEF TicketsInv, TicketsUsed
  <2> QED BY <2>1, <2>2, <2>3
<1>14. \A m \in opened' : opening'[m].at = "open"
  BY <1>1, <1>2, <1>5 DEF TicketsInv, TicketsTyped, TicketsUsed
<1> QED BY <1>11, <1>12, <1>13, <1>14 DEF TicketsInv, TicketsUsed

\* The attempt takes its ticket, or is refused and leaves it.
LEMMA ConsumeKeeps ==
  ASSUME TicketsInv, NEW n \in 1 .. MaxOpenings, Consume(n)
  PROVE  TicketsInv'
<1>1. /\ opening[n].at = "take" /\ opened' = opened /\ n \notin opened
      /\ cookie \in WSTickets \cup {NoOne}
  BY DEF Consume, TicketsInv, TicketsTyped, TicketsUsed
<1>2. CASE OpeningAt(n, "check") /\ wsTicket[opening[n].ticket].at = "stored" /\ cookie' = cookie
           /\ wsTicket' = [wsTicket EXCEPT ![opening[n].ticket].at = "gone"]
  BY <1>1, <1>2, TakenKeeps
<1>3. ASSUME AnswerOpening(n, "refused") PROVE OpeningAt(n, "refused") /\ cookie' \in WSTickets \cup {NoOne}
  BY <1>1, <1>3 DEF AnswerOpening
<1>4. CASE AnswerOpening(n, "refused") /\ wsTicket' = [wsTicket EXCEPT ![opening[n].ticket].at = "gone"]
  BY <1>1, <1>3, <1>4, TakenKeeps
<1>5. CASE AnswerOpening(n, "refused") /\ wsTicket' = wsTicket
  <2>1. "refused" \notin Past \cup Entitled
    BY DEF Past, Entitled
  <2> QED BY <1>1, <1>3, <1>5, <2>1, OpeningGoesOn
<1> QED BY <1>2, <1>4, <1>5 DEF Consume

\* The later checks of an attempt.
LEMMA AttemptsGoOn ==
  ASSUME TicketsInv, NEW n \in 1 .. MaxOpenings,
         CheckRecord(n) \/ AuthenticateWebSocketRequest(n) \/ EnterContest(n)
  PROVE  TicketsInv'
<1>0. /\ opening[n].at \in {"check", "session", "enter"} /\ wsTicket' = wsTicket
      /\ opening[n].at \in Past /\ {"check", "session", "enter", "open"} = Past
      /\ {"session", "enter", "open"} = Entitled
  BY DEF CheckRecord, AuthenticateWebSocketRequest, EnterContest, Past, Entitled
<1>1. n \notin opened
  BY <1>0 DEF TicketsInv, TicketsUsed
<1>2. cookie \in WSTickets \cup {NoOne}
  BY DEF TicketsInv, TicketsTyped
<1>3. PICK where \in {"session", "enter", "open", "refused"} :
        /\ OpeningAt(n, where) /\ cookie' \in WSTickets \cup {NoOne}
        /\ opened' \in {opened, opened \cup {n}}
        /\ n \in opened' => where = "open"
        /\ opening[n].at = "check" /\ where # "refused"
             => /\ opening[n].binding = opening[n].ticket
                /\ wsTicket[opening[n].ticket].contest = opening[n].contest
  <2>1. CASE CheckRecord(n)
    BY <1>1, <1>2, <2>1 DEF CheckRecord, AnswerOpening
  <2>2. CASE AuthenticateWebSocketRequest(n)
    BY <1>1, <1>2, <2>2 DEF AuthenticateWebSocketRequest, AnswerOpening
  <2>3. CASE EnterContest(n)
    BY <1>1, <1>2, <2>3 DEF EnterContest, AnswerOpening
  <2> QED BY <2>1, <2>2, <2>3
<1>4. where \in Entitled /\ opening[n].ticket # NoOne
        => /\ opening[n].binding = opening[n].ticket
           /\ wsTicket[opening[n].ticket].contest = opening[n].contest
  BY <1>0, <1>3 DEF TicketsInv, TicketsUsed
<1> QED BY <1>0, <1>3, <1>4, OpeningGoesOn

\* Every step of the tickets keeps the invariant.
LEMMA TicketsStep == TicketsInv /\ [WSTicketNext]_wsTicketVars => TicketsInv'
<1> SUFFICES ASSUME TicketsInv, [WSTicketNext]_wsTicketVars PROVE TicketsInv'
  OBVIOUS
<1>1. CASE UNCHANGED wsTicketVars
  BY <1>1 DEF wsTicketVars, TicketsInv, TicketsTyped, TicketsUsed
<1>2. CASE EndSession
  BY <1>2 DEF EndSession, TicketsInv, TicketsTyped, TicketsUsed
<1>3. ASSUME NEW t \in WSTickets, NEW k \in TradeContests, IssueWSTicket(t, k) PROVE TicketsInv'
  <2>1. /\ wsTicket[t].at = "none"
        /\ wsTicket' = [wsTicket EXCEPT ![t] = [contest |-> k, at |-> "drawn", known |-> FALSE]]
        /\ UNCHANGED <<cookie, opening, opened>>
    BY <1>3 DEF IssueWSTicket
  <2>2. cookie' \in WSTickets \cup {NoOne} /\ wsTicket' \in [WSTickets -> TicketRows]
    BY <2>1 DEF TicketsInv, TicketsTyped, TicketRows
  <2>3. \A s \in WSTickets : wsTicket[s].at = "gone" => wsTicket'[s] = wsTicket[s]
    BY <2>1 DEF TicketsInv, TicketsTyped
  <2> QED BY <2>1, <2>2, <2>3, TicketsMove
<1>4. ASSUME NEW t \in WSTickets, NEW where \in {"stored", "gone"}, wsTicket[t].at \in {"drawn", "stored"},
             wsTicket' = [wsTicket EXCEPT ![t].at = where], UNCHANGED <<cookie, opening, opened>>
      PROVE  TicketsInv'
  <2>1. cookie' \in WSTickets \cup {NoOne} /\ wsTicket' \in [WSTickets -> TicketRows]
    BY <1>4 DEF TicketsInv, TicketsTyped, TicketRows
  <2>2. \A s \in WSTickets : wsTicket[s].at = "gone" => wsTicket'[s] = wsTicket[s]
    BY <1>4 DEF TicketsInv, TicketsTyped
  <2> QED BY <1>4, <2>1, <2>2, TicketsMove
<1>5. ASSUME NEW t \in WSTickets, Put(t) \/ ExpireTicket(t) PROVE TicketsInv'
  BY <1>4, <1>5 DEF Put, ExpireTicket
<1>6. ASSUME NEW t \in WSTickets, ReceiveTicket(t) PROVE TicketsInv'
  <2>1. /\ wsTicket' = [wsTicket EXCEPT ![t].known = TRUE] /\ cookie' = t
        /\ UNCHANGED <<opening, opened>>
    BY <1>6 DEF ReceiveTicket
  <2>2. wsTicket' \in [WSTickets -> TicketRows]
    BY <2>1 DEF TicketsInv, TicketsTyped, TicketRows
  <2>3. \A s \in WSTickets : wsTicket[s].at = "gone"
          => wsTicket'[s].at = "gone" /\ wsTicket'[s].contest = wsTicket[s].contest
    BY <2>1 DEF TicketsInv, TicketsTyped, TicketRows
  <2> QED BY <2>1, <2>2, <2>3, TicketsMove
<1>7. CASE ExpireCookie
  BY <1>7 DEF ExpireCookie, TicketsInv, TicketsTyped, TicketsUsed
<1> QED
  BY <1>1, <1>2, <1>3, <1>5, <1>6, <1>7, AttemptsBegin, ConsumeKeeps, AttemptsGoOn DEF WSTicketNext

\* One ticket opens at most one socket, in the contest it was issued for and for
\* the browser it was bound to (ws_ticket.go consumeWSTicket, GETDEL), for any
\* number of tickets and attempts that present them at once.
THEOREM TicketOpensOnceAlways == WSTicketSpec => []TicketOpensOnce
<1>1. TicketsInv => TicketOpensOnce
  <2> SUFFICES ASSUME TicketsInv PROVE TicketOpensOnce
    OBVIOUS
  <2>1. \A n, m \in 1 .. MaxOpenings :
          n # m /\ opening[n].ticket = opening[m].ticket /\ opening[n].ticket # NoOne
            => ~(opening[n].at \in Past /\ opening[m].at \in Past)
    BY DEF TicketsInv, TicketsUsed
  <2>2. ASSUME NEW n \in opened, opening[n].ticket # NoOne
        PROVE  /\ opening[n].binding = opening[n].ticket
               /\ wsTicket[opening[n].ticket].contest = opening[n].contest
               /\ wsTicket[opening[n].ticket].at = "gone"
    <3>1. n \in 1 .. MaxOpenings /\ opening[n].at \in Past \cap Entitled
      BY <2>2 DEF TicketsInv, TicketsTyped, TicketsUsed, Past, Entitled
    <3> QED BY <2>2, <3>1 DEF TicketsInv, TicketsUsed
  <2> QED BY <2>1, <2>2 DEF TicketOpensOnce, Past
<1> QED BY <1>1, TicketsStart, TicketsStep, PTL DEF WSTicketSpec

-----------------------------------------------------------------------------
(* The shard router. *)

ShardRows == {"none", "active", "draining", "inactive"}
KeptRows == ShardRows \ {"inactive"}
PersistJobs == [old : {0} \cup Shards, new : Shards]

RoutingTyped ==
  /\ config \in [Shards -> ShardRows] /\ pin \in {0} \cup Shards
  /\ memory \in [Routers -> [Shards -> KeptRows]]
  /\ loading \in [Routers -> {<<>>} \cup {<<row>> : row \in [Shards -> KeptRows]}]
  /\ persistCh \in [Routers -> Seq(PersistJobs)]
  /\ missed \in [Routers -> SUBSET Shards]
  /\ auditRow.old # 0 => auditRow.router \in Routers

\* What a router has in memory or has read is in the configuration, and what it is
\* without is on record.
ShardsKnown ==
  \A r \in Routers, s \in Shards :
    /\ memory[r][s] # "none" => config[s] # "none"
    /\ loading[r] # <<>> /\ loading[r][1][s] # "none" => config[s] # "none"
    /\ config[s] # "none" /\ memory[r][s] = "none" => s \in missed[r]

\* The contest is pinned to a shard of the configuration, and a job takes it
\* only off a shard its router has been without.
PinsKnown ==
  /\ pin # 0 => config[pin] # "none"
  /\ \A r \in Routers : \A i \in 1 .. Len(persistCh[r]) :
       /\ config[persistCh[r][i].new] # "none"
       /\ persistCh[r][i].old # 0 => persistCh[r][i].old \in missed[r]

RoutingInv == RoutingTyped /\ ShardsKnown /\ PinsKnown /\ DrainKeepsContests

\* A set of shards that is not empty has a last one.
LEMMA LastShard ==
  ASSUME NEW S \in SUBSET Shards, S # {}
  PROVE  \E s \in S : \A t \in S : t <= s
<1> DEFINE R == OpToRel(<, Nat)
           T == {m \in Nat : \A t \in S : t <= m}
<1>1. MaxShards \in T /\ T \subseteq Nat
  BY ShardsAssumption DEF Shards
<1>2. PICK x \in T : \A y \in T : ~(<<y, x>> \in R)
  <2>1. IsWellFoundedOn(R, Nat)
    BY NatLessThanWellFounded
  <2> HIDE DEF R
  <2> HIDE DEF T
  <2> QED BY <1>1, <2>1, WFMin
<1>3. \A y \in T : x <= y
  <2> SUFFICES ASSUME NEW y \in T PROVE x <= y
    OBVIOUS
  <2>1. x \in Nat /\ y \in Nat /\ ~(<<y, x>> \in R)
    BY <1>2
  <2>2. y < x => <<y, x>> \in R
    BY <2>1 DEF OpToRel
  <2> HIDE DEF R
  <2> QED BY <2>1, <2>2
<1>4. x \in Nat /\ \A t \in S : t <= x /\ t \in Nat /\ t >= 1
  BY DEF Shards
<1>5. x \in S
  <2> SUFFICES ASSUME x \notin S PROVE FALSE
    OBVIOUS
  <2>1. \A t \in S : t <= x - 1
    BY <1>4
  <2>2. x - 1 \in T
    BY <1>4, <2>1
  <2> QED BY <1>3, <1>4, <2>2
<1> QED BY <1>4, <1>5

\* The ring answers with one of its shards, or with none when it is empty.
LEMMA RingAnswers ==
  ASSUME NEW held \in [Shards -> KeptRows], RouteTo(held) # 0
  PROVE  RouteTo(held) \in Shards /\ held[RouteTo(held)] = "active"
<1> DEFINE ring == {s \in Shards : held[s] = "active"}
<1>1. ring # {}
  BY DEF RouteTo
<1>2. \E s \in ring : \A t \in ring : t <= s
  <2> HIDE DEF ring
  <2>1. ring \in SUBSET Shards
    BY DEF ring
  <2> QED BY <1>1, <2>1, LastShard
<1>3. RouteTo(held) \in ring
  BY <1>1, <1>2 DEF RouteTo
<1> QED BY <1>3

\* At first every router has what the configuration has.
LEMMA RoutingStart == RoutingInit => RoutingInv
<1> SUFFICES ASSUME RoutingInit PROVE RoutingInv
  OBVIOUS
<1>1. RoutingTyped
  BY DEF RoutingInit, RoutingTyped, ShardRows, KeptRows
<1>2. ShardsKnown /\ PinsKnown /\ DrainKeepsContests
  BY DEF RoutingInit, ShardsKnown, PinsKnown, DrainKeepsContests
<1> QED BY <1>1, <1>2 DEF RoutingInv

\* Rows in the configuration or in memory may change while the queues stay, if
\* no row is lost from the configuration, memory has only rows of it, and what is
\* missing is noticed.
LEMMA RowsChange ==
  ASSUME RoutingInv, UNCHANGED <<pin, persistCh, auditRow>>,
         config' \in [Shards -> ShardRows], memory' \in [Routers -> [Shards -> KeptRows]],
         loading' \in [Routers -> {<<>>} \cup {<<row>> : row \in [Shards -> KeptRows]}],
         \A s \in Shards : config[s] # "none" => config'[s] # "none",
         \A r \in Routers, s \in Shards :
           /\ memory'[r][s] # "none" => config'[s] # "none"
           /\ loading'[r] # <<>> /\ loading'[r][1][s] # "none" => config'[s] # "none",
         Notice(config', memory')
  PROVE  RoutingInv'
<1>1. \A r \in Routers : missed'[r] = missed[r] \cup {s \in Shards : config'[s] # "none"
                                                               /\ memory'[r][s] = "none"}
  BY DEF Notice
<1>2. missed' \in [Routers -> SUBSET Shards]
  BY DEF Notice, RoutingInv, RoutingTyped
<1>3. RoutingTyped'
  BY <1>2 DEF RoutingInv, RoutingTyped
<1>4. ShardsKnown'
  BY <1>1 DEF ShardsKnown
<1>5. PinsKnown'
  <2>1. pin' # 0 => config'[pin'] # "none"
    BY DEF RoutingInv, RoutingTyped, PinsKnown
  <2>2. ASSUME NEW r \in Routers, NEW i \in 1 .. Len(persistCh[r])
        PROVE  /\ config'[persistCh[r][i].new] # "none"
               /\ persistCh[r][i].old # 0 => persistCh[r][i].old \in missed'[r]
    <3>1. persistCh[r][i] \in PersistJobs
      BY DEF RoutingInv, RoutingTyped
    <3>2. persistCh[r][i].new \in Shards
      BY <3>1 DEF PersistJobs
    <3> QED BY <1>1, <3>2 DEF RoutingInv, PinsKnown
  <2> QED BY <2>1, <2>2 DEF PinsKnown
<1>6. DrainKeepsContests'
  BY <1>1 DEF RoutingInv, RoutingTyped, DrainKeepsContests
<1> QED BY <1>3, <1>4, <1>5, <1>6 DEF RoutingInv

\* Loads, restarts and the changes of an admin.
LEMMA ShardsChange ==
  ASSUME RoutingInv, NEW r \in Routers,
         \/ ReadShards(r) \/ MergeShards(r) \/ RestartRouter(r)
         \/ \E s \in Shards : DrainShard(r, s) \/ AddShard(r, s) \/ RemoveShard(r, s)
  PROVE  RoutingInv'
<1>0. /\ config \in [Shards -> ShardRows] /\ memory \in [Routers -> [Shards -> KeptRows]]
      /\ loading \in [Routers -> {<<>>} \cup {<<row>> : row \in [Shards -> KeptRows]}]
      /\ persistCh \in [Routers -> Seq(PersistJobs)]
  BY DEF RoutingInv, RoutingTyped
<1>1. Loadable(config) \in [Shards -> KeptRows]
      /\ \A s \in Shards : Loadable(config)[s] # "none" => config[s] # "none"
  BY <1>0 DEF Loadable, ShardRows, KeptRows
<1>2. \A q \in Routers, s \in Shards :
        /\ memory[q][s] # "none" => config[s] # "none"
        /\ loading[q] # <<>> /\ loading[q][1][s] # "none" => config[s] # "none"
        /\ config[s] # "none" /\ memory[q][s] = "none" => s \in missed[q]
  BY DEF RoutingInv, ShardsKnown
<1>3. CASE ReadShards(r)
  <2> DEFINE read == Loadable(config)
  <2>1. /\ UNCHANGED <<config, pin, memory, persistCh, auditRow, missed>>
        /\ loading' = [loading EXCEPT ![r] = <<read>>]
    BY <1>3 DEF ReadShards
  <2>2. read \in [Shards -> KeptRows] /\ \A s \in Shards : read[s] # "none" => config[s] # "none"
    BY <1>1
  <2> HIDE DEF read
  <2>3. loading' \in [Routers -> {<<>>} \cup {<<row>> : row \in [Shards -> KeptRows]}]
    BY <1>0, <2>1, <2>2
  <2>4. \A q \in Routers, s \in Shards :
          loading'[q] # <<>> /\ loading'[q][1][s] # "none" => config[s] # "none"
    <3> SUFFICES ASSUME NEW q \in Routers, NEW s \in Shards, loading'[q] # <<>>,
                        loading'[q][1][s] # "none"
                 PROVE  config[s] # "none"
      OBVIOUS
    <3>1. loading'[q] = IF q = r THEN <<read>> ELSE loading[q]
      BY <1>0, <2>1
    <3> QED BY <1>2, <2>2, <3>1
  <2>5. RoutingTyped'
    BY <2>1, <2>3 DEF RoutingInv, RoutingTyped
  <2>6. ShardsKnown'
    BY <1>2, <2>1, <2>4 DEF ShardsKnown
  <2>7. PinsKnown' /\ DrainKeepsContests'
    BY <2>1 DEF RoutingInv, PinsKnown, DrainKeepsContests
  <2> QED BY <2>5, <2>6, <2>7 DEF RoutingInv
<1>4. CASE MergeShards(r)
  <2>1. PICK read \in [Shards -> KeptRows] : loading[r] = <<read>>
    BY <1>0, <1>4 DEF MergeShards
  <2>2. /\ memory' = [memory EXCEPT ![r] = [s \in Shards |->
                        IF read[s] = "active" /\ memory[r][s] = "draining" THEN memory[r][s] ELSE read[s]]]
        /\ loading' = [loading EXCEPT ![r] = <<>>]
        /\ Notice(config', memory')
        /\ UNCHANGED <<config, pin, persistCh, auditRow>>
    BY <1>4, <2>1 DEF MergeShards
  <2>3. memory' \in [Routers -> [Shards -> KeptRows]]
        /\ loading' \in [Routers -> {<<>>} \cup {<<row>> : row \in [Shards -> KeptRows]}]
    BY <1>0, <2>2
  <2>4. \A q \in Routers, s \in Shards : memory'[q][s] # "none" => config'[s] # "none"
    <3> SUFFICES ASSUME NEW q \in Routers, NEW s \in Shards, memory'[q][s] # "none"
                 PROVE  config[s] # "none"
      BY <2>2
    <3>1. CASE q = r
      <4>1. memory'[q][s] = IF read[s] = "active" /\ memory[r][s] = "draining"
                            THEN memory[r][s] ELSE read[s]
        BY <1>0, <2>2, <3>1
      <4>2. read[s] # "none" => config[s] # "none"
        BY <1>2, <2>1
      <4> QED BY <1>2, <4>1, <4>2
    <3>2. CASE q # r
      BY <1>0, <1>2, <2>2, <3>2
    <3> QED BY <3>1, <3>2
  <2>5. \A q \in Routers, s \in Shards :
          loading'[q] # <<>> /\ loading'[q][1][s] # "none" => config'[s] # "none"
    BY <1>0, <1>2, <2>2
  <2> QED BY <1>0, <2>2, <2>3, <2>4, <2>5, RowsChange
<1>5. CASE RestartRouter(r)
  <2> DEFINE read == Loadable(config)
             emptied == [persistCh EXCEPT ![r] = <<>>]
  <2>1. /\ memory' = [memory EXCEPT ![r] = read] /\ loading' = [loading EXCEPT ![r] = <<>>]
        /\ persistCh' = emptied /\ Notice(config', memory')
        /\ UNCHANGED <<config, pin, auditRow>>
    BY <1>5 DEF RestartRouter
  <2>2. read \in [Shards -> KeptRows] /\ \A s \in Shards : read[s] # "none" => config[s] # "none"
    BY <1>1
  <2> HIDE DEF read
  <2>3. memory' \in [Routers -> [Shards -> KeptRows]]
        /\ loading' \in [Routers -> {<<>>} \cup {<<row>> : row \in [Shards -> KeptRows]}]
        /\ persistCh' \in [Routers -> Seq(PersistJobs)]
    BY <1>0, <2>1, <2>2
  <2>4. \A q \in Routers : missed'[q] = missed[q] \cup {s \in Shards : config'[s] # "none"
                                                                 /\ memory'[q][s] = "none"}
    BY <2>1 DEF Notice
  <2>5. RoutingTyped'
    <3>1. missed' \in [Routers -> SUBSET Shards]
      BY <2>1 DEF Notice, RoutingInv, RoutingTyped
    <3> QED BY <2>1, <2>3, <3>1 DEF RoutingInv, RoutingTyped
  <2>6. ShardsKnown'
    <3>1. ASSUME NEW q \in Routers, NEW s \in Shards
          PROVE  /\ memory'[q][s] # "none" => config[s] # "none"
                 /\ loading'[q] # <<>> /\ loading'[q][1][s] # "none" => config[s] # "none"
      BY <1>0, <1>2, <2>1, <2>2
    <3> QED BY <2>1, <2>4, <3>1 DEF ShardsKnown
  <2>7. PinsKnown'
    <3>1. ASSUME NEW q \in Routers, NEW i \in 1 .. Len(persistCh'[q])
          PROVE  /\ i \in 1 .. Len(persistCh[q]) /\ persistCh'[q][i] = persistCh[q][i]
      <4>1. persistCh'[q] = IF q = r THEN <<>> ELSE persistCh[q]
        BY <1>0, <2>1
      <4> QED BY <4>1
    <3> QED BY <2>1, <2>4, <3>1 DEF RoutingInv, PinsKnown
  <2>8. DrainKeepsContests'
    BY <2>1, <2>4 DEF RoutingInv, RoutingTyped, DrainKeepsContests
  <2> QED BY <2>5, <2>6, <2>7, <2>8 DEF RoutingInv
<1>6. ASSUME NEW s \in Shards, NEW row \in ShardRows \ {"none"}, NEW kept \in KeptRows,
             ChangeShard(r, s, row, kept)
      PROVE  RoutingInv'
  <2>1. /\ config' = [config EXCEPT ![s] = row] /\ memory' = [memory EXCEPT ![r][s] = kept]
        /\ Notice(config', memory') /\ UNCHANGED <<pin, loading, persistCh, auditRow>>
    BY <1>6 DEF ChangeShard
  <2>2. config' \in [Shards -> ShardRows] /\ memory' \in [Routers -> [Shards -> KeptRows]]
    BY <1>0, <2>1
  <2>3. \A t \in Shards : /\ config[t] # "none" => config'[t] # "none"
                          /\ t = s => config'[t] # "none"
    BY <1>0, <2>1
  <2>4. \A q \in Routers, t \in Shards :
          /\ memory'[q][t] # "none" => config'[t] # "none"
          /\ loading'[q] # <<>> /\ loading'[q][1][t] # "none" => config'[t] # "none"
    <3> SUFFICES ASSUME NEW q \in Routers, NEW t \in Shards
                 PROVE  /\ memory'[q][t] # "none" => config'[t] # "none"
                        /\ loading'[q] # <<>> /\ loading'[q][1][t] # "none" => config'[t] # "none"
      OBVIOUS
    <3>1. t # s => memory'[q][t] = memory[q][t]
      BY <1>0, <2>1
    <3> QED BY <1>2, <2>1, <2>3, <3>1
  <2> QED BY <1>0, <2>1, <2>2, <2>3, <2>4, RowsChange
<1>7. ASSUME NEW s \in Shards, DrainShard(r, s) \/ AddShard(r, s) \/ RemoveShard(r, s)
      PROVE  RoutingInv'
  BY <1>6, <1>7 DEF DrainShard, AddShard, RemoveShard, ShardRows, KeptRows
<1> QED BY <1>3, <1>4, <1>5, <1>7

\* A contest that is routed is queued, where it is, off a shard its router is
\* without and onto one the router has.
LEMMA RoutesKeep ==
  ASSUME RoutingInv, NEW r \in Routers, RouteToSticky(r)
  PROVE  RoutingInv'
<1>0. /\ UNCHANGED <<config, pin, memory, loading, auditRow, missed>>
      /\ persistCh \in [Routers -> Seq(PersistJobs)] /\ memory[r] \in [Shards -> KeptRows]
      /\ pin \in {0} \cup Shards
  BY DEF RouteToSticky, RoutingInv, RoutingTyped
<1>1. CASE persistCh' = persistCh
  BY <1>0, <1>1 DEF RoutingInv, RoutingTyped, ShardsKnown, PinsKnown, DrainKeepsContests
<1>2. CASE ~Keeps(r, pin) /\ Answer(r, pin) # 0
           /\ persistCh' = [persistCh EXCEPT ![r] = Append(@, [old |-> pin, new |-> Answer(r, pin)])]
  <2> DEFINE job == [old |-> pin, new |-> Answer(r, pin)]
  <2>1. Answer(r, pin) \in Shards /\ memory[r][Answer(r, pin)] = "active"
    BY <1>0, <1>2, RingAnswers DEF Answer
  <2>2. config[Answer(r, pin)] # "none"
    BY <2>1 DEF RoutingInv, ShardsKnown
  <2>3. pin # 0 => memory[r][pin] = "none" /\ config[pin] # "none"
    BY <1>0, <1>2 DEF Keeps, Up, KeptRows, ShardRows, RoutingInv, PinsKnown
  <2>4. pin # 0 => pin \in missed[r]
    BY <1>0, <2>3 DEF RoutingInv, ShardsKnown
  <2>5. /\ job \in PersistJobs /\ config[job.new] # "none"
        /\ job.old # 0 => job.old \in missed[r]
    BY <1>0, <2>1, <2>2, <2>4 DEF PersistJobs
  <2>6. persistCh' = [persistCh EXCEPT ![r] = Append(@, job)]
    BY <1>2
  <2> HIDE DEF job
  <2>7. \A q \in Routers : persistCh'[q] = IF q = r THEN Append(persistCh[r], job) ELSE persistCh[q]
    BY <1>0, <2>6
  <2>8. RoutingTyped'
    <3>1. persistCh' \in [Routers -> Seq(PersistJobs)]
      BY <1>0, <2>5, <2>6
    <3> QED BY <1>0, <3>1 DEF RoutingInv, RoutingTyped
  <2>9. ASSUME NEW q \in Routers, NEW i \in 1 .. Len(persistCh'[q])
        PROVE  /\ config[persistCh'[q][i].new] # "none"
               /\ persistCh'[q][i].old # 0 => persistCh'[q][i].old \in missed[q]
    <3>1. persistCh[q] \in Seq(PersistJobs) /\ persistCh[r] \in Seq(PersistJobs)
      BY <1>0
    <3>2. CASE q # r
      BY <2>7, <2>9, <3>2 DEF RoutingInv, PinsKnown
    <3>3. CASE q = r /\ i = Len(persistCh[r]) + 1
      <4>1. persistCh'[q] = Append(persistCh[r], job)
        BY <2>7, <3>3
      <4>2. persistCh'[q][i] = job
        BY <2>5, <3>1, <3>3, <4>1
      <4> QED BY <2>5, <3>3, <4>2
    <3>4. CASE q = r /\ i # Len(persistCh[r]) + 1
      <4>1. persistCh'[q] = Append(persistCh[r], job)
        BY <2>7, <3>4
      <4>2. i \in 1 .. Len(persistCh[r]) + 1
        BY <2>5, <2>9, <3>1, <4>1
      <4>3. i \in 1 .. Len(persistCh[r]) /\ persistCh'[q][i] = persistCh[r][i]
        BY <2>5, <3>1, <3>4, <4>1, <4>2
      <4> QED BY <3>4, <4>3 DEF RoutingInv, PinsKnown
    <3> QED BY <3>2, <3>3, <3>4
  <2>10. PinsKnown'
    BY <1>0, <2>9 DEF RoutingInv, PinsKnown
  <2>11. ShardsKnown' /\ DrainKeepsContests'
    BY <1>0 DEF RoutingInv, ShardsKnown, DrainKeepsContests
  <2> QED BY <2>8, <2>10, <2>11 DEF RoutingInv
<1> QED BY <1>1, <1>2 DEF RouteToSticky, CacheAnswer

\* A job is done or lost.
LEMMA PersistKeeps ==
  ASSUME RoutingInv, NEW r \in Routers, PersistShardAssignment(r)
  PROVE  RoutingInv'
<1> DEFINE job == Head(persistCh[r])
<1>1. /\ UNCHANGED <<config, memory, loading, missed>> /\ persistCh[r] # <<>>
      /\ persistCh' = [persistCh EXCEPT ![r] = Tail(@)]
      /\ \/ pin' = job.new /\ auditRow' = [router |-> r, old |-> job.old]
         \/ UNCHANGED <<pin, auditRow>>
  BY DEF PersistShardAssignment
<1>2. persistCh \in [Routers -> Seq(PersistJobs)] /\ persistCh[r] \in Seq(PersistJobs)
  BY DEF RoutingInv, RoutingTyped
<1>3. job = persistCh[r][1] /\ 1 \in 1 .. Len(persistCh[r]) /\ job \in PersistJobs
  BY <1>1, <1>2
<1>4. config[job.new] # "none" /\ (job.old # 0 => job.old \in missed[r])
  BY <1>3 DEF RoutingInv, PinsKnown
<1>5. job.new \in Shards
  BY <1>3 DEF PersistJobs
<1> HIDE DEF job
<1>6. RoutingTyped'
  <2>1. persistCh' \in [Routers -> Seq(PersistJobs)]
    BY <1>1, <1>2
  <2>2. pin' \in {0} \cup Shards /\ (auditRow'.old # 0 => auditRow'.router \in Routers)
    BY <1>1, <1>5 DEF RoutingInv, RoutingTyped
  <2> QED BY <1>1, <2>1, <2>2 DEF RoutingInv, RoutingTyped
<1>7. ShardsKnown' /\ DrainKeepsContests'
  BY <1>1, <1>4 DEF RoutingInv, ShardsKnown, DrainKeepsContests
<1>8. ASSUME NEW q \in Routers, NEW i \in 1 .. Len(persistCh'[q])
      PROVE  /\ config[persistCh'[q][i].new] # "none"
             /\ persistCh'[q][i].old # 0 => persistCh'[q][i].old \in missed[q]
  <2>1. CASE q # r
    BY <1>1, <1>2, <1>8, <2>1 DEF RoutingInv, PinsKnown
  <2>2. CASE q = r
    <3>1. persistCh'[q] = Tail(persistCh[r])
      BY <1>1, <1>2, <2>2
    <3>2. i + 1 \in 1 .. Len(persistCh[r]) /\ persistCh'[q][i] = persistCh[r][i + 1]
      BY <1>1, <1>2, <1>8, <3>1
    <3> QED BY <2>2, <3>2 DEF RoutingInv, PinsKnown
  <2> QED BY <2>1, <2>2
<1>9. PinsKnown'
  <2>1. pin' # 0 => config[pin'] # "none"
    BY <1>1, <1>4 DEF RoutingInv, PinsKnown
  <2> QED BY <1>1, <1>8, <2>1 DEF PinsKnown
<1> QED BY <1>6, <1>7, <1>9 DEF RoutingInv

\* Every step of the routers keeps the invariant.
LEMMA RoutingStep == RoutingInv /\ [RoutingNext]_routingVars => RoutingInv'
<1> SUFFICES ASSUME RoutingInv, [RoutingNext]_routingVars PROVE RoutingInv'
  OBVIOUS
<1>1. CASE UNCHANGED routingVars
  BY <1>1 DEF routingVars, RoutingInv, RoutingTyped, ShardsKnown, PinsKnown, DrainKeepsContests
<1>2. ASSUME ExpireAssignment \/ \E r \in Routers : RouteUnpinned(r) PROVE RoutingInv'
  BY <1>2 DEF ExpireAssignment, RouteUnpinned, RoutingInv, RoutingTyped, ShardsKnown, PinsKnown,
              DrainKeepsContests
<1> QED BY <1>1, <1>2, ShardsChange, RoutesKeep, PersistKeeps DEF RoutingNext

-----------------------------------------------------------------------------
(* The feed of a tournament. *)

JoinSteps == {"no", "upgrading", "yes", "leaving", "left"}
Snapshots == [at : {"none", "query", "send"}, version : Nat]

FeedTyped ==
  /\ version \in Nat /\ published \in Nat
  /\ joined \in [Spectators -> JoinSteps]
  /\ subActions \in [Spectators -> Nat]
  /\ snapshot \in [Spectators -> [1 .. SubRate -> Snapshots]]
  /\ sendCh \in [Spectators -> Seq(Nat)]
  /\ seen \in [Spectators -> Nat \cup {-1}]

\* A follower is connected, and who is connected is counted.
FeedMembers ==
  /\ IsFiniteSet(allClients) /\ Cardinality(allClients) <= MaxFeedConns
  /\ followers \subseteq subscribed /\ followers \subseteq Spectators
  /\ \A s \in Spectators : /\ s \in followers => joined[s] = "yes"
                           /\ joined[s] \in {"yes", "leaving"} => s \in allClients

\* A follower will read a snapshot, holds one that is new enough, or has been shown
\* what was published.
Caught(s) ==
  \/ \E n \in 1 .. SubRate : snapshot[s][n].at = "query"
  \/ \E n \in 1 .. SubRate : snapshot[s][n].at = "send" /\ snapshot[s][n].version >= published
  \/ \E v \in Shown(s) : v >= published

FeedCaught == \A s \in followers \ excused : Caught(s)

FeedInv == FeedTyped /\ FeedMembers /\ FeedCaught

\* What a queue holds when something is added, and when its head is taken.
LEMMA QueueRange ==
  ASSUME NEW q \in Seq(Nat)
  PROVE  /\ \A v \in Nat : Append(q, v) \in Seq(Nat) /\ Range(Append(q, v)) = Range(q) \cup {v}
         /\ q # <<>> => /\ Head(q) \in Nat /\ Tail(q) \in Seq(Nat)
                        /\ Range(q) = {Head(q)} \cup Range(Tail(q))
         /\ Range(q) \subseteq Nat
<1>1. ASSUME NEW v \in Nat
      PROVE  Append(q, v) \in Seq(Nat) /\ Range(Append(q, v)) = Range(q) \cup {v}
  <2> DEFINE a == Append(q, v)
  <2>1. /\ a \in Seq(Nat) /\ Len(a) = Len(q) + 1 /\ a[Len(q) + 1] = v
        /\ \A i \in 1 .. Len(q) : a[i] = q[i]
    OBVIOUS
  <2>2. DOMAIN a = 1 .. Len(q) + 1 /\ DOMAIN q = 1 .. Len(q) /\ Len(q) \in Nat
    BY <2>1
  <2> HIDE DEF a
  <2>3. Range(a) = Range(q) \cup {v}
    BY <2>1, <2>2 DEF Range
  <2> QED BY <2>1, <2>3 DEF a
<1>2. ASSUME q # <<>>
      PROVE  /\ Head(q) \in Nat /\ Tail(q) \in Seq(Nat)
             /\ Range(q) = {Head(q)} \cup Range(Tail(q))
  <2> DEFINE t == Tail(q)
             h == Head(q)
  <2>1. /\ t \in Seq(Nat) /\ h \in Nat /\ h = q[1] /\ Len(q) >= 1 /\ Len(t) = Len(q) - 1
        /\ \A i \in 1 .. Len(t) : t[i] = q[i + 1]
    BY <1>2
  <2>2. DOMAIN t = 1 .. Len(t) /\ DOMAIN q = 1 .. Len(q) /\ Len(q) \in Nat /\ Len(t) \in Nat
    BY <2>1
  <2> HIDE DEF t, h
  <2>3. ASSUME NEW i \in 1 .. Len(q) PROVE q[i] \in {h} \cup Range(t)
    <3>1. CASE i = 1
      BY <2>1, <3>1
    <3>2. CASE i # 1
      <4>1. i - 1 \in 1 .. Len(t) /\ t[i - 1] = q[i]
        BY <2>1, <2>2, <3>2
      <4> QED BY <2>2, <4>1 DEF Range
    <3> QED BY <3>1, <3>2
  <2>4. ASSUME NEW i \in 1 .. Len(t) PROVE t[i] \in Range(q)
    <3>1. i + 1 \in 1 .. Len(q) /\ t[i] = q[i + 1]
      BY <2>1, <2>2
    <3> QED BY <2>2, <3>1 DEF Range
  <2>5. h \in Range(q)
    BY <2>1, <2>2 DEF Range
  <2> QED BY <2>1, <2>2, <2>3, <2>4, <2>5 DEF Range, t, h
<1>3. Range(q) \subseteq Nat
  BY DEF Range
<1> QED BY <1>1, <1>2, <1>3

\* At first nobody is there.
LEMMA FeedStart == FeedHubInit => FeedInv
<1> SUFFICES ASSUME FeedHubInit PROVE FeedInv
  OBVIOUS
<1>1. FeedTyped
  BY DEF FeedHubInit, FeedTyped, JoinSteps, Snapshots, NoSnapshot
<1>2. IsFiniteSet({}) /\ Cardinality({}) = 0
  BY FS_EmptySet
<1>3. FeedMembers
  BY <1>2, LiveFeedAssumption DEF FeedHubInit, FeedMembers
<1>4. FeedCaught
  BY DEF FeedHubInit, FeedCaught
<1> QED BY <1>1, <1>3, <1>4 DEF FeedInv

\* A step that concerns one spectator leaves the others caught up.
LEMMA OneSpectator ==
  ASSUME FeedInv, NEW s \in Spectators, published' = published,
         followers' \subseteq Spectators,
         \A t \in Spectators \ {s} :
           /\ snapshot'[t] = snapshot[t] /\ sendCh'[t] = sendCh[t] /\ seen'[t] = seen[t]
           /\ t \in sendingTo' <=> t \in sendingTo
           /\ t \in followers' \ excused' => t \in followers \ excused,
         s \in followers' \ excused' => Caught(s)'
  PROVE  FeedCaught'
<1> SUFFICES ASSUME NEW t \in followers' \ excused' PROVE Caught(t)'
  BY DEF FeedCaught
<1>1. CASE t = s
  BY <1>1
<1>2. CASE t # s
  <2>1. t \in Spectators \ {s}
    BY <1>2
  <2>2. /\ snapshot'[t] = snapshot[t] /\ sendCh'[t] = sendCh[t] /\ seen'[t] = seen[t]
        /\ t \in sendingTo' <=> t \in sendingTo
        /\ t \in followers \ excused
    BY <2>1
  <2>3. Shown(t)' = Shown(t)
    BY <2>2 DEF Shown
  <2>4. Caught(t)
    BY <2>2 DEF FeedInv, FeedCaught
  <2> QED BY <2>2, <2>3, <2>4 DEF Caught
<1> QED BY <1>1, <1>2

\* The hub's maps stay right when connections, subscriptions and followers stay.
LEMMA MembersStay ==
  ASSUME FeedMembers, UNCHANGED <<allClients, followers, joined, subscribed>>
  PROVE  FeedMembers'
BY DEF FeedMembers

\* A change of the tournament, and the broadcast of one to all followers.
LEMMA TournamentKeeps ==
  ASSUME FeedInv, ChangeTournament \/ BroadcastToTournament
  PROVE  FeedInv'
<1>1. FeedTyped' /\ FeedMembers'
  BY MembersStay DEF ChangeTournament, BroadcastToTournament, FeedInv, FeedTyped
<1>2. CASE ChangeTournament
  <2>1. FeedCaught'
    BY <1>2 DEF ChangeTournament, FeedInv, FeedCaught, Caught, Shown
  <2> QED BY <1>1, <2>1 DEF FeedInv
<1>3. CASE BroadcastToTournament
  <2>1. \A s \in followers' : published' \in Shown(s)' /\ published' >= published'
    BY <1>3 DEF BroadcastToTournament, Shown, FeedInv, FeedTyped
  <2>2. FeedCaught'
    BY <2>1 DEF FeedCaught, Caught
  <2> QED BY <1>1, <2>2 DEF FeedInv
<1> QED BY <1>2, <1>3

\* A message that is queued for a spectator is shown to it, or it is excused.
LEMMA QueueShows ==
  ASSUME FeedTyped, NEW s \in Spectators, NEW v \in Nat, Queue(s, v)
  PROVE  /\ sendCh' \in [Spectators -> Seq(Nat)]
         /\ \A t \in Spectators \ {s} : sendCh'[t] = sendCh[t] /\ (t \in excused' <=> t \in excused)
         /\ s \notin excused' => /\ s \notin excused
                                 /\ Range(sendCh'[s]) = Range(sendCh[s]) \cup {v}
<1>1. sendCh \in [Spectators -> Seq(Nat)] /\ sendCh[s] \in Seq(Nat)
  BY DEF FeedTyped
<1>2. Append(sendCh[s], v) \in Seq(Nat) /\ Range(Append(sendCh[s], v)) = Range(sendCh[s]) \cup {v}
  BY <1>1, QueueRange
<1>3. CASE sendCh' = [sendCh EXCEPT ![s] = Append(@, v)] /\ excused' = excused
  BY <1>1, <1>2, <1>3
<1>4. CASE excused' = excused \cup {s} /\ sendCh' = sendCh
  BY <1>1, <1>4
<1> QED BY <1>3, <1>4 DEF Queue

\* One of the messages of a broadcast.
LEMMA SendKeeps ==
  ASSUME FeedInv, NEW s \in Spectators, SendTo(s)
  PROVE  FeedInv'
<1>1. /\ UNCHANGED <<version, published, allClients, followers, joined, subscribed, subActions,
                     snapshot, seen>>
      /\ sendingTo' = sendingTo \ {s} /\ s \in sendingTo /\ Queue(s, published)
      /\ published \in Nat /\ FeedTyped /\ followers \subseteq Spectators
  BY DEF SendTo, FeedInv, FeedTyped, FeedMembers
<1>2. /\ sendCh' \in [Spectators -> Seq(Nat)]
      /\ \A t \in Spectators \ {s} : sendCh'[t] = sendCh[t] /\ (t \in excused' <=> t \in excused)
      /\ s \notin excused' => Range(sendCh'[s]) = Range(sendCh[s]) \cup {published}
  BY <1>1, QueueShows
<1>3. FeedTyped' /\ FeedMembers'
  BY <1>1, <1>2, MembersStay DEF FeedInv, FeedTyped
<1>4. s \in followers' \ excused' => Caught(s)'
  <2> SUFFICES ASSUME s \notin excused' PROVE Caught(s)'
    OBVIOUS
  <2>1. published' \in Shown(s)' /\ published' >= published'
    BY <1>1, <1>2 DEF Shown
  <2> QED BY <2>1 DEF Caught
<1>5. FeedCaught'
  BY <1>1, <1>2, <1>4, OneSpectator
<1> QED BY <1>3, <1>5 DEF FeedInv

\* A connection is opened and registered, or it ends.
LEMMA ConnectionsKeep ==
  ASSUME FeedInv, NEW s \in Spectators,
         HandleTournamentFeedWS(s) \/ JoinFeed(s) \/ RemoveClientFromAll(s) \/ UnregisterClient(s)
  PROVE  FeedInv'
<1>1. /\ UNCHANGED <<version, published, sendingTo, subscribed, subActions, snapshot, sendCh, seen,
                     excused>>
      /\ followers' \in {followers, followers \ {s}}
      /\ \E where \in JoinSteps : joined' = [joined EXCEPT ![s] = where]
  BY DEF HandleTournamentFeedWS, JoinFeed, RegisterClient, RemoveClientFromAll, UnregisterClient,
         JoinSteps
<1>2. FeedTyped'
  BY <1>1 DEF FeedInv, FeedTyped
<1>3. FeedCaught'
  BY <1>1 DEF FeedInv, FeedCaught, Caught, Shown
<1>4. /\ joined \in [Spectators -> JoinSteps]
      /\ IsFiniteSet(allClients) /\ Cardinality(allClients) <= MaxFeedConns
      /\ MaxFeedConns \in Nat /\ Cardinality(allClients) \in Nat
  BY LiveFeedAssumption, FS_CardinalityType DEF FeedInv, FeedTyped, FeedMembers
<1>5. FeedMembers'
  <2>1. CASE HandleTournamentFeedWS(s)
    BY <1>4, <2>1 DEF HandleTournamentFeedWS, FeedInv, FeedMembers
  <2>2. CASE JoinFeed(s)
    <3>1. CASE allClients' = allClients /\ joined' = [joined EXCEPT ![s] = "left"]
      BY <1>4, <2>2, <3>1 DEF JoinFeed, FeedInv, FeedMembers
    <3>2. CASE /\ Cardinality(allClients) < MaxFeedConns /\ allClients' = allClients \cup {s}
               /\ joined' = [joined EXCEPT ![s] = "yes"]
      <4>1. IsFiniteSet(allClients') /\ Cardinality(allClients') <= MaxFeedConns
        BY <1>4, <3>2, FS_AddElement
      <4> QED BY <1>4, <2>2, <3>2, <4>1 DEF JoinFeed, FeedInv, FeedMembers
    <3>3. Cardinality(allClients) >= MaxFeedConns \/ Cardinality(allClients) < MaxFeedConns
      BY <1>4
    <3> QED BY <2>2, <3>1, <3>2, <3>3 DEF JoinFeed, RegisterClient
  <2>3. CASE RemoveClientFromAll(s)
    BY <1>4, <2>3 DEF RemoveClientFromAll, FeedInv, FeedMembers
  <2>4. CASE UnregisterClient(s)
    <3>0. allClients' = allClients \ {s}
      BY <2>4 DEF UnregisterClient
    <3>1. IsFiniteSet(allClients') /\ Cardinality(allClients') <= MaxFeedConns
      <4>1. /\ IsFiniteSet(allClients \ {s})
            /\ Cardinality(allClients \ {s}) <= Cardinality(allClients)
            /\ Cardinality(allClients \ {s}) \in Nat
        BY <1>4, FS_Subset, FS_CardinalityType
      <4> QED BY <1>4, <3>0, <4>1
    <3> QED BY <1>4, <2>4, <3>1 DEF UnregisterClient, FeedInv, FeedMembers
  <2> QED BY <2>1, <2>2, <2>3, <2>4
<1> QED BY <1>2, <1>3, <1>5 DEF FeedInv

\* A spectator subscribes and will get a snapshot, or unsubscribes.
LEMMA SubscriptionsKeep ==
  ASSUME FeedInv, NEW s \in Spectators, HandleSubscribe(s) \/ HandleUnsubscribe(s)
  PROVE  FeedInv'
<1>0. /\ snapshot \in [Spectators -> [1 .. SubRate -> Snapshots]]
      /\ subActions \in [Spectators -> Nat] /\ seen \in [Spectators -> Nat \cup {-1}]
      /\ followers \subseteq Spectators /\ SubRate \in Nat
  BY LiveFeedAssumption DEF FeedInv, FeedTyped, FeedMembers
<1>1. CASE HandleSubscribe(s)
  <2> DEFINE n == subActions[s] + 1
             fresh == [at |-> "query", version |-> 0]
  <2>1. /\ n \in 1 .. SubRate /\ fresh \in Snapshots
        /\ subActions' = [subActions EXCEPT ![s] = @ + 1]
        /\ snapshot' = [snapshot EXCEPT ![s][n] = fresh]
        /\ seen' = [seen EXCEPT ![s] = -1]
        /\ subscribed' = subscribed \cup {s} /\ followers' = followers \cup {s}
        /\ excused' = excused \ {s} /\ joined[s] = "yes"
        /\ UNCHANGED <<version, published, sendingTo, allClients, joined, sendCh>>
    BY <1>0, <1>1 DEF HandleSubscribe, CheckSubRateLimit, Snapshots
  <2>2. fresh.at = "query"
    OBVIOUS
  <2> HIDE DEF n, fresh
  <2>3. /\ snapshot' \in [Spectators -> [1 .. SubRate -> Snapshots]]
        /\ snapshot'[s][n] = fresh
        /\ \A t \in Spectators \ {s} : snapshot'[t] = snapshot[t] /\ seen'[t] = seen[t]
    BY <1>0, <2>1
  <2>4. FeedTyped'
    BY <1>0, <2>1, <2>3 DEF FeedInv, FeedTyped
  <2>5. FeedMembers'
    BY <2>1 DEF FeedInv, FeedMembers
  <2>6. Caught(s)'
    BY <2>1, <2>2, <2>3 DEF Caught
  <2>7. FeedCaught'
    BY <1>0, <2>1, <2>3, <2>6, OneSpectator
  <2> QED BY <2>4, <2>5, <2>7 DEF FeedInv
<1>2. CASE HandleUnsubscribe(s)
  <2>1. /\ subActions' = [subActions EXCEPT ![s] = @ + 1]
        /\ subscribed' = subscribed \ {s} /\ followers' = followers \ {s}
        /\ UNCHANGED <<version, published, sendingTo, allClients, joined, snapshot, sendCh, seen,
                       excused>>
    BY <1>2 DEF HandleUnsubscribe, CheckSubRateLimit
  <2>2. FeedTyped'
    BY <1>0, <2>1 DEF FeedInv, FeedTyped
  <2>3. FeedMembers' /\ FeedCaught'
    BY <2>1 DEF FeedInv, FeedMembers, FeedCaught, Caught, Shown
  <2> QED BY <2>2, <2>3 DEF FeedInv
<1> QED BY <1>1, <1>2

\* A snapshot is read, fails or is queued.
LEMMA SnapshotsKeep ==
  ASSUME FeedInv, NEW s \in Spectators, NEW n \in 1 .. SubRate,
         SendTournamentSnapshot(s, n) \/ SnapshotFails(s, n) \/ QueueSnapshot(s, n)
  PROVE  FeedInv'
<1>0. /\ snapshot \in [Spectators -> [1 .. SubRate -> Snapshots]]
      /\ version \in Nat /\ published \in Nat /\ FeedTyped /\ followers \subseteq Spectators
      /\ sendCh \in [Spectators -> Seq(Nat)] /\ seen[s] \in Nat \cup {-1}
  BY DEF FeedInv, FeedTyped, FeedMembers
<1>1. UNCHANGED <<version, published, sendingTo, allClients, followers, joined, subscribed,
                  subActions, seen>>
  BY DEF SendTournamentSnapshot, SnapshotFails, QueueSnapshot
<1>2. FeedMembers'
  BY <1>1, MembersStay DEF FeedInv
<1>3. ASSUME NEW g \in Snapshots, snapshot' = [snapshot EXCEPT ![s][n] = g]
      PROVE  /\ snapshot' \in [Spectators -> [1 .. SubRate -> Snapshots]]
             /\ \A t \in Spectators \ {s} : snapshot'[t] = snapshot[t]
             /\ \A m \in 1 .. SubRate : snapshot'[s][m] = IF m = n THEN g ELSE snapshot[s][m]
  BY <1>0, <1>3
<1>4. NoSnapshot \in Snapshots
  BY DEF NoSnapshot, Snapshots
<1>5. CASE SendTournamentSnapshot(s, n)
  <2>1. PICK v \in 0 .. version :
          /\ snapshot' = [snapshot EXCEPT ![s][n] = [at |-> "send", version |-> v]]
          /\ excused' = IF v < published THEN excused \cup {s} ELSE excused
    BY <1>5 DEF SendTournamentSnapshot
  <2> DEFINE g == [at |-> "send", version |-> v]
  <2>2. g \in Snapshots /\ g.at = "send" /\ g.version = v /\ sendCh' = sendCh
    BY <1>0, <1>5 DEF Snapshots, SendTournamentSnapshot
  <2>3. snapshot' = [snapshot EXCEPT ![s][n] = g]
    BY <2>1
  <2> HIDE DEF g
  <2>4. /\ snapshot' \in [Spectators -> [1 .. SubRate -> Snapshots]]
        /\ \A t \in Spectators \ {s} : snapshot'[t] = snapshot[t]
        /\ snapshot'[s][n] = g
    BY <1>3, <2>2, <2>3
  <2>5. s \in followers' \ excused' => Caught(s)'
    <3> SUFFICES ASSUME s \notin excused' PROVE Caught(s)'
      OBVIOUS
    <3>1. v >= published
      BY <1>0, <2>1
    <3> QED BY <1>1, <2>2, <2>4, <3>1 DEF Caught
  <2>6. FeedCaught'
    BY <1>0, <1>1, <2>1, <2>2, <2>4, <2>5, OneSpectator
  <2> QED BY <1>0, <1>1, <1>2, <2>2, <2>4, <2>6 DEF FeedInv, FeedTyped
<1>6. CASE SnapshotFails(s, n)
  <2>1. /\ snapshot' = [snapshot EXCEPT ![s][n] = NoSnapshot]
        /\ excused' = excused \cup {s} /\ sendCh' = sendCh
    BY <1>6 DEF SnapshotFails
  <2>2. FeedCaught'
    BY <1>0, <1>1, <1>3, <1>4, <2>1, OneSpectator
  <2> QED BY <1>0, <1>1, <1>2, <1>3, <1>4, <2>1, <2>2 DEF FeedInv, FeedTyped
<1>7. CASE QueueSnapshot(s, n)
  <2> DEFINE v == snapshot[s][n].version
  <2>1. /\ snapshot' = [snapshot EXCEPT ![s][n] = NoSnapshot]
        /\ Queue(s, v) /\ snapshot[s][n].at = "send"
    BY <1>7 DEF QueueSnapshot
  <2>2. v \in Nat
    BY <1>0 DEF Snapshots
  <2>3. /\ snapshot' \in [Spectators -> [1 .. SubRate -> Snapshots]]
        /\ \A t \in Spectators \ {s} : snapshot'[t] = snapshot[t]
        /\ \A m \in 1 .. SubRate : m # n => snapshot'[s][m] = snapshot[s][m]
    BY <1>3, <1>4, <2>1
  <2>4. /\ sendCh' \in [Spectators -> Seq(Nat)]
        /\ \A t \in Spectators \ {s} : sendCh'[t] = sendCh[t] /\ (t \in excused' <=> t \in excused)
        /\ s \notin excused' => /\ s \notin excused
                                /\ Range(sendCh'[s]) = Range(sendCh[s]) \cup {v}
    BY <1>0, <2>1, <2>2, QueueShows
  <2>5. s \in followers' \ excused' => Caught(s)'
    <3> SUFFICES ASSUME s \in followers, s \notin excused' PROVE Caught(s)'
      BY <1>1
    <3>1. Caught(s)
      BY <2>4 DEF FeedInv, FeedCaught
    <3>2. v \in Shown(s)' /\ Shown(s) \subseteq Shown(s)'
      BY <1>1, <2>4 DEF Shown
    <3>3. CASE \E m \in 1 .. SubRate : snapshot[s][m].at = "query"
      BY <2>1, <2>3, <3>3 DEF Caught
    <3>4. CASE \E m \in 1 .. SubRate : snapshot[s][m].at = "send" /\ snapshot[s][m].version >= published
      <4>1. PICK m \in 1 .. SubRate : snapshot[s][m].at = "send" /\ snapshot[s][m].version >= published
        BY <3>4
      <4>2. CASE m = n
        BY <1>1, <3>2, <4>1, <4>2 DEF Caught
      <4>3. CASE m # n
        BY <1>1, <2>3, <4>1, <4>3 DEF Caught
      <4> QED BY <4>2, <4>3
    <3>5. CASE \E w \in Shown(s) : w >= published
      BY <1>1, <3>2, <3>5 DEF Caught
    <3> QED BY <3>1, <3>3, <3>4, <3>5 DEF Caught
  <2> HIDE DEF v
  <2>6. FeedCaught'
    BY <1>0, <1>1, <2>3, <2>4, <2>5, OneSpectator
  <2> QED BY <1>0, <1>1, <1>2, <2>3, <2>4, <2>6 DEF FeedInv, FeedTyped
<1> QED BY <1>5, <1>6, <1>7

\* What is written to the socket has been shown.
LEMMA WriteKeeps ==
  ASSUME FeedInv, NEW s \in Spectators, FeedWritePump(s)
  PROVE  FeedInv'
<1> DEFINE q == sendCh[s]
<1>1. /\ q \in Seq(Nat) /\ q # <<>> /\ seen[s] \in Nat \cup {-1} /\ published \in Nat
      /\ sendCh \in [Spectators -> Seq(Nat)] /\ seen \in [Spectators -> Nat \cup {-1}]
      /\ followers \subseteq Spectators
  BY DEF FeedWritePump, FeedInv, FeedTyped, FeedMembers
<1>2. /\ Head(q) \in Nat /\ Tail(q) \in Seq(Nat) /\ Range(q) = {Head(q)} \cup Range(Tail(q))
      /\ Range(q) \subseteq Nat
  BY <1>1, QueueRange
<1>3. /\ seen' = [seen EXCEPT ![s] = IF seen[s] < Head(q) THEN Head(q) ELSE seen[s]]
      /\ sendCh' = [sendCh EXCEPT ![s] = Tail(q)]
      /\ UNCHANGED <<version, published, sendingTo, allClients, followers, joined, subscribed,
                     subActions, snapshot, excused>>
  BY DEF FeedWritePump
<1> HIDE DEF q
<1>4. /\ sendCh'[s] = Tail(q) /\ seen'[s] = IF seen[s] < Head(q) THEN Head(q) ELSE seen[s]
      /\ \A t \in Spectators \ {s} : sendCh'[t] = sendCh[t] /\ seen'[t] = seen[t]
  BY <1>1, <1>3
<1>5. FeedTyped' /\ FeedMembers'
  BY <1>1, <1>2, <1>3, MembersStay DEF FeedInv, FeedTyped
<1>6. ASSUME NEW v \in Shown(s), v >= published PROVE \E w \in Shown(s)' : w >= published
  <2>1. seen'[s] \in Shown(s)' /\ Range(Tail(q)) \subseteq Shown(s)'
        /\ (s \in sendingTo => published \in Shown(s)')
    BY <1>3, <1>4 DEF Shown
  <2>2. CASE v \in {seen[s], Head(q)}
    <3>1. seen'[s] >= published
      BY <1>1, <1>2, <1>4, <1>6, <2>2
    <3> QED BY <2>1, <3>1
  <2>3. CASE v \in Range(Tail(q))
    BY <1>6, <2>1, <2>3
  <2>4. CASE s \in sendingTo /\ v = published
    BY <1>6, <2>1, <2>4
  <2> QED BY <1>2, <2>2, <2>3, <2>4 DEF Shown, q
<1>7. s \in followers' \ excused' => Caught(s)'
  <2> SUFFICES ASSUME s \in followers \ excused PROVE Caught(s)'
    BY <1>3
  <2>1. Caught(s)
    BY DEF FeedInv, FeedCaught
  <2> QED BY <1>3, <1>6, <2>1 DEF Caught
<1>8. FeedCaught'
  BY <1>1, <1>3, <1>4, <1>7, OneSpectator
<1> QED BY <1>5, <1>8 DEF FeedInv

\* Every step of the feed keeps the invariant.
LEMMA FeedStep == FeedInv /\ [FeedHubNext]_feedHubVars => FeedInv'
<1> SUFFICES ASSUME FeedInv, [FeedHubNext]_feedHubVars PROVE FeedInv'
  OBVIOUS
<1>1. CASE UNCHANGED feedHubVars
  BY <1>1 DEF feedHubVars, FeedInv, FeedTyped, FeedMembers, FeedCaught, Caught, Shown
<1> QED
  BY <1>1, TournamentKeeps, SendKeeps, ConnectionsKeep, SubscriptionsKeep, SnapshotsKeep, WriteKeeps
     DEF FeedHubNext

\* What the feed promises is the invariant, seen from outside.
LEMMA FeedHolds == FeedInv => FeedHasNoGap
<1> SUFFICES ASSUME FeedInv PROVE FeedHasNoGap
  OBVIOUS
<1>1. Cardinality(allClients) <= MaxFeedConns /\ followers \subseteq allClients
      /\ followers \subseteq subscribed
  BY DEF FeedInv, FeedMembers
<1>2. ASSUME NEW s \in followers \ excused, \A n \in 1 .. SubRate : snapshot[s][n].at = "none"
      PROVE  \E v \in Shown(s) : v >= published
  <2>1. Caught(s)
    BY DEF FeedInv, FeedCaught
  <2> QED BY <1>2, <2>1 DEF Caught
<1> QED BY <1>1, <1>2 DEF FeedHasNoGap

-----------------------------------------------------------------------------
(* The announcements of the leaderboard. *)

Firings == [at : {"idle", "cache", "redis", "renew", "announce"}, score : Nat]

AnnounceTyped ==
  /\ {score, consumed, announced, waived} \subseteq Nat
  /\ timer \in BOOLEAN /\ stopping \in BOOLEAN
  /\ firing \in [1 .. MaxFirings -> Firings]
  /\ top10 \in [score : Nat, fresh : BOOLEAN]

AnnounceInv == AnnounceTyped /\ ChangesAnnounced

\* At first there is nothing to announce.
LEMMA AnnounceStart == AnnounceInit => AnnounceInv
<1> SUFFICES ASSUME AnnounceInit PROVE AnnounceInv
  OBVIOUS
<1>1. NotFiring \in Firings
  BY DEF NotFiring, Firings
<1>2. /\ score = 0 /\ consumed = 0 /\ announced = 0 /\ waived = 0
      /\ timer = FALSE /\ stopping = FALSE
      /\ top10 = [score |-> 0, fresh |-> FALSE]
      /\ firing = [g \in 1 .. MaxFirings |-> NotFiring]
  BY DEF AnnounceInit
<1>3. firing \in [1 .. MaxFirings -> Firings]
  BY <1>1, <1>2
<1>4. AnnounceTyped
  <2>1. {score, consumed, announced, waived} \subseteq Nat
    BY <1>2
  <2>2. timer \in BOOLEAN /\ stopping \in BOOLEAN
    BY <1>2, Zenon
  <2>3. top10 \in [score : Nat, fresh : BOOLEAN]
    BY <1>2
  <2> QED BY <1>3, <2>1, <2>2, <2>3 DEF AnnounceTyped
<1>5. ChangesAnnounced
  BY <1>2 DEF ChangesAnnounced
<1> QED BY <1>4, <1>5 DEF AnnounceInv

\* The steps that concern no broadcast: a change always leaves a timer behind.
LEMMA ScoresKeep ==
  ASSUME AnnounceInv,
         ScoreChanges \/ ScheduleLeaderboardBroadcast \/ ExpireTop10 \/ StopAllTimers
  PROVE  AnnounceInv'
<1>1. CASE ScoreChanges
  BY <1>1 DEF ScoreChanges, AnnounceInv, AnnounceTyped, ChangesAnnounced
<1>2. CASE ScheduleLeaderboardBroadcast
  BY <1>2 DEF ScheduleLeaderboardBroadcast, AnnounceInv, AnnounceTyped, ChangesAnnounced
<1>3. CASE ExpireTop10
  BY <1>3 DEF ExpireTop10, AnnounceInv, AnnounceTyped, ChangesAnnounced
<1>4. CASE StopAllTimers
  BY <1>4 DEF StopAllTimers, AnnounceInv, AnnounceTyped, ChangesAnnounced
<1> QED BY <1>1, <1>2, <1>3, <1>4

\* A broadcast takes a step and the others stay as they are.
LEMMA OneFiring ==
  ASSUME AnnounceInv, NEW g \in 1 .. MaxFirings, NEW f \in Firings,
         firing' = [firing EXCEPT ![g] = f],
         UNCHANGED <<score, consumed, stopping>>,
         timer' \in BOOLEAN, top10' \in [score : Nat, fresh : BOOLEAN],
         announced' \in Nat, waived' \in Nat,
         timer /\ ~timer' => f.at = "cache",
         \/ announced' >= announced
         \/ waived' >= announced,
         \/ waived' >= waived \/ waived' >= consumed,
         \/ announced' >= consumed \/ waived' >= consumed
         \/ f.at \in {"cache", "redis"}
         \/ f.at \in {"renew", "announce"} /\ f.score >= consumed
         \/ /\ firing[g].at \notin {"cache", "redis"}
            /\ ~(firing[g].at \in {"renew", "announce"} /\ firing[g].score >= consumed)
  PROVE  AnnounceInv'
<1>1. /\ {consumed, announced, waived} \subseteq Nat
      /\ firing \in [1 .. MaxFirings -> Firings]
  BY DEF AnnounceInv, AnnounceTyped
<1>2. AnnounceTyped'
  BY DEF AnnounceInv, AnnounceTyped
<1>3. firing'[g] = f /\ \A k \in 1 .. MaxFirings : k # g => firing'[k] = firing[k]
  BY <1>1
<1>4. ChangesAnnounced'
  <2>1. CASE stopping
    BY <2>1 DEF ChangesAnnounced
  <2>2. CASE timer
    <3>1. CASE timer'
      BY <3>1 DEF ChangesAnnounced
    <3>2. CASE ~timer'
      BY <1>3, <2>2, <3>2 DEF ChangesAnnounced
    <3> QED BY <3>1, <3>2
  <2>3. CASE announced >= consumed \/ waived >= consumed
    <3>1. announced' >= consumed \/ waived' >= consumed
      BY <1>1, <2>3
    <3> QED BY <3>1 DEF ChangesAnnounced
  <2>4. ASSUME NEW k \in 1 .. MaxFirings,
               \/ firing[k].at \in {"cache", "redis"}
               \/ firing[k].at \in {"renew", "announce"} /\ firing[k].score >= consumed
        PROVE  ChangesAnnounced'
    <3>1. CASE k = g
      BY <1>3, <2>4, <3>1 DEF ChangesAnnounced
    <3>2. CASE k # g
      BY <1>3, <2>4, <3>2 DEF ChangesAnnounced
    <3> QED BY <3>1, <3>2
  <2> QED BY <2>1, <2>2, <2>3, <2>4 DEF AnnounceInv, ChangesAnnounced
<1> QED BY <1>2, <1>4 DEF AnnounceInv

\* The steps of a broadcast.
LEMMA FiringsKeep ==
  ASSUME AnnounceInv, NEW g \in 1 .. MaxFirings,
         \/ FireLeaderboardBroadcast(g) \/ GetTop10Cached(g) \/ ReadRedis(g) \/ ReadFails(g)
         \/ RenewTop10(g) \/ AnnounceTop10(g)
  PROVE  AnnounceInv'
<1>1. /\ {score, consumed, announced, waived} \subseteq Nat /\ timer \in BOOLEAN
      /\ firing \in [1 .. MaxFirings -> Firings] /\ firing[g] \in Firings
      /\ top10 \in [score : Nat, fresh : BOOLEAN]
  BY DEF AnnounceInv, AnnounceTyped
<1>2. ASSUME NEW where \in {"cache", "redis", "announce"}
      PROVE  /\ [firing[g] EXCEPT !.at = where] \in Firings
             /\ [firing[g] EXCEPT !.at = where].at = where
             /\ [firing[g] EXCEPT !.at = where].score = firing[g].score
  BY <1>1 DEF Firings
<1>3. ASSUME NEW scores \in Nat, NEW where \in {"renew", "announce"}, Read10(g, scores, where),
             UNCHANGED <<score, consumed, timer, top10, announced, stopping>>
      PROVE  AnnounceInv'
  <2> DEFINE f == [at |-> where, score |-> scores]
  <2>1. f \in Firings /\ f.at = where /\ f.score = scores
    BY DEF Firings
  <2>2. firing' = [firing EXCEPT ![g] = f] /\ waived' = IF scores < consumed THEN consumed ELSE waived
    BY <1>3 DEF Read10
  <2>3. waived' \in Nat /\ (waived' >= waived \/ waived' >= consumed)
        /\ (waived' >= consumed \/ f.score >= consumed) /\ announced' >= announced
    BY <1>1, <1>3, <2>1, <2>2
  <2> HIDE DEF f
  <2> QED BY <1>1, <1>3, <2>1, <2>2, <2>3, OneFiring
<1>4. CASE FireLeaderboardBroadcast(g)
  <2> DEFINE f == [firing[g] EXCEPT !.at = "cache"]
  <2>1. f \in Firings /\ f.at = "cache"
    BY <1>2
  <2>2. /\ firing' = [firing EXCEPT ![g] = f] /\ timer' = FALSE
        /\ UNCHANGED <<score, consumed, top10, announced, waived, stopping>>
    BY <1>4 DEF FireLeaderboardBroadcast, FireTimer
  <2>3. announced' >= announced /\ waived' >= waived
    BY <1>1, <2>2
  <2> HIDE DEF f
  <2> QED BY <1>1, <2>1, <2>2, <2>3, OneFiring
<1>5. CASE GetTop10Cached(g)
  <2>1. CASE top10.fresh
    BY <1>1, <1>3, <1>5, <2>1 DEF GetTop10Cached
  <2>2. CASE ~top10.fresh
    <3> DEFINE f == [firing[g] EXCEPT !.at = "redis"]
    <3>1. f \in Firings /\ f.at = "redis"
      BY <1>2
    <3>2. /\ firing' = [firing EXCEPT ![g] = f]
          /\ UNCHANGED <<score, consumed, timer, top10, announced, waived, stopping>>
      BY <1>5, <2>2 DEF GetTop10Cached
    <3>3. announced' >= announced /\ waived' >= waived
      BY <1>1, <3>2
    <3> HIDE DEF f
    <3> QED BY <1>1, <3>1, <3>2, <3>3, OneFiring
  <2> QED BY <2>1, <2>2
<1>6. CASE ReadRedis(g)
  BY <1>1, <1>3, <1>6 DEF ReadRedis
<1>7. CASE ReadFails(g)
  <2>1. /\ NotFiring \in Firings /\ NotFiring.at = "idle"
        /\ firing' = [firing EXCEPT ![g] = NotFiring] /\ waived' = consumed
        /\ UNCHANGED <<score, consumed, timer, top10, announced, stopping>>
    BY <1>7 DEF ReadFails, NotFiring, Firings
  <2>2. announced' >= announced /\ waived' >= consumed
    BY <1>1, <2>1
  <2> QED BY <1>1, <2>1, <2>2, OneFiring
<1>8. CASE RenewTop10(g)
  <2> DEFINE f == [firing[g] EXCEPT !.at = "announce"]
  <2>1. f \in Firings /\ f.at = "announce" /\ f.score = firing[g].score
    BY <1>2
  <2>2. /\ firing' = [firing EXCEPT ![g] = f] /\ firing[g].at = "renew"
        /\ top10' \in [score : Nat, fresh : BOOLEAN]
        /\ UNCHANGED <<score, consumed, timer, announced, waived, stopping>>
    BY <1>1, <1>8 DEF RenewTop10, Firings
  <2>3. announced' >= announced /\ waived' >= waived
    BY <1>1, <2>2
  <2> HIDE DEF f
  <2> QED BY <1>1, <2>1, <2>2, <2>3, OneFiring
<1>9. CASE AnnounceTop10(g)
  <2>1. /\ NotFiring \in Firings /\ NotFiring.at = "idle"
        /\ firing' = [firing EXCEPT ![g] = NotFiring] /\ firing[g].at = "announce"
        /\ announced' = firing[g].score /\ firing[g].score \in Nat
        /\ waived' = IF firing[g].score < announced /\ waived < announced THEN announced ELSE waived
        /\ UNCHANGED <<score, consumed, timer, top10, stopping>>
    BY <1>1, <1>9 DEF AnnounceTop10, NotFiring, Firings
  <2>2. /\ waived' \in Nat /\ waived' >= waived
        /\ announced' >= announced \/ waived' >= announced
        /\ announced' >= consumed \/ ~(firing[g].score >= consumed)
    BY <1>1, <2>1
  <2> QED BY <1>1, <2>1, <2>2, OneFiring
<1> QED BY <1>4, <1>5, <1>6, <1>7, <1>8, <1>9

\* Every step of the announcements keeps the invariant.
LEMMA AnnounceStep == AnnounceInv /\ [AnnounceNext]_announceVars => AnnounceInv'
<1> SUFFICES ASSUME AnnounceInv, [AnnounceNext]_announceVars PROVE AnnounceInv'
  OBVIOUS
<1>1. CASE UNCHANGED announceVars
  BY <1>1 DEF announceVars, AnnounceInv, AnnounceTyped, ChangesAnnounced
<1> QED BY <1>1, ScoresKeep, FiringsKeep DEF AnnounceNext

-----------------------------------------------------------------------------
(* What the engine promises. *)

\* Everything the trading side's behaviours are about.
tradingVars == <<part, engVars, marketVars, ingestionVars, mhVars, routingVars, gatewayVars,
                 tradeVars, orderLimitVars, liveVars>>

\* Under the specification of the trading side only the engine's own steps touch
\* the engine.
LEMMA TradingSteps ==
  ASSUME [Next]_tradingVars
  PROVE  [EngNext]_engVars
BY DEF Next, tradingVars

\* Fills and quantities (order_processing.go, position_management.go): however
\* the consumers interleave with crashes, restarts and reloads, an order is
\* filled at most once, and what is available, held by positions and reserved
\* by waiting orders is the participant's total, for any finite sets of symbols
\* and orders, any quantities and any number of faults.
THEOREM FillsAlwaysConserve == Spec => []FillsConserveQty
<1>1. Init => EngineInv
  BY EngineStart DEF Init
<1>2. EngineInv /\ [Next]_tradingVars => EngineInv'
  BY TradingSteps, EngineStep
<1>3. EngineInv => FillsConserveQty
  BY EngineHolds DEF FillsConserveQty
<1> QED BY <1>1, <1>2, <1>3, PTL DEF Spec, tradingVars

\* The end of a contest (executeMarketOrder, executePendingOrder, executeTPSL):
\* a transaction whose lock was taken after the end adds no exposure, whatever
\* the caches and the trading gate still say.
THEOREM EndedAlwaysReduces == Spec => EndedOnlyReduces
<1>1. Init => EngineInv
  BY EngineStart DEF Init
<1>2. EngineInv /\ [Next]_tradingVars => EngineInv'
  BY TradingSteps, EngineStep
<1>3. EngineInv /\ [Next]_tradingVars
        => [\A w \in Workers :
              (task[w].pc = "tx" /\ task'[w].pc = "apply" /\ ~task[w].running /\ ~raced')
              => Exposure' <= Exposure]_engVars
  BY TradingSteps, EndedReduces DEF EngineInv
<1> QED BY <1>1, <1>2, <1>3, PTL DEF Spec, tradingVars, EndedOnlyReduces

\* Draining (router.go): a router takes a pinned contest off a shard only when it
\* has been without that shard, however loads, changes, restarts and the queued
\* pins of any number of routers and shards interleave, with any queue and any
\* number of changes.
THEOREM DrainAlwaysKeeps == Spec => []DrainRight
<1>1. Init => RoutingInv
  BY RoutingStart DEF Init
<1>2. RoutingInv /\ [Next]_tradingVars => RoutingInv'
  <2>1. [Next]_tradingVars => [RoutingNext]_routingVars
    BY DEF Next, tradingVars
  <2> QED BY <2>1, RoutingStep
<1>3. RoutingInv => DrainRight
  BY DEF RoutingInv, DrainRight
<1> QED BY <1>1, <1>2, <1>3, PTL DEF Spec, tradingVars

\* The live views (tournament_feed.go, kafka_consumers.go): a spectator whose
\* snapshot was sent is shown every change, the connections stay within their
\* limit, and every change of a board is announced by a broadcast that reads
\* after it, for any number of spectators, versions and broadcasts, any queue
\* and any rate of subscriptions.
THEOREM LiveFeedAlwaysRight == Spec => []LiveFeedRight
<1>1. Init => FeedInv /\ AnnounceInv
  BY FeedStart, AnnounceStart DEF Init
<1>2. FeedInv /\ AnnounceInv /\ [Next]_tradingVars => (FeedInv /\ AnnounceInv)'
  <2>1. [Next]_tradingVars => [FeedHubNext]_feedHubVars /\ [AnnounceNext]_announceVars
    BY DEF Next, tradingVars, liveVars
  <2> QED BY <2>1, FeedStep, AnnounceStep
<1>3. FeedInv /\ AnnounceInv => LiveFeedRight
  BY FeedHolds DEF AnnounceInv, LiveFeedRight, LiveFeedSafe
<1> QED BY <1>1, <1>2, <1>3, PTL DEF Spec, tradingVars

=============================================================================
