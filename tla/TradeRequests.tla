---------------------------- MODULE TradeRequests ----------------------------
(***************************************************************************)
(* What a player asks of the trading gateway: orders, cancellations,       *)
(* closes and new levels, and the ticket that opens a WebSocket.           *)
(*                                                                         *)
(* requests: an order carries an identity the client chooses, so that a    *)
(* retry is the same order; without one the gateway draws a new identity,  *)
(* which is one no claim holds yet.  The identity is claimed in a table    *)
(* before the order is published, and a retry publishes again under the    *)
(* same identity.  The other requests are about an order or a position     *)
(* that exists.  Every check but the claim reads a replica of the database *)
(* or, where none is fit, the primary, one query at a time.  A gateway     *)
(* deployed before the claims' table exists claims nothing; it is left out.*)
(*                                                                         *)
(* wsticket: a ticket is put in Redis for one session and one contest, and *)
(* taken out of it by the connection that presents it.  A cookie, of which *)
(* the browser has only one, binds it to the browser.                      *)
(*                                                                         *)
(* Side, type, quantity and price checks depend on the request alone or on *)
(* a row that does not change, and only end a request early.               *)
(***************************************************************************)
EXTENDS Integers, FiniteSets

CONSTANTS Traders,       \* users
          TradeContests,     \* contests they may trade in
          Handlers,     \* requests in progress
          OrderIds,     \* identities the clients use
          MaxAsked,      \* bound on the requests
          MaxContestChanges, \* bound on the contests joined or stopped
          WSTickets,     \* tickets of one user, one session and one browser
          MaxOpenings   \* bound on the attempts to open a socket

NoOne == "nobody"

\* "No ticket" is not a ticket.
ASSUME TicketsNamed == NoOne \notin WSTickets

Row(user, contest, status) == [user |-> user, contest |-> contest, status |-> status]
Unclaimed == Row(NoOne, 0, "none")

VARIABLES
  claim,     \* order_client_submissions: the owner of each identity
  primary,   \* the primary: rows, contests that run, participants
  replica,   \* what a replica that lags behind has of it
  request,   \* what each handler is doing
  asked,     \* how many requests there were
  topics     \* the records published: what, which identity, for whom

databaseVars == <<claim, primary, replica>>
requestVars == <<databaseVars, request, asked, topics>>

VARIABLES
  wsTicket,  \* each ticket: its contest, where it is, whether the browser has it
  cookie,    \* the ticket the browser's binding cookie belongs to
  session,   \* the session they were issued to is alive
  opening,   \* each attempt to open a socket
  opened     \* the attempts that became sockets

wsTicketVars == <<wsTicket, cookie, session, opening, opened>>
tradeVars == <<requestVars, wsTicketVars>>

NoRequest == [kind |-> "none", user |-> NoOne, contest |-> 0, id |-> 0, at |-> "idle"]

\* A row stands for an order and for the position it opens.
RequestsInit ==
  /\ claim = [i \in OrderIds |-> Unclaimed]
  /\ primary = [row |-> [i \in OrderIds |-> Unclaimed], running |-> TradeContests, joined |-> {}]
  /\ replica = primary
  /\ request = [h \in Handlers |-> NoRequest]
  /\ asked = 0 /\ topics = {}

NoOpening == [ticket |-> NoOne, contest |-> 0, binding |-> NoOne, at |-> "none"]

WSTicketInit ==
  /\ wsTicket = [t \in WSTickets |-> [contest |-> 0, at |-> "none", known |-> FALSE]]
  /\ cookie = NoOne /\ session = TRUE
  /\ opening = [n \in 1 .. MaxOpenings |-> NoOpening]
  /\ opened = {}

(***************************************************************************)
(* The checks.                                                             *)
(***************************************************************************)

Begin(h, kind, u, c, i) ==
  /\ request[h] = NoRequest /\ asked < MaxAsked
  /\ request' = [request EXCEPT ![h] = [kind |-> kind, user |-> u, contest |-> c, id |-> i, at |-> "running"]]
  /\ asked' = asked + 1
  /\ UNCHANGED <<databaseVars, topics>>
GoOn(h, where) == request' = [request EXCEPT ![h].at = where]
End(h) == request' = [request EXCEPT ![h] = NoRequest]

\* Each query goes to a replica that is healthy and lags little, or else to
\* the primary.
ReadCopies == {replica, primary}

Checked(h, holds, where) ==
  /\ IF holds THEN GoOn(h, where) ELSE End(h)
  /\ UNCHANGED <<databaseVars, asked, topics>>

HandlePlaceOrder(h, u, c, i) == Begin(h, "order", u, c, i)

\* Over a socket, whose participation was checked when it opened; it may have
\* outlasted the contest since.
HandleOrderRequest(h, u, c, i) ==
  /\ \E copy \in ReadCopies : <<u, c>> \in copy.joined
  /\ Begin(h, "socket", u, c, i)

\* The row of the order or position: only the owner, only in the right
\* status, as far as the copy that was read knows.
Ask(h, kind, u, i, statuses) ==
  \E copy \in ReadCopies :
    /\ copy.row[i].user = u /\ copy.row[i].status \in statuses
    /\ Begin(h, kind, u, copy.row[i].contest, i)

\* A limit or stop order the engine has accepted is "open", and refused here;
\* one that is cancelled is confirmed again without a record.
HandleCancelOrder(h, u, i) == Ask(h, "cancel", u, i, {"pending"})
HandleClosePosition(h, u, i) == Ask(h, "close", u, i, {"filled"})
HandleModifyTPSL(h, u, i) == Ask(h, "tpsl", u, i, {"filled"})

\* An order over HTTP is also refused when the clock is past ends_at.
ValidateContestRunning(h) ==
  LET r == request[h]
  IN /\ r.at = "running"
     /\ \E copy \in ReadCopies, late \in {FALSE, r.kind = "order"} :
          Checked(h, r.contest \in copy.running /\ ~late,
                  CASE r.kind = "order" -> "participant"
                    [] r.kind = "socket" -> "claim"
                    [] OTHER -> "publish")

CheckParticipation(h) ==
  /\ request[h].at = "participant"
  /\ \E copy \in ReadCopies : Checked(h, <<request[h].user, request[h].contest>> \in copy.joined, "claim")

(***************************************************************************)
(* The claim and the record.                                               *)
(***************************************************************************)

\* INSERT ... ON CONFLICT DO NOTHING.
ClaimClientOrderID(h) ==
  LET r == request[h]
  IN /\ r.at = "claim"
     /\ claim' = IF claim[r.id] = Unclaimed
                 THEN [claim EXCEPT ![r.id] = Row(r.user, r.contest, "claimed")]
                 ELSE claim
     /\ GoOn(h, "claimed")
     /\ UNCHANGED <<primary, replica, asked, topics>>

AnyClaim(h) == claim[request[h].id] # Unclaimed

\* The row is read back, and must be of this user and this contest.
OwnClaim(h) == claim[request[h].id] = Row(request[h].user, request[h].contest, "claimed")

ReadClaim(h) ==
  /\ request[h].at = "claimed"
  /\ Checked(h, OwnClaim(h), "publish")

\* ProduceSync.  When it fails, or there is no producer, the record may be in
\* the topic or not.
Publish(h) ==
  LET r == request[h]
      record == [kind |-> IF r.kind = "socket" THEN "order" ELSE r.kind,
                 id |-> r.id, user |-> r.user, contest |-> r.contest]
  IN /\ r.at = "publish"
     /\ topics' \in {topics, topics \cup {record}}
     /\ End(h)
     /\ UNCHANGED <<databaseVars, asked>>

\* A query that fails, or the process stopping, ends a request anywhere.
RequestFails(h) ==
  /\ request[h] # NoRequest
  /\ End(h)
  /\ UNCHANGED <<databaseVars, asked, topics>>

(***************************************************************************)
(* The engine, the database and the contests, as the gateway sees them.    *)
(***************************************************************************)

Outside == UNCHANGED <<claim, request, asked, topics>>

EngineTakesOrder(i) ==
  /\ primary.row[i].status = "none"
  /\ \E r \in topics, s \in {"pending", "filled"} :
       /\ r.kind = "order" /\ r.id = i
       /\ primary' = [primary EXCEPT !.row[i] = Row(r.user, r.contest, s)]
  /\ UNCHANGED replica /\ Outside

EngineMovesOrder(i) ==
  /\ \/ primary.row[i].status = "pending" /\ \E s \in {"open", "filled", "over"} : primary' = [primary EXCEPT !.row[i].status = s]
     \/ primary.row[i].status = "open" /\ \E s \in {"filled", "over"} : primary' = [primary EXCEPT !.row[i].status = s]
     \/ primary.row[i].status = "filled" /\ primary' = [primary EXCEPT !.row[i].status = "over"]
  /\ UNCHANGED replica /\ Outside

Changes == Cardinality(primary.joined) + Cardinality(TradeContests \ primary.running)

\* Participants are never deleted.
JoinContest(u, c) ==
  /\ <<u, c>> \notin primary.joined /\ Changes < MaxContestChanges
  /\ primary' = [primary EXCEPT !.joined = @ \cup {<<u, c>>}]
  /\ UNCHANGED replica /\ Outside

ContestStops(c) ==
  /\ c \in primary.running /\ Changes < MaxContestChanges
  /\ primary' = [primary EXCEPT !.running = @ \ {c}]
  /\ UNCHANGED replica /\ Outside

Replicated ==
  /\ replica # primary
  /\ replica' = primary
  /\ UNCHANGED primary /\ Outside

RequestsNext ==
  \/ \E h \in Handlers :
       \/ \E u \in Traders, i \in OrderIds :
            \/ \E c \in TradeContests : HandlePlaceOrder(h, u, c, i) \/ HandleOrderRequest(h, u, c, i)
            \/ HandleCancelOrder(h, u, i)
            \/ HandleClosePosition(h, u, i) \/ HandleModifyTPSL(h, u, i)
       \/ ValidateContestRunning(h) \/ CheckParticipation(h)
       \/ ClaimClientOrderID(h) \/ ReadClaim(h) \/ Publish(h) \/ RequestFails(h)
  \/ \E i \in OrderIds : EngineTakesOrder(i) \/ EngineMovesOrder(i)
  \/ \E u \in Traders, c \in TradeContests : JoinContest(u, c)
  \/ \E c \in TradeContests : ContestStops(c)
  \/ Replicated

\* All records of one identity are of one user and one contest, whoever
\* retried what and however the claims interleaved; the user takes part in
\* that contest; and a record about an order was preceded by the order.
RequestsBacked ==
  /\ \A r, s \in topics : r.id = s.id => r.user = s.user /\ r.contest = s.contest
  /\ \A r \in topics : <<r.user, r.contest>> \in primary.joined /\ [r EXCEPT !.kind = "order"] \in topics

(***************************************************************************)
(* The ticket of a WebSocket.                                              *)
(***************************************************************************)

\* The session is looked up, the ticket drawn, and put in Redis after that.
IssueWSTicket(t, k) ==
  /\ wsTicket[t].at = "none" /\ session
  /\ wsTicket' = [wsTicket EXCEPT ![t] = [contest |-> k, at |-> "drawn", known |-> FALSE]]
  /\ UNCHANGED <<cookie, session, opening, opened>>

Put(t) ==
  /\ wsTicket[t].at = "drawn"
  /\ wsTicket' = [wsTicket EXCEPT ![t].at = "stored"]
  /\ UNCHANGED <<cookie, session, opening, opened>>

\* The answers set the browser's one cookie in the order they arrive; one may
\* be lost, or say that Redis failed although it has the ticket.
ReceiveTicket(t) ==
  /\ wsTicket[t].at \in {"stored", "gone"} /\ ~wsTicket[t].known
  /\ cookie' = t
  /\ wsTicket' = [wsTicket EXCEPT ![t].known = TRUE]
  /\ UNCHANGED <<session, opening, opened>>

\* Attempts are numbered in the order they begin.
BeginsAttempt(n) == opening[n].at = "none" /\ \A m \in 1 .. n - 1 : opening[m].at # "none"

\* The attempt presents a ticket, the cookie of the moment, and the contest
\* the ticket was issued for or another; or an access token and no ticket.
HandleWebSocket(n, t, k) ==
  /\ BeginsAttempt(n) /\ wsTicket[t].known
  /\ opening' = [opening EXCEPT ![n] = [ticket |-> t, contest |-> k, binding |-> cookie, at |-> "take"]]
  /\ UNCHANGED <<wsTicket, cookie, session, opened>>

HandleWithToken(n, k) ==
  /\ BeginsAttempt(n)
  /\ opening' = [opening EXCEPT ![n] = [NoOpening EXCEPT !.contest = k, !.at = "session"]]
  /\ UNCHANGED <<wsTicket, cookie, session, opened>>

OpeningAt(n, where) == opening' = [opening EXCEPT ![n].at = where]

\* The answer to an attempt that presented a ticket clears the cookie, even
\* the cookie of a later ticket.
AnswerOpening(n, where) ==
  /\ OpeningAt(n, where)
  /\ cookie' \in IF opening[n].ticket = NoOne THEN {cookie} ELSE {NoOne}

\* GETDEL: the ticket is gone whatever the checks say.  Without a cookie it is
\* not asked for; when Redis fails, it may be gone or not.
Consume(n) ==
  LET o == opening[n]
      taken == [wsTicket EXCEPT ![o.ticket].at = "gone"]
  IN /\ o.at = "take"
     /\ \/ /\ o.binding # NoOne /\ wsTicket[o.ticket].at = "stored"
           /\ wsTicket' = taken
           /\ OpeningAt(n, "check") /\ UNCHANGED cookie
        \/ /\ wsTicket' \in {wsTicket} \cup IF o.binding = NoOne THEN {} ELSE {taken}
           /\ AnswerOpening(n, "refused")
     /\ UNCHANGED <<session, opened>>

\* Binding and contest as recorded; the ticket may have expired meanwhile.
CheckRecord(n) ==
  LET o == opening[n]
  IN /\ o.at = "check"
     /\ \/ o.binding = o.ticket /\ wsTicket[o.ticket].contest = o.contest
           /\ OpeningAt(n, "session") /\ UNCHANGED cookie
        \/ AnswerOpening(n, "refused")
     /\ UNCHANGED <<wsTicket, session, opened>>

\* The session once more, then the contest and the participation, which are
\* the other part's; the socket that opens stays open when the session ends.
AuthenticateWebSocketRequest(n) ==
  /\ opening[n].at = "session"
  /\ IF session THEN OpeningAt(n, "enter") /\ UNCHANGED cookie ELSE AnswerOpening(n, "refused")
  /\ UNCHANGED <<wsTicket, session, opened>>

EnterContest(n) ==
  /\ opening[n].at = "enter"
  /\ \/ AnswerOpening(n, "open") /\ opened' = opened \cup {n}
     \/ AnswerOpening(n, "refused") /\ UNCHANGED opened
  /\ UNCHANGED <<wsTicket, session>>

ExpireTicket(t) ==
  /\ wsTicket[t].at = "stored"
  /\ wsTicket' = [wsTicket EXCEPT ![t].at = "gone"]
  /\ UNCHANGED <<cookie, session, opening, opened>>

\* The cookie lives as long as a ticket.
ExpireCookie ==
  /\ cookie # NoOne
  /\ cookie' = NoOne
  /\ UNCHANGED <<wsTicket, session, opening, opened>>

EndSession ==
  /\ session
  /\ session' = FALSE
  /\ UNCHANGED <<wsTicket, cookie, opening, opened>>

WSTicketNext ==
  \/ EndSession \/ ExpireCookie
  \/ \E t \in WSTickets, k \in TradeContests : IssueWSTicket(t, k)
  \/ \E t \in WSTickets : Put(t) \/ ReceiveTicket(t) \/ ExpireTicket(t)
  \/ \E n \in 1 .. MaxOpenings :
       \/ \E t \in WSTickets, k \in TradeContests : HandleWebSocket(n, t, k)
       \/ \E k \in TradeContests : HandleWithToken(n, k)
       \/ Consume(n) \/ CheckRecord(n) \/ AuthenticateWebSocketRequest(n) \/ EnterContest(n)

\* One ticket opens at most one socket, in its own contest and for the
\* browser it was bound to.
TicketOpensOnce ==
  /\ \A n, m \in 1 .. MaxOpenings :
       LET past == {"check", "session", "enter", "open"}
       IN n # m /\ opening[n].ticket = opening[m].ticket /\ opening[n].ticket # NoOne
            => ~(opening[n].at \in past /\ opening[m].at \in past)
  /\ \A n \in opened :
       LET o == opening[n]
       IN o.ticket # NoOne => /\ o.binding = o.ticket /\ wsTicket[o.ticket].contest = o.contest
                              /\ wsTicket[o.ticket].at = "gone"

\* What the gateway promises about requests and tickets.
TradeRequestsSafe == RequestsBacked /\ TicketOpensOnce
=============================================================================
