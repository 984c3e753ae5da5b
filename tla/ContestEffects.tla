---------------------------- MODULE ContestEffects ----------------------------
(***************************************************************************)
(* What a contest's transitions do besides changing its status.            *)
(*                                                                         *)
(* pauses: the status, and the times that pausing and resuming move, under *)
(* an admin and a scheduler that acts on what it read earlier.             *)
(*                                                                         *)
(* effects: the side effects of starting and ending a contest, which run   *)
(* after the transition has committed, step by step, best effort, each in  *)
(* the process that made the transition, while the trading engine goes on  *)
(* writing the same rows from its memory.  A position uses one unit of     *)
(* QTY, a pending order reserves one.  The effects of a cancellation are   *)
(* in the package too, but no service reaches them.                        *)
(***************************************************************************)
EXTENDS Integers, FiniteSets, FiniteSetsExt

CONSTANTS EffectUsers,  \* the participants
          MaxLife,      \* bound on the clock of the pauses
          Duration,     \* the planned length of the contest
          Gains,        \* what closing a position may earn
          QtyTotal      \* qty_total of a participant

ASSUME EffectsAssumption ==
  Duration \in Nat /\ Gains \subseteq Int /\ QtyTotal \in Nat /\ IsFiniteSet(EffectUsers)

VARIABLES
  lifeNow,   \* the clock
  life,      \* the contest's row
  candidates \* the statuses the scheduler means to give it

pausesVars == <<lifeNow, life, candidates>>

VARIABLES
  stage,     \* closed, running or ended
  rows,      \* per user: the participant's row and its position and order
  engineMem, \* per user: the free QTY and the score the engine remembers
  effect,    \* which step of the start's and of the end's effects comes next
  inited,    \* the participants' rows will not be initialised any more
  engineOn,  \* the engine still takes the contest as running
  closing,   \* users whose position the engine found open and is closing
  scoresRead,\* the scores the ranking is computed from, of those it read
  traded,    \* users who traded before the rows were initialised
  unseen,    \* users whose trades came after the end, or whose score the
             \* ranking did not see in full
  unreturned \* users whose order the fallback cancelled

effectsVars == <<stage, rows, engineMem, effect, inited, engineOn, closing, scoresRead, traded,
                 unseen, unreturned>>
ceVars == <<pausesVars, effectsVars>>

(***************************************************************************)
(* pauses                                                                  *)
(***************************************************************************)

NotYet == -1

\* Registration opens and closes by the clock before the contest starts.
RegistrationOpensAt == 0
RegistrationDeadline == 0
StartsAt == 1

ValidTransitions ==
  [draft |-> {"scheduled", "cancelled"},
   scheduled |-> {"registration_open", "registration_closed", "cancelled"},
   registration_open |-> {"registration_closed", "cancelled"},
   registration_closed |-> {"running", "cancelled"},
   running |-> {"settling", "paused"},
   paused |-> {"running", "settling"},
   settling |-> {"completed"},
   completed |-> {}, cancelled |-> {}]
CanTransition(from, to) == to \in ValidTransitions[from]

PausesInit ==
  /\ lifeNow = 0
  /\ life = [status |-> "draft", endsAt |-> StartsAt + Duration, pausedAt |-> NotYet,
             paused |-> 0, endedAt |-> NotYet, auto |-> FALSE]
  /\ candidates = {}

\* The row is locked, the transition checked and the times written with it.
\* Resuming moves the end by the length of the pause; ending a paused
\* contest only counts it.
AfterTransition(to, auto) ==
  LET pause == IF life.status = "paused" /\ life.pausedAt # NotYet
               THEN lifeNow - life.pausedAt ELSE 0
  IN CASE to = "running" -> [life EXCEPT !.status = to, !.endsAt = @ + pause,
                                         !.paused = @ + pause, !.pausedAt = NotYet]
       [] to = "settling" -> [life EXCEPT !.status = to, !.endedAt = lifeNow, !.auto = auto,
                                          !.paused = @ + pause, !.pausedAt = NotYet]
       [] to = "paused" -> [life EXCEPT !.status = to, !.pausedAt = lifeNow]
       [] OTHER -> [life EXCEPT !.status = to]

\* Starting and resuming both ask for a quorum of real participants.
Transition(to, auto, quorum) ==
  /\ CanTransition(life.status, to)
  /\ to = "running" => quorum
  /\ life' = AfterTransition(to, auto)
  /\ UNCHANGED lifeNow

LifeTime ==
  /\ lifeNow < MaxLife
  /\ lifeNow' = lifeNow + 1
  /\ UNCHANGED <<life, candidates>>

\* What the admin service asks for.
HandlePublish == Transition("scheduled", FALSE, TRUE) /\ UNCHANGED candidates
CloseRegistration == Transition("registration_closed", FALSE, TRUE) /\ UNCHANGED candidates
HandlePause == Transition("paused", FALSE, TRUE) /\ UNCHANGED candidates
HandleEnd == Transition("settling", FALSE, TRUE) /\ UNCHANGED candidates

\* Starting and resuming ask the machine for the same status, and neither
\* looks at the present one: a start resumes, and a resume starts.
HandleStart(quorum) == Transition("running", FALSE, quorum) /\ UNCHANGED candidates
HandleResume(quorum) == HandleStart(quorum)

\* In its own transaction, under the same table of transitions; the money
\* it moves is in ContestFunds.
HandleCancel ==
  /\ CanTransition(life.status, "cancelled")
  /\ life' = [life EXCEPT !.status = "cancelled"]
  /\ UNCHANGED <<lifeNow, candidates>>

\* The settlement service finishes what is settling.
MarkCompleted ==
  /\ life.status = "settling"
  /\ life' = [life EXCEPT !.status = "completed"]
  /\ UNCHANGED <<lifeNow, candidates>>

\* What the clock asks for.
Due(to) ==
  CASE to = "running" -> life.status = "registration_closed" /\ StartsAt <= lifeNow
    [] to = "settling" -> life.status = "running" /\ life.endsAt <= lifeNow
    [] to = "registration_closed" -> /\ life.status \in {"scheduled", "registration_open"}
                                     /\ RegistrationDeadline <= lifeNow
    [] to = "registration_open" -> life.status = "scheduled" /\ RegistrationOpensAt <= lifeNow
    [] OTHER -> FALSE

\* FindContestsForAutoTransition reads; the transitions come later.
FindContestsForAutoTransition ==
  /\ candidates = {}
  /\ candidates' = {to \in DOMAIN ValidTransitions : Due(to)}
  /\ candidates' # {}
  /\ UNCHANGED <<lifeNow, life>>

\* Too few participants cancel the contest instead of starting it.  Closing
\* the registration of a contest whose start has passed goes on to start it.
\* A transition that is refused or fails is tried again, then given up.
ExecuteTransition(c, quorum) ==
  LET to == IF c = "running" /\ ~quorum THEN "cancelled" ELSE c
      chained == c = "registration_closed" /\ StartsAt <= lifeNow
  IN /\ c \in candidates
     /\ \/ /\ Transition(to, TRUE, quorum)
           /\ candidates' = (candidates \ {c}) \cup (IF chained THEN {"running"} ELSE {})
        \/ candidates' = candidates \ {c} /\ UNCHANGED <<lifeNow, life>>

PausesNext ==
  \/ LifeTime \/ FindContestsForAutoTransition
  \/ HandlePublish \/ CloseRegistration \/ HandlePause \/ HandleEnd \/ HandleCancel
  \/ MarkCompleted
  \/ \E quorum \in BOOLEAN : HandleStart(quorum) \/ HandleResume(quorum)
  \/ \E c \in candidates, quorum \in BOOLEAN : ExecuteTransition(c, quorum)

(***************************************************************************)
(* effects: the rows                                                       *)
(***************************************************************************)

NoRank == 0
FreshRow == [pos |-> "none", realized |-> 0, order |-> "none", avail |-> QtyTotal, score |-> 0,
             rank |-> NoRank]

NoScores == [u \in {} |-> 0]

EffectsInit ==
  /\ stage = "closed"
  /\ rows = [u \in EffectUsers |-> FreshRow]
  /\ engineMem = [u \in EffectUsers |-> [avail |-> QtyTotal, score |-> 0]]
  /\ effect = [start |-> "none", end |-> "none"]
  /\ inited = FALSE /\ engineOn = FALSE
  /\ closing = {} /\ scoresRead = NoScores
  /\ traded = {} /\ unseen = {} /\ unreturned = {}

\* A variant of OpenPositions: without WHERE closed_at IS NULL.
EveryPosition(r) == {u \in EffectUsers : r[u].pos # "none"}

\* WHERE closed_at IS NULL.
OpenPositions(r) == {u \in EffectUsers : r[u].pos = "open"}
PendingOrders(r) == {u \in EffectUsers : r[u].order = "pending"}

\* Each position is closed at a price of its own, and what it earned is
\* added to the position, to the participant and to the free QTY.  The events
\* of the closing go out on the topic of close requests, where the engine
\* finds the positions closed and leaves them.
CloseAt(r, open, gain) ==
  [u \in EffectUsers |->
     IF u \in open
     THEN [r[u] EXCEPT !.pos = "closed", !.realized = @ + gain[u],
                       !.score = @ + gain[u], !.avail = @ + 1]
     ELSE r[u]]

\* All orders are cancelled, and those in back return their QTY.
CancelOrders(r, back) ==
  [u \in EffectUsers |->
     IF u \in PendingOrders(r)
     THEN [r[u] EXCEPT !.order = "cancelled", !.avail = IF u \in back THEN @ + 1 ELSE @]
     ELSE r[u]]

EffectStep(of, at, next) == effect[of] = at /\ effect' = [effect EXCEPT ![of] = next]

(***************************************************************************)
(* effects: the trading engine                                             *)
(***************************************************************************)

\* The engine writes what it remembers: qty_available and total_score are absolute.
Remember(u, avail, score) == engineMem' = [engineMem EXCEPT ![u] = [avail |-> avail, score |-> score]]

Traded(u) ==
  /\ traded' = IF inited THEN traded ELSE traded \cup {u}
  /\ unseen' = IF stage = "running" THEN unseen ELSE unseen \cup {u}

\* A market order that finds no position opens one.
InsertPosition(u) ==
  LET left == engineMem[u].avail - 1
  IN /\ engineOn /\ rows[u].pos = "none" /\ left >= 0
     /\ rows' = [rows EXCEPT ![u].pos = "open", ![u].avail = left]
     /\ Remember(u, left, engineMem[u].score)
     /\ Traded(u)
     /\ UNCHANGED <<stage, effect, inited, engineOn, closing, scoresRead, unreturned>>

PlaceOrder(u) ==
  LET left == engineMem[u].avail - 1
  IN /\ engineOn /\ rows[u].order = "none" /\ left >= 0
     /\ rows' = [rows EXCEPT ![u].order = "pending", ![u].avail = left]
     /\ Remember(u, left, engineMem[u].score)
     /\ Traded(u)
     /\ UNCHANGED <<stage, effect, inited, engineOn, closing, scoresRead, unreturned>>

\* A request to close reads the position outside the transaction.
FindPosition(u) ==
  /\ engineOn /\ rows[u].pos = "open" /\ u \notin closing
  /\ closing' = closing \cup {u}
  /\ UNCHANGED <<stage, rows, engineMem, effect, inited, engineOn, scoresRead, traded, unseen,
                 unreturned>>

\* Its transaction writes without looking at closed_at; it may also fail.
ClosePosition(u, gain) ==
  LET avail == engineMem[u].avail + 1
      score == engineMem[u].score + gain
  IN /\ u \in closing
     /\ closing' = closing \ {u}
     /\ \/ /\ rows' = [rows EXCEPT ![u].pos = "closed", ![u].realized = gain,
                                   ![u].score = score, ![u].avail = avail]
           /\ Remember(u, avail, score)
           /\ Traded(u)
        \/ UNCHANGED <<rows, engineMem, traded, unseen>>
     /\ UNCHANGED <<stage, effect, inited, engineOn, scoresRead, unreturned>>

\* The cached row of the contest expires, and the requests that saw it are done.
EngineLearnsEnd ==
  /\ engineOn /\ stage # "running"
  /\ engineOn' = FALSE
  /\ UNCHANGED <<stage, rows, engineMem, effect, inited, closing, scoresRead, traded, unseen,
                 unreturned>>

(***************************************************************************)
(* effects: start                                                          *)
(***************************************************************************)

EngineUnchanged == UNCHANGED <<stage, engineMem, engineOn, closing, traded>>
EndUnchanged == UNCHANGED <<scoresRead, unseen, unreturned>>

Start ==
  /\ stage = "closed"
  /\ stage' = "running" /\ engineOn' = TRUE
  /\ effect' = [effect EXCEPT !.start = "init"]
  /\ UNCHANGED <<rows, engineMem, inited, closing, traded>> /\ EndUnchanged

\* One transaction; positions and orders it finds are cleared, unscored.
InitializeParticipantStates ==
  /\ \/ /\ EffectStep("start", "init", "lock")
        /\ inited' = TRUE
        /\ rows' = [u \in EffectUsers |->
                      [rows[u] EXCEPT !.avail = QtyTotal, !.score = 0, !.rank = NoRank,
                                      !.pos = IF @ = "open" THEN "closed" ELSE @,
                                      !.order = IF @ = "pending" THEN "cancelled" ELSE @]]
     \/ EffectStep("start", "init", "fallbackInit") /\ UNCHANGED <<rows, inited>>
  /\ EngineUnchanged /\ EndUnchanged

\* The events that follow the lock are best effort.
LockPrizes ==
  /\ EffectStep("start", "lock", "none") \/ EffectStep("start", "lock", "fallbackInit")
  /\ UNCHANGED <<rows, inited>> /\ EngineUnchanged /\ EndUnchanged

\* The fallback touches only rows without QTY, and every join gives some.
OnRunningFallback ==
  /\ EffectStep("start", "fallbackInit", "none")
  /\ inited' = TRUE
  /\ UNCHANGED rows /\ EngineUnchanged /\ EndUnchanged

\* The process dies between two steps; nothing takes the rest up.
StartLost ==
  /\ effect.start # "none"
  /\ effect' = [effect EXCEPT !.start = "none"]
  /\ inited' = TRUE
  /\ UNCHANGED rows /\ EngineUnchanged /\ EndUnchanged

(***************************************************************************)
(* effects: end                                                            *)
(***************************************************************************)

\* The start's effects may still be running, in another process.
EndTrading ==
  /\ stage = "running"
  /\ stage' = "ended"
  /\ effect' = [effect EXCEPT !.end = "cancelOrders"]
  /\ UNCHANGED <<rows, engineMem, inited, engineOn, closing, traded>> /\ EndUnchanged

\* The QTY given back is that of the orders a query found before the update:
\* an order that comes in between, after the end, is cancelled without it.
CancelAllPendingOrders ==
  /\ EffectStep("end", "cancelOrders", "forceClose")
  /\ \/ \E late \in SUBSET unseen : rows' = CancelOrders(rows, EffectUsers \ late)
     \/ UNCHANGED rows
  /\ UNCHANGED inited /\ EngineUnchanged /\ EndUnchanged

CloseOpenPositions == \E gain \in [EffectUsers -> Gains] : rows' = CloseAt(rows, OpenPositions(rows), gain)

ForceCloseAllPositions ==
  /\ \/ EffectStep("end", "forceClose", "readRanks") /\ CloseOpenPositions
     \/ EffectStep("end", "forceClose", "fallbackClose") /\ UNCHANGED rows
  /\ UNCHANGED inited /\ EngineUnchanged /\ EndUnchanged

\* A replica may be behind the closing, and the rows, best first, may be cut
\* short without an error.
ReadScores ==
  /\ \/ \E behind, read \in SUBSET EffectUsers :
          LET shown == [u \in EffectUsers |-> IF u \in behind THEN 0 ELSE rows[u].score]
          IN /\ \A u \in read, v \in EffectUsers \ read : shown[v] <= shown[u]
             /\ EffectStep("end", "readRanks", "writeRanks")
             /\ scoresRead' = [u \in read |-> shown[u]]
             /\ unseen' = unseen \cup {u \in behind : rows[u].score # 0}
     \/ EffectStep("end", "readRanks", "fallbackClose") /\ UNCHANGED <<scoresRead, unseen>>
  /\ UNCHANGED <<rows, inited, unreturned>> /\ EngineUnchanged

\* Sorted by score, numbered, and a tie takes the number of the one before.
RankIn(scores, u) == 1 + Cardinality({v \in DOMAIN scores : scores[v] > scores[u]})

\* The score that was read is written back with the rank.
CalculateFinalRankings ==
  /\ \/ /\ EffectStep("end", "writeRanks", "none")
        /\ rows' = [u \in EffectUsers |->
                      IF u \in DOMAIN scoresRead
                      THEN [rows[u] EXCEPT !.rank = RankIn(scoresRead, u), !.score = scoresRead[u]]
                      ELSE rows[u]]
     \/ EffectStep("end", "writeRanks", "fallbackClose") /\ UNCHANGED rows
  /\ scoresRead' = NoScores
  /\ UNCHANGED <<inited, unseen, unreturned>> /\ EngineUnchanged

CloseAllPositions ==
  /\ EffectStep("end", "fallbackClose", "fallbackCancel")
  /\ CloseOpenPositions \/ UNCHANGED rows
  /\ UNCHANGED inited /\ EngineUnchanged /\ EndUnchanged

\* The fallback gives no QTY back.
CancelPendingOrders ==
  /\ EffectStep("end", "fallbackCancel", "none")
  /\ \/ rows' = CancelOrders(rows, {}) /\ unreturned' = unreturned \cup PendingOrders(rows)
     \/ UNCHANGED <<rows, unreturned>>
  /\ UNCHANGED <<inited, scoresRead, unseen>> /\ EngineUnchanged

EndLost ==
  /\ effect.end # "none"
  /\ effect' = [effect EXCEPT !.end = "none"]
  /\ scoresRead' = NoScores
  /\ UNCHANGED <<rows, inited, unseen, unreturned>> /\ EngineUnchanged

EffectsNext ==
  \/ Start \/ InitializeParticipantStates \/ LockPrizes \/ OnRunningFallback \/ StartLost
  \/ EndTrading \/ CancelAllPendingOrders \/ ForceCloseAllPositions \/ CalculateFinalRankings
  \/ ReadScores \/ CloseAllPositions \/ CancelPendingOrders \/ EndLost
  \/ EngineLearnsEnd
  \/ \E u \in EffectUsers :
       \/ InsertPosition(u) \/ PlaceOrder(u) \/ FindPosition(u)
       \/ \E g \in Gains : ClosePosition(u, g)

(***************************************************************************)
(* Properties.                                                             *)
(***************************************************************************)

\* Time spent paused is given back: a contest that runs ends its planned
\* length plus its pauses after its start, and one the scheduler ended was
\* not ended before that, even if it was paused after the scheduler chose it.
PauseTimeReturned ==
  /\ life.status = "running" => life.endsAt = StartsAt + Duration + life.paused
  /\ (life.status = "paused") <=> (life.pausedAt # NotYet)
  /\ life.auto => life.endedAt - life.paused >= StartsAt + Duration

\* Users whose trades all came between the initialisation and the end, and
\* whose score the ranking saw.
InTime == EffectUsers \ (traded \cup unseen)

\* Whatever steps fail and fall back, a participant's score is what the
\* positions earned, once each.
ScoresAreRealized ==
  \A u \in InTime :
    rows[u].score = rows[u].realized /\ rows[u].realized \in Gains \cup {0}

\* Every unit of QTY is free, in an open position or reserved by a pending
\* order, whoever closed or cancelled: engine, handler or fallback.
QtyReturned ==
  \A u \in InTime \ unreturned :
    rows[u].avail = QtyTotal - Cardinality({u} \cap OpenPositions(rows))
                             - Cardinality({u} \cap PendingOrders(rows))

\* Final ranks follow the scores beside them, ties sharing a rank, and a
\* rank is missing only below every rank given.
RanksFollowScores ==
  unseen = {} =>
    \A u, v \in EffectUsers : rows[u].rank # NoRank =>
      IF rows[v].rank # NoRank
      THEN (rows[u].rank < rows[v].rank) = (rows[u].score > rows[v].score)
      ELSE traded = {} => rows[v].score <= rows[u].score

\* The four above together.
EffectsHold == PauseTimeReturned /\ ScoresAreRealized /\ QtyReturned /\ RanksFollowScores
=============================================================================
