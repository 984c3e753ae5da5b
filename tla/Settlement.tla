----------------------------- MODULE Settlement -----------------------------
(***************************************************************************)
(* apps/settlement-service: how one ended contest is settled.  Several     *)
(* instances of the service race for a PostgreSQL advisory lock; the       *)
(* holder closes positions, ranks, credits the prizes one transaction at a *)
(* time and completes the contest, retrying after errors.  The stuck       *)
(* detector of every instance restarts what seems to hang.  The leaderboard*)
(* worker projects final ranks, and rewrites scores, at the same time      *)
(* (apps/leaderboard-worker/server/finalize.go), and an admin may          *)
(* disqualify participants in between.                                     *)
(*                                                                         *)
(* One variable per table or in-memory structure; a step is one committed  *)
(* transaction of the code.                                                *)
(***************************************************************************)
EXTENDS PrizeDistribution, ContestEconomics

CONSTANTS Users,          \* the participants of the contest
          Instances,      \* the instances of settlement-service
          MaxRetries,     \* config.MaxRetries
          EntryFee,       \* entry_fee_cents
          StoredPool,     \* prize_pool_net_cents accumulated by the joins
          InitialActive,  \* the sets of participants still active when it ends
          InitialScores,  \* the total scores the contest may end with
          ClosingScores,  \* the scores a user may have once positions close
          Started,        \* the users with has_started_trading
          Disqualifiable, \* the users an admin may disqualify
          Triggers,       \* bound: Kafka deliveries and admin requests
          Disturbances    \* bound: disturbances, disqualifications and projection runs

ASSUME ParticipantsFinite == IsFiniteSet(Users) /\ InitialActive \subseteq SUBSET Users

ASSUME AmountsTyped == EntryFee \in Nat /\ StoredPool \in Nat

ASSUME ScoresTyped == InitialScores \subseteq [Users -> Int] /\ ClosingScores \subseteq Int

ASSUME RetriesTyped == MaxRetries \in Nat

VARIABLES
    status,    \* contests.status
    active,    \* contest_participants with lifecycle_status ACTIVE
    score,     \* contest_participants.total_score
    finalRank, \* contest_participants.final_rank, 0 for NULL
    exposed,   \* users with open positions or pending orders
    prizeNet,  \* contests.prize_pool_net_cents
    record,    \* the contest_settlements row
    prizeRow,  \* prize_distributions.status of a user
    ledger,    \* prize credits: idempotency key finalization:contest:user:rank
    refunded,  \* users with a ledger row of key refund:contest:user
    unpaid,    \* winners whose last credit failed (failedPrizes of the event)
    points,    \* number of T-Point contributions a user got
    snapshot,  \* the immutable finish snapshot exists
    worker,    \* the settlement goroutine of an instance
    lock,      \* the instance whose pinned connection holds the advisory lock
    leaked,    \* the instance with an idle pooled connection still holding it
    suspect,   \* instances whose detector has read a stuck row
    projection,\* contest_finalization_state and the worker that advances it
    triggers, disturbances,
    allocs     \* history: every allocation calculated so far

contestVars == <<status, active, score, finalRank, exposed, prizeNet, snapshot>>
moneyVars   == <<prizeRow, ledger, refunded, unpaid, points, allocs>>
lockVars    == <<lock, leaked>>
vars == <<contestVars, moneyVars, lockVars, record, worker, suspect, projection,
          triggers, disturbances>>

-----------------------------------------------------------------------------

Nobody == "nobody"

ASSUME InstancesNamed == Nobody \notin Instances

\* A goroutine that does not exist.
Idle == [pc |-> "idle", attempt |-> 0, pool |-> 0, ranking |-> <<>>,
         prizes |-> <<>>, orphan |-> FALSE]

\* The steps of settleContestAttempt, in order.
Attempting == {"attempt", "recorded", "refunding", "refunded", "opened", "closing",
               "ranking", "writing", "crediting", "points", "finalizing",
               "cancelling"}

NoRecord == [status |-> "none", attempts |-> 0, stale |-> FALSE]

NoProjection == [pc |-> "idle", scores |-> <<>>, payouts |-> "none",
                 ranks |-> FALSE, done |-> FALSE]

\* updated_at is set by a trigger on every UPDATE of the row.
Touched(r) == [r EXCEPT !.stale = FALSE]

InRecord(st) == record' = [record EXCEPT !.status = st, !.stale = FALSE]

Goto(i, pc) == worker' = [worker EXCEPT ![i].pc = pc]

\* The deferred unlock and activeSettlements.Delete at the end of the goroutine.
Done(i) ==
    /\ worker' = [worker EXCEPT ![i] = Idle]
    /\ lock' = IF lock = i THEN Nobody ELSE lock
    /\ UNCHANGED leaked

Init ==
    /\ status \in {"settling", "cancelled"}
    /\ active \in InitialActive
    /\ score \in InitialScores
    /\ finalRank = [u \in Users |-> 0]
    /\ exposed \in SUBSET (Started \intersect active)
    /\ prizeNet = StoredPool
    /\ record = NoRecord
    /\ prizeRow = [u \in Users |-> "none"]
    /\ ledger = {} /\ refunded = {} /\ unpaid = {} /\ allocs = {}
    /\ points = [u \in Users |-> 0]
    /\ snapshot = FALSE
    /\ worker = [i \in Instances |-> Idle]
    /\ lock = Nobody /\ leaked = Nobody
    /\ suspect = {}
    /\ projection = NoProjection
    /\ triggers = 0 /\ disturbances = 0

-----------------------------------------------------------------------------
(* Starting a settlement: app.go.                                          *)

\* tryStartSettlement: activeSettlements admits one goroutine per instance.
TryStart(i) ==
    worker' = IF worker[i].pc = "idle"
              THEN [worker EXCEPT ![i].pc = "queued"] ELSE worker

\* consumeContestStateEvents and consumeSettlementRequests: the offset is
\* committed once the goroutine is launched, so a delivery is not repeated
\* after a crash; handleTriggerSettlement looks at no status either.
Trigger(i) ==
    /\ triggers < Triggers
    /\ triggers' = triggers + 1
    /\ TryStart(i)
    /\ UNCHANGED <<contestVars, moneyVars, lockVars, record, suspect, projection, disturbances>>

\* Mutant: the result of pg_try_advisory_lock is not looked at.
AcquireUnasked(i) ==
    /\ worker[i].pc = "queued"
    /\ lock' = i
    /\ worker' = [worker EXCEPT ![i].pc = "attempt", ![i].attempt = 1]
    /\ UNCHANGED <<contestVars, moneyVars, leaked, record, suspect, projection,
                   triggers, disturbances>>

\* SettleContestWithRetry: pg_try_advisory_lock on a pinned connection.  A
\* lock that an expired goroutine left on a pooled connection blocks everyone
\* who does not happen to pin that very connection.
AcquireLock(i) ==
    /\ worker[i].pc = "queued"
    /\ lock = Nobody
    /\ leaked \in {Nobody, i}
    /\ lock' = i
    /\ worker' = [worker EXCEPT ![i].pc = "attempt", ![i].attempt = 1]
    /\ UNCHANGED <<contestVars, moneyVars, leaked, record, suspect, projection,
                   triggers, disturbances>>

LockBusy(i) ==
    /\ worker[i].pc = "queued"
    /\ lock # Nobody \/ leaked # Nobody
    /\ worker' = [worker EXCEPT ![i] = Idle]
    /\ UNCHANGED <<contestVars, moneyVars, lockVars, record, suspect, projection,
                   triggers, disturbances>>

-----------------------------------------------------------------------------
(* One attempt: settleContestAttempt.                                      *)

\* getSettlementRecord: the row is read, or inserted as pending.
GetSettlementRecord(i) ==
    /\ worker[i].pc = "attempt"
    /\ record' = IF record.status = "none" THEN [NoRecord EXCEPT !.status = "pending"]
                 ELSE record
    /\ IF record.status = "completed" THEN Done(i)
       ELSE /\ worker' = [worker EXCEPT ![i].pc = "recorded", ![i].pool = prizeNet]
            /\ UNCHANGED lockVars
    /\ UNCHANGED <<contestVars, moneyVars, suspect, projection, triggers, disturbances>>

Begin == record' = [status |-> "in_progress", attempts |-> record.attempts + 1,
                    stale |-> FALSE]

\* Nobody left: the settlement is completed and the contest then cancelled.
StartEmpty(i) ==
    /\ worker[i].pc = "recorded" /\ active = {}
    /\ InRecord("completed")
    /\ Goto(i, "cancelling")
    /\ UNCHANGED <<contestVars, moneyVars, lockVars, suspect, projection, triggers, disturbances>>

\* One participant: the entry fee goes back, in a transaction of its own.
StartSingle(i) ==
    /\ worker[i].pc = "recorded" /\ Cardinality(active) = 1
    /\ Begin
    /\ worker' = [worker EXCEPT ![i].pc = "refunding",
                                ![i].ranking = <<CHOOSE u \in active : TRUE>>]
    /\ UNCHANGED <<contestVars, moneyVars, lockVars, suspect, projection, triggers, disturbances>>

StartMany(i) ==
    /\ worker[i].pc = "recorded" /\ Cardinality(active) > 1
    /\ Begin
    /\ Goto(i, "opened")
    /\ UNCHANGED <<contestVars, moneyVars, lockVars, suspect, projection, triggers, disturbances>>

\* refundSingleParticipant: wallet credit and empty pool in one transaction.
\* A refund found in the ledger is an error of the attempt.
RefundSingleParticipant(i) ==
    LET u == Head(worker[i].ranking) IN
    /\ worker[i].pc = "refunding"
    /\ u \notin refunded
    /\ refunded' = refunded \union {u}
    /\ prizeNet' = 0
    /\ Goto(i, "refunded")
    /\ UNCHANGED <<status, active, score, finalRank, exposed, snapshot, prizeRow,
                   ledger, unpaid, points, allocs, lockVars, record, suspect, projection,
                   triggers, disturbances>>

CompleteRefund(i) ==
    /\ worker[i].pc = "refunded"
    /\ InRecord("completed")
    /\ Goto(i, "cancelling")
    /\ UNCHANGED <<contestVars, moneyVars, lockVars, suspect, projection, triggers, disturbances>>

\* updateContestStatus(cancelled), after the settlement was completed.
CancelContest(i) ==
    /\ worker[i].pc = "cancelling"
    /\ status' = "cancelled"
    /\ Done(i)
    /\ UNCHANGED <<active, score, finalRank, exposed, prizeNet, snapshot, moneyVars,
                   record, suspect, projection, triggers, disturbances>>

\* updateContestStatus(settling), whatever the status was.
MarkSettling(i) ==
    /\ worker[i].pc = "opened"
    /\ status' = "settling"
    /\ Goto(i, "closing")
    /\ UNCHANGED <<active, score, finalRank, exposed, prizeNet, snapshot, moneyVars,
                   lockVars, record, suspect, projection, triggers, disturbances>>

\* The trading engine closes a user's positions and publishes the final score.
EngineCloses(u) ==
    /\ u \in exposed
    /\ exposed' = exposed \ {u}
    /\ \E s \in ClosingScores \union {score[u]} : score' = [score EXCEPT ![u] = s]
    /\ UNCHANGED <<status, active, finalRank, prizeNet, snapshot, moneyVars, lockVars,
                   record, worker, suspect, projection, triggers, disturbances>>

\* Mutant: the settlement goes on after the cancel request, without waiting.
CloseWithoutWaiting(i) ==
    /\ worker[i].pc = "closing"
    /\ record' = Touched(record)
    /\ Goto(i, "ranking")
    /\ UNCHANGED <<contestVars, moneyVars, lockVars, suspect, projection, triggers, disturbances>>

\* closeAllPositions returns once no order is pending and no position open.
CloseAllPositions(i) ==
    /\ worker[i].pc = "closing"
    /\ exposed = {}
    /\ record' = Touched(record)
    /\ Goto(i, "ranking")
    /\ UNCHANGED <<contestVars, moneyVars, lockVars, suspect, projection, triggers, disturbances>>

\* sort.Slice by descending score: any order among equals.
Sortings(us) ==
    {q \in [1..Cardinality(us) -> us] :
        /\ \A j, k \in DOMAIN q : j < k => q[j] # q[k] /\ score[q[j]] >= score[q[k]]}

\* Equal scores share the rank of the first of them.
CompetitionRank(q, j) ==
    CHOOSE k \in 1..j : score[q[k]] = score[q[j]] /\ \A l \in 1..(k-1) : score[q[l]] > score[q[j]]

Ranking(q) ==
    [j \in DOMAIN q |-> [user |-> q[j], rank |-> CompetitionRank(q, j), score |-> score[q[j]]]]

\* The net pool: the stored one unless it is empty or above the gross pool.
NetPool(stored, n) ==
    IF stored > 0 /\ stored <= n * EntryFee THEN stored
    ELSE SplitEntryFee(n * EntryFee, DefaultPlatformFeeBps).prize

\* calculatePrizes: each of the first winners gets the share of its rank, or
\* of its place when that rank has no share.
CalculatePrizes(q, pool) ==
    LET shares  == CalculateForContest(NetPool(pool, Len(q)), Len(q))
        winners == IF Len(shares) < Len(q) THEN Len(shares) ELSE Len(q)
    IN  [j \in 1..winners |->
            [user |-> q[j], rank |-> CompetitionRank(q, j),
             amount |-> shares[CompetitionRank(q, j)]]]

PrizeSet(prizes) == {prizes[j] : j \in DOMAIN prizes}

\* The only ascending list of some places: the loop of calculatePrizes passes over
\* the places without a prize.
InOrder(places) ==
    {at \in [1..Cardinality(places) -> places] :
        \A j, k \in DOMAIN at : j < k => at[j] < at[k]}

CalculateRankings(i) ==
    /\ worker[i].pc = "ranking"
    /\ \E q \in Sortings(active) :
          LET all == CalculatePrizes(q, worker[i].pool)
          IN  \E at \in InOrder({j \in DOMAIN all : all[j].amount > 0}) :
                 LET prizes == [k \in DOMAIN at |-> all[at[k]]]
                 IN  /\ worker' = [worker EXCEPT ![i].pc = "writing", ![i].prizes = prizes,
                                      ![i].ranking = Ranking(q)]
                     /\ allocs' = allocs \union {PrizeSet(prizes)}
    /\ record' = Touched(record)
    /\ UNCHANGED <<contestVars, prizeRow, ledger, refunded, unpaid, points, lockVars, suspect,
                   projection, triggers, disturbances>>

\* distributePrizes, phase 1: ranks and scores in one transaction.
WriteRankings(i) ==
    LET q == worker[i].ranking
        at(u) == CHOOSE j \in DOMAIN q : q[j].user = u
        ranked == {q[j].user : j \in DOMAIN q}
    IN
    /\ worker[i].pc = "writing"
    /\ finalRank' = [u \in Users |-> IF u \in ranked THEN q[at(u)].rank ELSE finalRank[u]]
    /\ score' = [u \in Users |-> IF u \in ranked THEN q[at(u)].score ELSE score[u]]
    /\ Goto(i, "crediting")
    /\ UNCHANGED <<status, active, exposed, prizeNet, snapshot, moneyVars, lockVars,
                   record, suspect, projection, triggers, disturbances>>

Credited(u, rank) == \E e \in ledger : e.user = u /\ e.rank = rank

\* Mutant: the prize is credited without looking its key up.
CreditWithoutKey(i) ==
    /\ worker[i].pc = "crediting" /\ worker[i].prizes # <<>>
    /\ LET p == Head(worker[i].prizes) IN
         /\ ledger' = ledger \union {[p EXCEPT !.rank = p.rank + 10 * Cardinality(ledger)]}
         /\ prizeRow' = [prizeRow EXCEPT ![p.user] = "credited"]
         /\ unpaid' = unpaid \ {p.user}
    /\ worker' = [worker EXCEPT ![i].prizes = Tail(@)]
    /\ UNCHANGED <<contestVars, refunded, points, allocs, lockVars, record, suspect,
                   projection, triggers, disturbances>>

\* distributePrizes, phase 2: one transaction per prize; a key already in the
\* ledger counts as credited.
CreditPrize(i) ==
    /\ worker[i].pc = "crediting" /\ worker[i].prizes # <<>>
    /\ LET p == Head(worker[i].prizes) IN
         /\ ledger' = IF Credited(p.user, p.rank) THEN ledger ELSE ledger \union {p}
         /\ prizeRow' = [prizeRow EXCEPT ![p.user] = "credited"]
         /\ unpaid' = unpaid \ {p.user}
    /\ worker' = [worker EXCEPT ![i].prizes = Tail(@)]
    /\ UNCHANGED <<contestVars, refunded, points, allocs, lockVars, record, suspect,
                   projection, triggers, disturbances>>

\* Mutant: a failed credit is not collected in failedPrizes.
CreditFailsSilently(i) ==
    /\ worker[i].pc = "crediting" /\ worker[i].prizes # <<>>
    /\ disturbances < Disturbances
    /\ disturbances' = disturbances + 1
    /\ worker' = [worker EXCEPT ![i].prizes = Tail(@)]
    /\ UNCHANGED <<contestVars, moneyVars, lockVars, record, suspect, projection, triggers>>

\* A failed credit is recorded where the transaction survives the error, and
\* the settlement goes on.
CreditFails(i) ==
    /\ worker[i].pc = "crediting" /\ worker[i].prizes # <<>>
    /\ disturbances < Disturbances
    /\ disturbances' = disturbances + 1
    /\ LET p == Head(worker[i].prizes) IN
         /\ prizeRow' \in {prizeRow, [prizeRow EXCEPT ![p.user] = "failed"]}
         /\ unpaid' = unpaid \union {p.user}
    /\ worker' = [worker EXCEPT ![i].prizes = Tail(@)]
    /\ UNCHANGED <<contestVars, refunded, points, allocs, ledger, lockVars, record,
                   suspect, projection, triggers>>

PrizesDistributed(i) ==
    /\ worker[i].pc = "crediting" /\ worker[i].prizes = <<>>
    /\ record' = Touched(record)
    /\ Goto(i, "points")
    /\ UNCHANGED <<contestVars, moneyVars, lockVars, suspect, projection, triggers, disturbances>>

\* updateTraggePoints: an unconditional increment in its own transaction.
UpdateTraggePoints(i) ==
    /\ worker[i].pc = "points"
    /\ points' = [u \in Users |->
          IF \E j \in DOMAIN worker[i].ranking : worker[i].ranking[j].user = u
          THEN points[u] + 1 ELSE points[u]]
    /\ Goto(i, "finalizing")
    /\ UNCHANGED <<contestVars, prizeRow, ledger, refunded, unpaid, allocs, lockVars, record,
                   suspect, projection, triggers, disturbances>>

\* completeContestFinalization: settlement, contest and finish snapshot at once.
CompleteFinalization(i) ==
    /\ worker[i].pc = "finalizing"
    /\ InRecord("completed")
    /\ status' = "completed"
    /\ snapshot' = TRUE
    /\ Done(i)
    /\ UNCHANGED <<active, score, finalRank, exposed, prizeNet, moneyVars, suspect,
                   projection, triggers, disturbances>>

\* An attempt returns an error: a transient one, positions that do not close,
\* or a refund that is already in the ledger.
Hopeless(i) ==
    worker[i].pc = "refunding" /\ Head(worker[i].ranking) \in refunded

AttemptFails(i) ==
    /\ worker[i].pc \in Attempting \ {"cancelling", "points"}
    /\ IF Hopeless(i) THEN UNCHANGED disturbances
       ELSE disturbances < Disturbances /\ disturbances' = disturbances + 1
    /\ IF worker[i].attempt < MaxRetries
       THEN /\ worker' = [worker EXCEPT ![i] =
                            [Idle EXCEPT !.pc = "attempt", !.orphan = worker[i].orphan,
                                         !.attempt = worker[i].attempt + 1]]
            /\ UNCHANGED <<lockVars, record>>
       ELSE /\ record' = [record EXCEPT !.status = "failed", !.stale = FALSE]
            /\ Done(i)
    /\ UNCHANGED <<contestVars, moneyVars, suspect, projection, triggers>>

-----------------------------------------------------------------------------
(* Faults.                                                                 *)

\* SettlementTimeout: every statement fails with the context, the deferred
\* unlock too; the connection goes back to the pool with the lock.
Timeout(i) ==
    /\ worker[i].pc \in Attempting
    /\ disturbances < Disturbances
    /\ disturbances' = disturbances + 1
    /\ worker' = [worker EXCEPT ![i] = Idle]
    /\ lock' = IF lock = i THEN Nobody ELSE lock
    /\ leaked' = IF lock = i THEN i ELSE leaked
    /\ UNCHANGED <<contestVars, moneyVars, record, suspect, projection, triggers>>

\* The pool retires the connection (ConnMaxLifetime).
RetireConnection ==
    /\ leaked # Nobody
    /\ leaked' = Nobody
    /\ UNCHANGED <<contestVars, moneyVars, lock, record, worker, suspect, projection,
                   triggers, disturbances>>

\* The pinned connection breaks: the session's lock is gone, and the goroutine
\* goes on with the other connections of its pool.
LoseLockConnection(i) ==
    /\ lock = i
    /\ disturbances < Disturbances
    /\ disturbances' = disturbances + 1
    /\ lock' = Nobody
    /\ worker' = [worker EXCEPT ![i].orphan = TRUE]
    /\ UNCHANGED <<contestVars, moneyVars, leaked, record, suspect, projection, triggers>>

Crash(i) ==
    /\ worker[i].pc # "idle" \/ i \in suspect
    /\ disturbances < Disturbances
    /\ disturbances' = disturbances + 1
    /\ worker' = [worker EXCEPT ![i] = Idle]
    /\ lock' = IF lock = i THEN Nobody ELSE lock
    /\ leaked' = IF leaked = i THEN Nobody ELSE leaked
    /\ suspect' = suspect \ {i}
    /\ UNCHANGED <<contestVars, moneyVars, record, projection, triggers>>

-----------------------------------------------------------------------------
(* The stuck detector: stuck_detector.go.                                  *)

\* The threshold passes without an update of the row.
GoStale ==
    /\ record.status = "in_progress" /\ ~record.stale
    /\ record' = [record EXCEPT !.stale = TRUE]
    /\ UNCHANGED <<contestVars, moneyVars, lockVars, worker, suspect, projection,
                   triggers, disturbances>>

\* Mutant: the last attempt allowed is not retried.
DetectStuckTooLate(i) ==
    /\ record.status = "in_progress" /\ record.stale
    /\ record.attempts < MaxRetries - 1
    /\ i \notin suspect
    /\ suspect' = suspect \union {i}
    /\ UNCHANGED <<contestVars, moneyVars, lockVars, record, worker, projection,
                   triggers, disturbances>>

DetectStuck(i) ==
    /\ record.status = "in_progress" /\ record.stale
    /\ record.attempts < MaxRetries
    /\ i \notin suspect
    /\ suspect' = suspect \union {i}
    /\ UNCHANGED <<contestVars, moneyVars, lockVars, record, worker, projection,
                   triggers, disturbances>>

\* The row found before is reset, whatever it is now, and started again.
ResetStuck(i) ==
    /\ i \in suspect
    /\ suspect' = suspect \ {i}
    /\ InRecord("pending")
    /\ TryStart(i)
    /\ UNCHANGED <<contestVars, moneyVars, lockVars, projection, triggers, disturbances>>

FailExhausted ==
    /\ record.status = "in_progress" /\ record.stale
    /\ record.attempts >= MaxRetries
    /\ InRecord("failed")
    /\ UNCHANGED <<contestVars, moneyVars, lockVars, worker, suspect, projection,
                   triggers, disturbances>>

\* detectOrphanedSettlingContests: settling, and no row at all.
DetectOrphan(i) ==
    /\ status = "settling" /\ record.status = "none"
    /\ worker[i].pc = "idle"
    /\ TryStart(i)
    /\ UNCHANGED <<contestVars, moneyVars, lockVars, record, suspect, projection,
                   triggers, disturbances>>

-----------------------------------------------------------------------------
(* Others who write the rows a settlement reads.                           *)

\* removeParticipantAtomic without refund: allowed in every contest status.
Disqualify(u) ==
    /\ u \in active \intersect Disqualifiable
    /\ disturbances < Disturbances
    /\ disturbances' = disturbances + 1
    /\ active' = active \ {u}
    /\ UNCHANGED <<status, score, finalRank, exposed, prizeNet, snapshot, moneyVars,
                   lockVars, record, worker, suspect, projection, triggers>>

\* The users prepareFinalRankings ranks: active ones that have traded.
Eligible == active \intersect Started

\* finalizeContest up to prepareFinalRankings: membership and scores are read.
PrepareFinalRankings ==
    /\ disturbances < Disturbances
    /\ disturbances' = disturbances + 1
    /\ ~projection.done /\ projection.pc = "idle"
    /\ projection' = IF Eligible = {} THEN [projection EXCEPT !.done = TRUE]
                     ELSE [projection EXCEPT !.pc = "prepared",
                              !.scores = [u \in Eligible |-> score[u]]]
    /\ UNCHANGED <<contestVars, moneyVars, lockVars, record, worker, suspect, triggers>>

\* STEP 1 previews payouts for two or more users and stores them; a rerun that
\* finds them stored but empty gives up for good.
PreviewPayouts ==
    /\ projection.pc = "prepared" /\ ~projection.ranks
    /\ projection' =
          IF Cardinality(DOMAIN projection.scores) = 1
          THEN [projection EXCEPT !.pc = "previewed"]
          ELSE IF projection.payouts = "empty" THEN [projection EXCEPT !.pc = "idle"]
          ELSE [projection EXCEPT !.pc = "previewed",
                   !.payouts = IF EntryFee > 0 THEN "stored" ELSE "empty"]
    /\ UNCHANGED <<contestVars, moneyVars, lockVars, record, worker, suspect, triggers, disturbances>>

\* writeFinalRanksAndPrizesInternal: strict ranks, and the scores read before,
\* for those who are still active.
WriteProjection ==
    LET q == projection.scores
        above(u) == {v \in DOMAIN q : q[v] > q[u]}
        written == Eligible \intersect DOMAIN q
    IN
    /\ projection.pc = "previewed" /\ ~projection.ranks
    /\ \E place \in [DOMAIN q -> 1..Cardinality(DOMAIN q)] :
          /\ \A u, v \in DOMAIN q : u # v => place[u] # place[v]
          /\ \A u \in DOMAIN q : place[u] > Cardinality(above(u))
          /\ finalRank' = [u \in Users |-> IF u \in written THEN place[u] ELSE finalRank[u]]
    /\ score' = [u \in Users |-> IF u \in written THEN q[u] ELSE score[u]]
    /\ projection' = [projection EXCEPT !.ranks = TRUE]
    /\ UNCHANGED <<status, active, exposed, prizeNet, snapshot, moneyVars, lockVars,
                   record, worker, suspect, triggers, disturbances>>

CompleteProjection ==
    /\ projection.pc \in {"prepared", "previewed"} /\ projection.ranks
    /\ projection' = [projection EXCEPT !.pc = "idle", !.scores = <<>>, !.done = TRUE]
    /\ UNCHANGED <<contestVars, moneyVars, lockVars, record, worker, suspect, triggers, disturbances>>

\* The worker dies, or fails; the next delivery starts over from the flags.
ProjectionFails ==
    /\ projection.pc # "idle"
    /\ projection' = [projection EXCEPT !.pc = "idle", !.scores = <<>>]
    /\ UNCHANGED <<contestVars, moneyVars, lockVars, record, worker, suspect, triggers, disturbances>>

-----------------------------------------------------------------------------

Projection ==
    PrepareFinalRankings \/ PreviewPayouts \/ WriteProjection \/ CompleteProjection

\* What a goroutine does when nothing fails.
Progress(i) ==
    \/ AcquireLock(i) \/ LockBusy(i) \/ GetSettlementRecord(i)
    \/ StartEmpty(i) \/ StartSingle(i) \/ StartMany(i)
    \/ RefundSingleParticipant(i) \/ CompleteRefund(i) \/ CancelContest(i)
    \/ MarkSettling(i) \/ CloseAllPositions(i) \/ CalculateRankings(i)
    \/ WriteRankings(i) \/ CreditPrize(i) \/ PrizesDistributed(i)
    \/ UpdateTraggePoints(i) \/ CompleteFinalization(i)
    \/ (Hopeless(i) /\ AttemptFails(i))

Detector(i) == DetectStuck(i) \/ ResetStuck(i) \/ DetectOrphan(i)

Fault(i) ==
    \/ CreditFails(i) \/ (~Hopeless(i) /\ AttemptFails(i)) \/ Timeout(i)
    \/ LoseLockConnection(i) \/ Crash(i)

Next ==
    \/ \E i \in Instances : Trigger(i) \/ Progress(i) \/ Detector(i) \/ Fault(i)
    \/ \E u \in Users : EngineCloses(u) \/ Disqualify(u)
    \/ Projection \/ ProjectionFails
    \/ GoStale \/ FailExhausted \/ RetireConnection

\* Goroutines run on, the engine closes what it is told to close, time passes
\* for the detector, and the detector's ticker fires.  Faults, triggers and
\* admins owe nobody anything.
Fairness ==
    /\ \A i \in Instances : WF_vars(Progress(i)) /\ WF_vars(Detector(i))
    /\ \A u \in Users : WF_vars(EngineCloses(u))
    /\ WF_vars(GoStale) /\ WF_vars(FailExhausted) /\ WF_vars(RetireConnection)

Spec == Init /\ [][Next]_vars /\ Fairness

-----------------------------------------------------------------------------

SettlementTypeOK ==
    /\ status \in {"settling", "completed", "cancelled"}
    /\ active \subseteq Users /\ exposed \subseteq Users /\ unpaid \subseteq Users
    /\ finalRank \in [Users -> 0..Cardinality(Users)]
    /\ record.status \in {"none", "pending", "in_progress", "completed", "failed"}
    /\ record.attempts \in Nat
    /\ prizeRow \in [Users -> {"none", "credited", "failed"}]
    /\ points \in [Users -> Nat]
    /\ \A i \in Instances : worker[i].pc \in Attempting \union {"idle", "queued"}
    /\ lock \in Instances \union {Nobody} /\ leaked \in Instances \union {Nobody}

\* At most one goroutine settles the contest, on whichever instance, except one
\* whose lock connection broke under it: time-outs, crashes, leaked locks,
\* repeated triggers and the stuck detector never let two in.
SingleSettler ==
    \A i, j \in Instances :
        /\ {worker[i].pc, worker[j].pc} \subseteq Attempting
        /\ ~worker[i].orphan /\ ~worker[j].orphan
        => i = j

Total(prizes) == MapThenSumSet(LAMBDA p : p.amount, prizes)

NoTies(prizes) == \A p, q \in prizes : p.rank = q.rank => p = q

\* As long as every attempt calculates the same prizes, and none are tied, the
\* winners are paid once each and together no more than the pool the joins
\* accumulated, however many attempts, crashes and concurrent settlers.
PaidOnceWithinPool ==
    (Cardinality(allocs) = 1 /\ NoTies(UNION allocs)) =>
        /\ \A p, q \in ledger : p.user = q.user => p = q
        /\ Total(ledger) <= StoredPool

\* A finished contest owes nobody silently: each winner of the only allocation
\* is credited, or is among the prizes its settlement reported as failed.
FinishedWinnersAccounted ==
    (snapshot /\ Cardinality(allocs) = 1) =>
        \A p \in UNION allocs : Credited(p.user, p.rank) \/ p.user \in unpaid

\* A distribution row marked credited has its entry in the wallet ledger.
CreditedRowsBacked ==
    \A u \in Users : prizeRow[u] = "credited" => \E e \in ledger : e.user = u

\* What a settlement leaves behind can be trusted: its rows have their types,
\* every row that says credited is backed by the wallet ledger, and no winner of
\* a finished contest is left out of both the ledger and the reported failures.
WinnersAccounted == SettlementTypeOK /\ CreditedRowsBacked /\ FinishedWinnersAccounted

\* Prizes are calculated only from scores of closed positions: no credit while
\* the contest still has an open position or a pending order.
NoCreditWhileExposed == ledger # {} => exposed = {}

\* The service keeps the promise of the prize ledger.
Payout == INSTANCE PrizePayout WITH Users <- Users, allocs <- allocs, ledger <- ledger,
                                    refunded <- refunded
ImplementsPayout == Payout!Spec

\* The stuck detector makes good on its purpose for a settlement that hangs in
\* progress: it is completed, failed, or put back in the queue.
InProgressResolved == (record.status = "in_progress") ~> (record.status # "in_progress")

\* stuck_detector.go promises that stuck settlements are retried; a row left
\* pending by a crash is one nobody looks for.
PendingSettled == (record.status = "pending") ~> (record.status # "pending")

\* Policy 11.6 and 11.7: tied winners pool and share their positions' prizes, so
\* what is paid never exceeds the pool.
PoolNeverExceeded == Total(ledger) <= StoredPool
=============================================================================
