---------------------------- MODULE ContestFunds ----------------------------
(***************************************************************************)
(* The money of paid contests.  The state is what the database holds: the  *)
(* contest rows, the participant rows, the ledgers keyed by their          *)
(* idempotency keys, and the balances of the custody accounts (Super Admin *)
(* Treasury, Contest Fee Wallet, one Prize Pool per contest) and of the    *)
(* user wallets.                                                           *)
(*                                                                         *)
(* Every handler modelled here does its work in one database transaction   *)
(* that first locks the contest row and then the Treasury row, so a        *)
(* committed transaction is one step; a transaction that fails rolls back  *)
(* and is no step.  What does not happen under those locks is a step of    *)
(* its own: the BEGIN of a join (it fixes joined_at), the prize lock that  *)
(* runs after the start transition has committed, and the passing of time. *)
(***************************************************************************)
EXTENDS ContestEconomics, FiniteSets, Functions

CONSTANTS
    Users,            \* real users (no system accounts)
    Contests,         \* contests under lifecycle and funds policy v1
    Intents,          \* payment intents the provider confirms
    IntentUser,       \* the user a payment intent belongs to
    IntentAmount,     \* its amount in cents
    EntryFee,         \* entry_fee_cents of a contest; 0 for a free contest
    PlatformFeeBps,   \* platform_fee_bps as stored
    CommissionBps,    \* commission_rate of the row, in basis points
    MinParticipants,  \* min_participants
    Referrer,         \* who referred a user (any user, if nobody did)
    ReferralBps,      \* commission rate of the referral; 0 if there is none
    AffiliateCredits, \* ALLOW_LEADERBOARD_AFFILIATE_CREDITS
    WithdrawAmounts,  \* amounts a user may ask to withdraw (a bound)
    Freezable         \* users whose wallet may be frozen (a bound)

ASSUME UsersFinite == IsFiniteSet(Users)

ASSUME TablesFinite == IsFiniteSet(Contests) /\ IsFiniteSet(Intents)

ASSUME IntentsTyped ==
    /\ IntentUser \in [Intents -> Users]
    /\ IntentAmount \in [Intents -> Nat \ {0}]

ASSUME ContestsTyped ==
    /\ EntryFee \in [Contests -> Nat]
    /\ PlatformFeeBps \in [Contests -> Nat]
    /\ CommissionBps \in [Contests -> Nat]
    /\ MinParticipants \in [Contests -> Nat]

ASSUME ReferralsTyped ==
    /\ Referrer \in [Users -> Users]
    /\ ReferralBps \in [Users -> Nat]
    /\ AffiliateCredits \in BOOLEAN

ASSUME WithdrawTyped == WithdrawAmounts \subseteq Nat \ {0}

VARIABLES
    status,       \* contests.status
    lateWindow,   \* where now stands with respect to LateJoinCutoff
    confirmed,    \* the contest_confirmed snapshot exists
    cutoffPool,   \* prize_pool_cents of the economics_cutoff snapshot
    lockPending,  \* participant count a started contest's prize lock will use
    prizeNet,     \* contests.prize_pool_net_cents
    participant,  \* contest_participants.lifecycle_status
    joinBegun,    \* users whose join transaction has begun before the start
    joinedLate,   \* users whose joined_at is not before started_at
    admission,    \* the ledger rows of an admission, by contest and user
    reversed,     \* users with a contest_admission_reversal ledger row
    commission,   \* affiliate_commissions.status, by contest and referred user
    posted,       \* payment intents with a custody and an entitlement row
    withdrawn,    \* total of a user's withdrawal ledger rows
    wallet,       \* wallets.balance_cents
    frozen,       \* wallets.status = frozen
    treasury,     \* treasury_accounts.balance_cents
    feeWallet,    \* contest_fee_accounts.balance_cents
    pool          \* contest_prize_pool_accounts.balance_cents

contestVars == <<status, lateWindow, confirmed, cutoffPool, lockPending, prizeNet>>

admissionVars == <<participant, joinBegun, joinedLate, admission, reversed, commission>>

depositVars == <<posted, withdrawn, frozen>>

custodyVars == <<treasury, feeWallet, pool>>

vars == <<contestVars, admissionVars, depositVars, wallet, custodyVars>>

-----------------------------------------------------------------------------

ParticipantStatuses == {"none", "ACTIVE", "REFUNDED", "DISQUALIFIED", "CANCELLED"}

CommissionStatuses == {"none", "pending", "credited"}

\* "reopenable": the cutoff passed while the contest was paused.
LateWindows == {"open", "reopenable", "passed"}

NoSnapshot == -1

NoLock == -1

AdmissionLedger == [total : Nat, base : Nat, late : Nat, prize : Nat]

NoAdmission == [total |-> 0, base |-> 0, late |-> 0, prize |-> 0]

FeeBps(c) == ResolvePlatformFeeBps(PlatformFeeBps[c])

Charge(c, isLate) == ComputeJoinCharge(EntryFee[c], FeeBps(c), isLate)

\* What the referrer of u earns from u's entry.
Commission(c, u) == Share(EntryFee[c], ReferralBps[u])

IsFree(c) == EntryFee[c] = 0

\* Every real participant row counts, the removed ones too.
Joined(c) == {u \in Users : participant[c][u] # "none"}

Required(c) == RequiredParticipants(IsFree(c), MinParticipants[c])

Active(c) == {u \in Users : participant[c][u] = "ACTIVE"}

\* Amounts summed over a set of users' admission rows.
FeesOf(c, S) ==
    SumFunctionOnSet([u \in Users |-> admission[c][u].base + admission[c][u].late], S)

\* Mutant: the surcharge comes out of the Prize Pool.
PrizesWithSurchargeOf(c, S) ==
    SumFunctionOnSet([u \in Users |-> admission[c][u].prize + admission[c][u].late], S)

PrizesOf(c, S) == SumFunctionOnSet([u \in Users |-> admission[c][u].prize], S)

-----------------------------------------------------------------------------

Init ==
    /\ status = [c \in Contests |-> "draft"]
    /\ lateWindow = [c \in Contests |-> "open"]
    /\ confirmed = [c \in Contests |-> FALSE]
    /\ cutoffPool = [c \in Contests |-> NoSnapshot]
    /\ lockPending = [c \in Contests |-> NoLock]
    /\ prizeNet = [c \in Contests |-> 0]
    /\ participant = [c \in Contests |-> [u \in Users |-> "none"]]
    /\ joinBegun = [c \in Contests |-> {}]
    /\ joinedLate = [c \in Contests |-> {}]
    /\ admission = [c \in Contests |-> [u \in Users |-> NoAdmission]]
    /\ reversed = [c \in Contests |-> {}]
    /\ commission = [c \in Contests |-> [u \in Users |-> "none"]]
    /\ posted = {}
    /\ withdrawn = [u \in Users |-> 0]
    /\ wallet = [u \in Users |-> 0]
    /\ frozen = [u \in Users |-> FALSE]
    /\ treasury = 0
    /\ feeWallet = 0
    /\ pool = [c \in Contests |-> 0]

-----------------------------------------------------------------------------
(* Deposits, withdrawals and wallet status. *)

\* Webhook, inquiry and expiry may each confirm the same intent: the call that
\* finds the custody row posts nothing.  A frozen wallet refuses the credit and
\* the custody posting rolls back with it.
Postable(i) ==
    /\ i \notin posted
    /\ ~frozen[IntentUser[i]]

PostConfirmedDeposit(i) ==
    LET u == IntentUser[i] IN
    /\ Postable(i)
    /\ posted' = posted \union {i}
    /\ treasury' = treasury + IntentAmount[i]
    /\ wallet' = [wallet EXCEPT ![u] = @ + IntentAmount[i]]
    /\ UNCHANGED <<contestVars, admissionVars, withdrawn, frozen, feeWallet, pool>>

\* A withdrawal request debits the wallet; it does not touch the Treasury.
Withdraw(u, amount) ==
    /\ ~frozen[u]
    /\ wallet[u] >= amount
    /\ wallet' = [wallet EXCEPT ![u] = @ - amount]
    /\ withdrawn' = [withdrawn EXCEPT ![u] = @ + amount]
    /\ UNCHANGED <<contestVars, admissionVars, posted, frozen, custodyVars>>

FreezeWallet(u) ==
    /\ u \in Freezable
    /\ ~frozen[u]
    /\ frozen' = [frozen EXCEPT ![u] = TRUE]
    /\ UNCHANGED <<contestVars, admissionVars, posted, withdrawn, wallet, custodyVars>>

UnfreezeWallet(u) ==
    /\ frozen[u]
    /\ frozen' = [frozen EXCEPT ![u] = FALSE]
    /\ UNCHANGED <<contestVars, admissionVars, posted, withdrawn, wallet, custodyVars>>

-----------------------------------------------------------------------------
(* Joining. *)

\* The handler's unlocked pre-check and the BEGIN of its transaction, which
\* fixes joined_at; the contest row is locked only in JoinContest.
BeginJoin(c, u) ==
    /\ status[c] = "registration_open"
    /\ participant[c][u] = "none"
    /\ u \notin joinBegun[c]
    /\ joinBegun' = [joinBegun EXCEPT ![c] = @ \union {u}]
    /\ UNCHANGED <<contestVars, participant, joinedLate, admission, reversed, commission,
                   depositVars, wallet, custodyVars>>

\* The join was refused under the lock, or the request went away.
AbortJoin(c, u) ==
    /\ u \in joinBegun[c]
    /\ joinBegun' = [joinBegun EXCEPT ![c] = @ \ {u}]
    /\ UNCHANGED <<contestVars, participant, joinedLate, admission, reversed, commission,
                   depositVars, wallet, custodyVars>>

\* The debit of the user's wallet; a free admission debits nothing.
DeductContestEntryFee(u, amount) ==
    /\ amount > 0 => ~frozen[u]
    /\ wallet[u] >= amount
    /\ wallet' = [wallet EXCEPT ![u] = @ - amount]

\* Mutant: the Treasury pays the base fee and the prize, not the surcharge.
AllocateWithoutSurcharge(c, charge) ==
    /\ treasury >= charge.base + charge.prize
    /\ treasury' = treasury - (charge.base + charge.prize)
    /\ feeWallet' = feeWallet + charge.base + charge.late
    /\ pool' = [pool EXCEPT ![c] = @ + charge.prize]

\* PostContestFee and PostContestPrizeContribution: the debit leaves the Treasury
\* for the Fee Wallet (base fee, late surcharge) and the contest's Prize Pool.
AllocateCharge(c, charge) ==
    /\ treasury >= charge.base + charge.late + charge.prize
    /\ treasury' = treasury - (charge.base + charge.late + charge.prize)
    /\ feeWallet' = feeWallet + charge.base + charge.late
    /\ pool' = [pool EXCEPT ![c] = @ + charge.prize]

\* Mutant: the confirmation is decided before the participant row is inserted.
ConfirmedBefore(c, u) == confirmed[c] \/ Cardinality(Joined(c)) >= Required(c)

\* EnsureContestConfirmed counts the participants after the insert, and confirms
\* once and for all.
ConfirmedAfter(c, u) ==
    confirmed[c] \/ Cardinality(Joined(c) \union {u}) >= Required(c)

\* processAffiliateCommission: the entry of a referred user leaves a commission
\* for the referrer.
ProcessAffiliateCommission(c, u) ==
    commission' = IF Commission(c, u) > 0
                  THEN [commission EXCEPT ![c][u] = "pending"]
                  ELSE commission

\* The transaction of handleJoinContest: the policy is checked again under the
\* contest lock; one participant row, one debit and one allocation, or nothing.
JoinContest(c, u) ==
    LET isLate == status[c] = "running"
        charge == Charge(c, isLate)
    IN
    /\ JoinAllowed(status[c], IsFree(c), TRUE, lateWindow[c] = "open")
    /\ participant[c][u] = "none"
    /\ participant' = [participant EXCEPT ![c][u] = "ACTIVE"]
    /\ joinBegun' = [joinBegun EXCEPT ![c] = @ \ {u}]
    /\ joinedLate' = IF isLate /\ u \notin joinBegun[c]
                     THEN [joinedLate EXCEPT ![c] = @ \union {u}]
                     ELSE joinedLate
    /\ admission' = [admission EXCEPT ![c][u] = charge]
    /\ DeductContestEntryFee(u, charge.total)
    /\ AllocateCharge(c, charge)
    /\ prizeNet' = [prizeNet EXCEPT ![c] = @ + charge.prize]
    /\ ProcessAffiliateCommission(c, u)
    /\ confirmed' = [confirmed EXCEPT ![c] = ConfirmedAfter(c, u)]
    /\ UNCHANGED <<status, lateWindow, cutoffPool, lockPending, reversed, depositVars>>

Creditable(c, u) == commission[c][u] = "pending" /\ ~frozen[Referrer[u]]

\* creditSingleCommission: the job of the leaderboard worker pays a matured
\* commission into the referrer's wallet; no custody account pays for it.
CreditCommission(c, u) ==
    /\ AffiliateCredits
    /\ Creditable(c, u)
    /\ wallet' = [wallet EXCEPT ![Referrer[u]] = @ + Commission(c, u)]
    /\ commission' = [commission EXCEPT ![c][u] = "credited"]
    /\ UNCHANGED <<contestVars, participant, joinBegun, joinedLate, admission, reversed,
                   depositVars, custodyVars>>

-----------------------------------------------------------------------------
(* Removal and cancellation by the Super Admin. *)

\* The users in S with an entry fee to give back; a free admission has no ledger
\* row.
Paid(c, S) == {u \in S : admission[c][u].total > 0}

\* ReverseContestAdmission succeeds for every user in S: no reversal exists yet,
\* each admission's allocations add up to its debit, and the Fee Wallet and the
\* Prize Pool can give the money back.
Reversible(c, S) ==
    /\ S \intersect reversed[c] = {}
    /\ \A u \in S : admission[c][u].base + admission[c][u].late
                      + admission[c][u].prize = admission[c][u].total
    /\ FeesOf(c, S) \in 0..feeWallet
    /\ PrizesOf(c, S) \in 0..pool[c]

\* Inside the caller's transaction: each original ledger row is reversed once,
\* out of the account it went to and back through the Treasury.
ReverseContestAdmission(c, S) ==
    /\ Reversible(c, S)
    /\ wallet' = [u \in Users |-> IF u \in S THEN wallet[u] + admission[c][u].total
                                             ELSE wallet[u]]
    /\ feeWallet' = feeWallet - FeesOf(c, S)
    /\ pool' = [pool EXCEPT ![c] = @ - PrizesOf(c, S)]
    /\ treasury' = treasury + FeesOf(c, S) + PrizesOf(c, S)
    /\ reversed' = [reversed EXCEPT ![c] = @ \union S]

\* Mutant: refunds close with the contest, not with the cutoff.
RefundOpenWhileUnsettled(c) == status[c] # "settling"

\* Money may be given back only until the economics cutoff is taken.
RefundOpen(c) == cutoffPool[c] = NoSnapshot

\* removeParticipantAtomic: with a refund the admission is reversed, without one
\* the charge is forfeited.
RemoveParticipant(c, u, refund) ==
    /\ participant[c][u] = "ACTIVE"
    /\ \/ /\ refund
          /\ RefundOpen(c)
          /\ ReverseContestAdmission(c, Paid(c, {u}))
          /\ participant' = [participant EXCEPT ![c][u] = "REFUNDED"]
       \/ /\ ~refund
          /\ participant' = [participant EXCEPT ![c][u] = "DISQUALIFIED"]
          /\ UNCHANGED <<wallet, custodyVars, reversed>>
    /\ UNCHANGED <<contestVars, joinBegun, joinedLate, admission, commission, depositVars>>

\* cancelContestAtomic: every ACTIVE participant is refunded in the transaction
\* that cancels the contest.
CancelContestAtomic(c) ==
    /\ RefundOpen(c)
    /\ CanTransition(status[c], "cancelled")
    /\ ReverseContestAdmission(c, Paid(c, Active(c)))
    /\ participant' = [participant EXCEPT ![c] =
           [u \in Users |-> IF u \in Active(c) THEN "CANCELLED" ELSE participant[c][u]]]
    /\ status' = [status EXCEPT ![c] = "cancelled"]
    /\ UNCHANGED <<lateWindow, confirmed, cutoffPool, lockPending, prizeNet,
                   joinBegun, joinedLate, admission, commission, depositVars>>

-----------------------------------------------------------------------------
(* The economics cutoff. *)

\* The participants whose entry still stands when the cutoff is taken.
EconomicParticipants(c) ==
    {u \in Joined(c) :
        IF EntryFee[c] = 0 THEN participant[c][u] \notin {"REFUNDED", "CANCELLED"}
        ELSE admission[c][u].total > 0 /\ u \notin reversed[c]}

\* validateAdmissionEvidence: the ledger rows must be the ones the participant's
\* joined_at calls for.
AdmissionEvidence(c, u) ==
    admission[c][u] = Charge(c, u \in joinedLate[c])

\* The contributions in the Prize Pool ledger that no reversal points at; a
\* contribution of zero is never posted.
PoolEntries(c) ==
    {u \in Joined(c) : admission[c][u].prize > 0 /\ u \notin reversed[c]}

\* EnsureEconomicsCutoff accepts: every economic admission is evidenced, the
\* Prize Pool holds exactly what the economic participants owe to it, and has
\* one contribution for each of them.
CutoffReconciles(c) ==
    LET economic == EconomicParticipants(c)
    IN
    /\ \A u \in economic : AdmissionEvidence(c, u)
    /\ pool[c] = Cardinality(economic) * Charge(c, FALSE).prize
    /\ Cardinality(PoolEntries(c)) = Cardinality(economic)

\* The scheduler takes the snapshot of a running or paused contest once the
\* cutoff time has passed.
EnsureEconomicsCutoff(c) ==
    /\ status[c] \in {"running", "paused"}
    /\ cutoffPool[c] = NoSnapshot
    /\ lateWindow[c] # "open"
    /\ CutoffReconciles(c)
    /\ cutoffPool' = [cutoffPool EXCEPT ![c] = pool[c]]
    /\ UNCHANGED <<status, lateWindow, confirmed, lockPending, prizeNet,
                   admissionVars, depositVars, wallet, custodyVars>>

\* Time reaches LateJoinCutoff(starts_at, ends_at).
CutoffTimePasses(c) ==
    /\ lateWindow[c] = "open"
    /\ lateWindow' = [lateWindow EXCEPT ![c] =
                          IF status[c] = "paused" THEN "reopenable" ELSE "passed"]
    /\ UNCHANGED <<status, confirmed, cutoffPool, lockPending, prizeNet,
                   admissionVars, depositVars, wallet, custodyVars>>

-----------------------------------------------------------------------------
(* StateMachine.Transition and the start side effect. *)

\* Registration, pause, end: a status change that moves nothing else.
SimpleTransition(c, to) ==
    /\ to \in {"scheduled", "registration_open", "registration_closed", "paused", "settling"}
    /\ CanTransition(status[c], to)
    /\ status' = [status EXCEPT ![c] = to]
    /\ UNCHANGED <<lateWindow, confirmed, cutoffPool, lockPending, prizeNet,
                   admissionVars, depositVars, wallet, custodyVars>>

\* registration_closed -> running: quorum is counted, the confirmation snapshot
\* must exist, and a cutoff that is already due is taken in the transaction.
\* current_participants, which counts the ACTIVE rows, is read here and is what
\* the prize lock uses after the commit.
StartContest(c) ==
    /\ status[c] = "registration_closed"
    /\ Cardinality(Joined(c)) >= Required(c)
    /\ confirmed[c]
    /\ \/ /\ lateWindow[c] = "open"
          /\ UNCHANGED cutoffPool
       \/ /\ lateWindow[c] # "open"
          /\ CutoffReconciles(c)
          /\ cutoffPool' = [cutoffPool EXCEPT ![c] = pool[c]]
    /\ status' = [status EXCEPT ![c] = "running"]
    /\ lockPending' = [lockPending EXCEPT ![c] = Cardinality(Active(c))]
    /\ UNCHANGED <<lateWindow, confirmed, prizeNet,
                   admissionVars, depositVars, wallet, custodyVars>>

\* paused -> running extends ends_at by the length of the pause.  The late-join
\* cutoff is computed from ends_at, so it moves too: a cutoff that passed during
\* the pause may lie in the future again.
ResumeContest(c) ==
    /\ status[c] = "paused"
    /\ Cardinality(Joined(c)) >= Required(c)
    /\ status' = [status EXCEPT ![c] = "running"]
    /\ IF lateWindow[c] = "reopenable"
       THEN \E w \in {"open", "passed"} : lateWindow' = [lateWindow EXCEPT ![c] = w]
       ELSE UNCHANGED lateWindow
    /\ UNCHANGED <<confirmed, cutoffPool, lockPending, prizeNet,
                   admissionVars, depositVars, wallet, custodyVars>>

\* Any allowed status may be cancelled by the state machine; this path changes
\* the status and reverses nothing.
CancelTransition(c) ==
    /\ CanTransition(status[c], "cancelled")
    /\ status' = [status EXCEPT ![c] = "cancelled"]
    /\ UNCHANGED <<lateWindow, confirmed, cutoffPool, lockPending, prizeNet,
                   admissionVars, depositVars, wallet, custodyVars>>

\* CalculatePool: the net pool of n entries at the row's commission rate.
NetPool(c, n) ==
    LET bps == IF CommissionBps[c] = 0 THEN 0 ELSE ResolvePlatformFeeBps(CommissionBps[c])
    IN  Share(n * EntryFee[c], 10000 - bps)

\* lockPrizes, after the start has committed: overwrites the stored net pool
\* with the amount computed from the count read by the start transaction.
LockPrizes(c) ==
    /\ lockPending[c] # NoLock
    /\ prizeNet' = IF lockPending[c] > 0
                   THEN [prizeNet EXCEPT ![c] = NetPool(c, lockPending[c])]
                   ELSE prizeNet
    /\ lockPending' = [lockPending EXCEPT ![c] = NoLock]
    /\ UNCHANGED <<status, lateWindow, confirmed, cutoffPool,
                   admissionVars, depositVars, wallet, custodyVars>>

\* Side effects are best effort: a crash after the commit loses the prize lock.
LoseSideEffect(c) ==
    /\ lockPending[c] # NoLock
    /\ lockPending' = [lockPending EXCEPT ![c] = NoLock]
    /\ UNCHANGED <<status, lateWindow, confirmed, cutoffPool, prizeNet,
                   admissionVars, depositVars, wallet, custodyVars>>

-----------------------------------------------------------------------------

WalletNext ==
    \/ \E i \in Intents : PostConfirmedDeposit(i)
    \/ \E u \in Users : \/ FreezeWallet(u)
                        \/ UnfreezeWallet(u)
                        \/ \E a \in WithdrawAmounts : Withdraw(u, a)

ParticipantNext ==
    \E c \in Contests, u \in Users :
        \/ BeginJoin(c, u)
        \/ AbortJoin(c, u)
        \/ JoinContest(c, u)
        \/ CreditCommission(c, u)
        \/ \E refund \in BOOLEAN : RemoveParticipant(c, u, refund)

ContestNext ==
    \E c \in Contests :
        \/ \E to \in Statuses : SimpleTransition(c, to)
        \/ StartContest(c)
        \/ ResumeContest(c)
        \/ CancelTransition(c)
        \/ CancelContestAtomic(c)
        \/ LockPrizes(c)
        \/ LoseSideEffect(c)
        \/ CutoffTimePasses(c)
        \/ EnsureEconomicsCutoff(c)

Next == WalletNext \/ ParticipantNext \/ ContestNext

Spec == Init /\ [][Next]_vars
-----------------------------------------------------------------------------
(* What must hold of the money. *)

\* An admission row that still holds its money.
Standing(c) == {u \in Joined(c) : u \notin reversed[c]}

Deposited(u) == SumFunctionOnSet(IntentAmount, {i \in posted : IntentUser[i] = u})

Spent(u) ==
    SumFunctionOnSet([c \in Contests |-> admission[c][u].total],
                     {c \in Contests : u \in Standing(c)})

Credited(u) == {x \in Contests \X Users : /\ commission[x[1]][x[2]] = "credited"
                                         /\ Referrer[x[2]] = u}

Earned(u) ==
    SumFunctionOnSet([x \in Contests \X Users |-> Commission(x[1], x[2])], Credited(u))

\* Every variable has the type the schema gives it; in particular no custody
\* account and no wallet is ever negative (the CHECK constraints never fire).
TypeOK ==
    /\ status \in [Contests -> Statuses]
    /\ lateWindow \in [Contests -> LateWindows]
    /\ confirmed \in [Contests -> BOOLEAN]
    /\ cutoffPool \in [Contests -> Nat \union {NoSnapshot}]
    /\ lockPending \in [Contests -> Nat \union {NoLock}]
    /\ prizeNet \in [Contests -> Nat]
    /\ participant \in [Contests -> [Users -> ParticipantStatuses]]
    /\ joinBegun \in [Contests -> SUBSET Users]
    /\ joinedLate \in [Contests -> SUBSET Users]
    /\ admission \in [Contests -> [Users -> AdmissionLedger]]
    /\ reversed \in [Contests -> SUBSET Users]
    /\ commission \in [Contests -> [Users -> CommissionStatuses]]
    /\ posted \in SUBSET Intents
    /\ withdrawn \in [Users -> Nat]
    /\ wallet \in [Users -> Nat]
    /\ frozen \in [Users -> BOOLEAN]
    /\ treasury \in Nat
    /\ feeWallet \in Nat
    /\ pool \in [Contests -> Nat]

\* The custody accounts together hold exactly the confirmed deposits, each
\* counted once however often webhook, inquiry and expiry confirm it: joins,
\* refunds and cancellations only move the money between the accounts.
CustodyConserved ==
    treasury + feeWallet + SumFunctionOnSet(pool, Contests)
        = SumFunctionOnSet(IntentAmount, posted)

\* A wallet balance is what its ledger rows add up to: the deposits and
\* commissions, each once, less the entry fees of the admissions not reversed and
\* the withdrawals.
WalletsReconcile ==
    \A u \in Users : wallet[u] + Spent(u) + withdrawn[u] = Deposited(u) + Earned(u)

\* The Treasury holds what the wallets hold and what was withdrawn, but for the
\* commissions paid: without them a join that the wallet can pay is never refused
\* for the Treasury's balance (PostContestFee and PostContestPrizeContribution
\* return InsufficientBalance).
TreasuryCoversWallets ==
    treasury + SumFunctionOnSet([u \in Users |-> Earned(u)], Users)
        = SumFunctionOnSet(wallet, Users) + SumFunctionOnSet(withdrawn, Users)

\* A participant who paid has a reversal exactly when the row says REFUNDED or
\* CANCELLED: no removal or cancellation, in any order, refunds a user twice or
\* marks one refunded who was not; a forfeited entry is never given back.
RefundedIffReversed ==
    \A c \in Contests, u \in Users :
        u \in reversed[c] <=> /\ participant[c][u] \in {"REFUNDED", "CANCELLED"}
                              /\ admission[c][u].total > 0

\* A user without a participant row has no admission rows, and the fee and prize
\* allocations of every admission add up to its debit.
AdmissionsSplit ==
    \A c \in Contests, u \in Users :
        /\ participant[c][u] = "none" => admission[c][u] = NoAdmission
        /\ admission[c][u].base + admission[c][u].late + admission[c][u].prize
               = admission[c][u].total

\* The economics cutoff is never taken before the contest has started.
CutoffAfterStart ==
    \A c \in Contests :
        cutoffPool[c] # NoSnapshot => status[c] \in {"running", "paused", "settling"}

\* The inductive invariant of the safety proofs.
SafetyInv == TypeOK /\ RefundedIffReversed /\ AdmissionsSplit /\ CutoffAfterStart

\* The Prize Pool of a contest and the Fee Wallet hold what the standing
\* admissions put there.
AdmissionsBacked ==
    /\ \A c \in Contests : pool[c] = PrizesOf(c, Standing(c))
    /\ feeWallet = SumFunctionOnSet([c \in Contests |-> FeesOf(c, Standing(c))], Contests)

\* The statuses before a contest has started; none is ever entered again.
BeforeStart == {"draft", "scheduled", "registration_open", "registration_closed"}

\* What the entries of a contest leave behind: a commission belongs to an entrant,
\* quorum is confirmed by the join that reaches it, and until the start everyone
\* was charged the regular fee and counts as on time.
EntriesRecorded ==
    \A c \in Contests :
        /\ \A u \in Users : participant[c][u] = "none" => commission[c][u] = "none"
        /\ Cardinality(Joined(c)) >= Required(c) => confirmed[c]
        /\ status[c] \in BeforeStart =>
              /\ joinedLate[c] = {}
              /\ \A u \in Joined(c) : admission[c][u] = Charge(c, FALSE)

\* The books agree: custody with the confirmed deposits, each wallet with its
\* ledger rows, the Treasury with the wallets, and the Fee Wallet and the Prize
\* Pools with the admissions that stand, after any order of joins, refunds,
\* removals, cancellations and commissions (packages/wallet).
LedgersAgree ==
    /\ CustodyConserved /\ WalletsReconcile /\ TreasuryCoversWallets /\ AdmissionsBacked
    /\ EntriesRecorded

\* Until the contest starts the Super Admin can cancel it: the cutoff is not
\* taken and no reversal of an ACTIVE participant can fail, whatever was refunded,
\* forfeited or spent in other contests before.
CancellationNeverBlocked ==
    \A c \in Contests :
        CanTransition(status[c], "cancelled") =>
            RefundOpen(c) /\ Reversible(c, Paid(c, Active(c)))

\* A paid contest that has quorum when registration closes can start, even when
\* its start is so late that the economics cutoff is taken in the same
\* transaction: the confirmation snapshot exists and the cutoff reconciles.
PaidStartNeverBlocked ==
    \A c \in Contests :
        (/\ status[c] = "registration_closed"
         /\ Charge(c, FALSE).prize > 0
         /\ Cardinality(Joined(c)) >= Required(c))
        => confirmed[c] /\ CutoffReconciles(c)

\* Once the economics cutoff is taken no step gives entry money back or changes
\* the snapshot, whatever the contest goes through afterwards.
NoRefundAfterCutoff ==
    [][\A c \in Contests : cutoffPool[c] # NoSnapshot =>
           reversed'[c] = reversed[c] /\ cutoffPool'[c] = cutoffPool[c]]_vars

\* Value enters custody only with a confirmed deposit: any other step leaves the
\* balances alone or moves cents between Treasury, Fee Wallet and the Prize Pool
\* of one contest, and what one account loses the others gain.
CustodyMoves ==
    \/ UNCHANGED custodyVars
    \/ \E c \in Contests :
          /\ \A d \in Contests \ {c} : pool'[d] = pool[d]
          /\ treasury' + feeWallet' + pool'[c] = treasury + feeWallet + pool[c]

CustodyOnlyMoves == [][posted' = posted => CustodyMoves]_vars

-----------------------------------------------------------------------------
(* What documents and tests say of the money, and the code does not keep. *)

\* The net Prize Pool is frozen by the economics cutoff.
CutoffPoolFrozen ==
    \A c \in Contests : cutoffPool[c] # NoSnapshot => pool[c] = cutoffPool[c]
=============================================================================
