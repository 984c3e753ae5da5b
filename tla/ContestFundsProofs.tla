------------------------- MODULE ContestFundsProofs -------------------------
(***************************************************************************)
(* Safety of ContestFunds for every set of users, contests and intents,    *)
(* every entry fee and every platform fee.  The second half is about the   *)
(* books: what the custody accounts, the wallets and the ledgers hold are  *)
(* sums over the rows, and every transaction changes both sides alike.     *)
(* At the end, the scheduler: for every set of instances and any number of *)
(* outages it takes no step on a contest that ContestFunds does not allow, *)
(* so the safety carries over; its lock and its jobs stay consistent.      *)
(***************************************************************************)
EXTENDS ContestScheduler, SumTheorems

-----------------------------------------------------------------------------
(* The charge of a join. *)

\* ResolvePlatformFeeBps always returns a fee between 0 and 100%.
LEMMA ResolvedFee ==
    ASSUME NEW bps \in Nat
    PROVE  ResolvePlatformFeeBps(bps) \in ValidFeeBps
BY DEF ResolvePlatformFeeBps, DefaultPlatformFeeBps, ValidFeeBps

\* A share of at most 100%, rounded down, is a natural number and not more than
\* the amount it is taken from.
LEMMA ShareBounded ==
    ASSUME NEW cents \in Nat, NEW bps \in ValidFeeBps
    PROVE  Share(cents, bps) \in 0..cents
<1> DEFINE x == cents * bps
<1>1. x \in Nat /\ x <= cents * 10000
  BY DEF ValidFeeBps
<1> HIDE DEF x
<1>2. x \div 10000 \in 0..cents
  BY <1>1
<1> QED BY <1>2 DEF x, Share

\* ComputeJoinCharge divides the debit: platform fee, late surcharge and prize
\* contribution are never negative and add up to the total.
LEMMA ChargeSplits ==
    ASSUME NEW c \in Contests, NEW isLate \in BOOLEAN
    PROVE  /\ Charge(c, isLate) \in AdmissionLedger
           /\ Charge(c, isLate).base + Charge(c, isLate).late + Charge(c, isLate).prize
                = Charge(c, isLate).total
<1> DEFINE fee == EntryFee[c]
           bps == FeeBps(c)
<1>1. fee \in Nat /\ PlatformFeeBps[c] \in Nat
  BY ContestsTyped
<1>2. Charge(c, isLate) = ComputeJoinCharge(fee, bps, isLate)
  BY DEF Charge
<1>3. bps \in ValidFeeBps
  BY <1>1, ResolvedFee, Zenon DEF FeeBps
<1> HIDE DEF fee, bps
<1>4. Share(fee, bps) \in 0..fee /\ Share(fee, LateJoinSurchargeBps) \in 0..fee
  <2>1. LateJoinSurchargeBps \in ValidFeeBps
    BY DEF LateJoinSurchargeBps, ValidFeeBps
  <2> QED BY <1>1, <1>3, <2>1, ShareBounded, Zenon
<1>5. LateJoinSurchargeCents(fee) \in Nat
  BY <1>1, <1>4 DEF LateJoinSurchargeCents
<1> DEFINE platform == Share(fee, bps)
           surcharge == IF isLate THEN LateJoinSurchargeCents(fee) ELSE 0
<1>6. /\ platform \in Nat /\ fee - platform \in Nat /\ surcharge \in Nat
  BY <1>1, <1>4, <1>5
<1>7. ComputeJoinCharge(fee, bps, isLate) =
        [total |-> fee + surcharge, base |-> platform, late |-> surcharge,
         prize |-> fee - platform]
  BY DEF ComputeJoinCharge, SplitEntryFee
<1> HIDE DEF platform, surcharge
<1> QED
  BY <1>1, <1>2, <1>6, <1>7 DEF AdmissionLedger

-----------------------------------------------------------------------------
(* The steps that move money. *)

\* A reversal keeps every account's type, and gives the Treasury exactly what it
\* takes from the Fee Wallet and the Prize Pool.
LEMMA ReversalMoves ==
    ASSUME TypeOK, NEW c \in Contests, NEW S \in SUBSET Users,
           ReverseContestAdmission(c, S)
    PROVE  /\ wallet' \in [Users -> Nat]
           /\ treasury' \in Nat
           /\ feeWallet' \in Nat
           /\ pool' \in [Contests -> Nat]
           /\ reversed' = [reversed EXCEPT ![c] = @ \union S]
           /\ reversed' \in [Contests -> SUBSET Users]
           /\ CustodyMoves
<1>1. /\ feeWallet \in Nat /\ treasury \in Nat /\ pool \in [Contests -> Nat]
      /\ wallet \in [Users -> Nat] /\ admission \in [Contests -> [Users -> AdmissionLedger]]
      /\ reversed \in [Contests -> SUBSET Users]
  BY DEF TypeOK
<1> DEFINE fees == FeesOf(c, S)
           prizes == PrizesOf(c, S)
<1>2. /\ fees \in 0..feeWallet
      /\ prizes \in 0..pool[c]
      /\ wallet' = [u \in Users |-> IF u \in S THEN wallet[u] + admission[c][u].total
                                              ELSE wallet[u]]
      /\ feeWallet' = feeWallet - fees
      /\ pool' = [pool EXCEPT ![c] = @ - prizes]
      /\ treasury' = treasury + fees + prizes
      /\ reversed' = [reversed EXCEPT ![c] = @ \union S]
  BY DEF ReverseContestAdmission, Reversible
<1> HIDE DEF fees, prizes
<1>3. wallet' \in [Users -> Nat]
  <2>1. \A u \in Users : admission[c][u].total \in Nat
    BY <1>1 DEF AdmissionLedger
  <2> QED BY <1>1, <1>2, <2>1
<1>4. treasury' \in Nat /\ feeWallet' \in Nat /\ pool' \in [Contests -> Nat]
  BY <1>1, <1>2
<1>5. reversed' \in [Contests -> SUBSET Users]
  BY <1>1, <1>2
<1>6. CustodyMoves
  <2>1. \A d \in Contests \ {c} : pool'[d] = pool[d]
    BY <1>1, <1>2
  <2>2. treasury' + feeWallet' + pool'[c] = treasury + feeWallet + pool[c]
    BY <1>1, <1>2
  <2> QED BY <2>1, <2>2 DEF CustodyMoves
<1> QED BY <1>2, <1>3, <1>4, <1>5, <1>6

\* A join keeps the invariant: the debit is split without a cent lost, and a user
\* who never took part has nothing reversed.
LEMMA JoinSafe ==
    ASSUME SafetyInv, NEW c \in Contests, NEW u \in Users, JoinContest(c, u)
    PROVE  SafetyInv' /\ CustodyMoves
<1> DEFINE charge == Charge(c, status[c] = "running")
<1> USE DEF SafetyInv
<1>1. charge \in AdmissionLedger /\ charge.base + charge.late + charge.prize = charge.total
  BY ChargeSplits
<1>2. /\ charge.base \in Nat /\ charge.late \in Nat /\ charge.prize \in Nat
      /\ charge.total \in Nat
  BY <1>1 DEF AdmissionLedger
<1>3. /\ participant[c][u] = "none"
      /\ participant' = [participant EXCEPT ![c][u] = "ACTIVE"]
      /\ joinBegun' = [joinBegun EXCEPT ![c] = @ \ {u}]
      /\ joinedLate' \in {joinedLate, [joinedLate EXCEPT ![c] = @ \union {u}]}
      /\ admission' = [admission EXCEPT ![c][u] = charge]
      /\ wallet[u] >= charge.total
      /\ wallet' = [wallet EXCEPT ![u] = @ - charge.total]
      /\ treasury >= charge.base + charge.late + charge.prize
      /\ treasury' = treasury - (charge.base + charge.late + charge.prize)
      /\ feeWallet' = feeWallet + charge.base + charge.late
      /\ pool' = [pool EXCEPT ![c] = @ + charge.prize]
      /\ prizeNet' = [prizeNet EXCEPT ![c] = @ + charge.prize]
      /\ confirmed' = [confirmed EXCEPT ![c] = ConfirmedAfter(c, u)]
      /\ commission' \in {commission, [commission EXCEPT ![c][u] = "pending"]}
      /\ UNCHANGED <<status, lateWindow, cutoffPool, lockPending, reversed, depositVars>>
  BY DEF JoinContest, DeductContestEntryFee, AllocateCharge, ProcessAffiliateCommission
<1> HIDE DEF charge
<1>4. TypeOK'
  <2>1. participant' \in [Contests -> [Users -> ParticipantStatuses]]
    BY <1>3 DEF TypeOK, ParticipantStatuses
  <2>2. admission' \in [Contests -> [Users -> AdmissionLedger]]
    BY <1>1, <1>3 DEF TypeOK
  <2>3. joinBegun' \in [Contests -> SUBSET Users] /\ joinedLate' \in [Contests -> SUBSET Users]
    <3>1. joinBegun \in [Contests -> SUBSET Users] /\ joinedLate \in [Contests -> SUBSET Users]
      BY DEF TypeOK
    <3>2. joinBegun' \in [Contests -> SUBSET Users]
      BY <1>3, <3>1
    <3>3. [joinedLate EXCEPT ![c] = @ \union {u}] \in [Contests -> SUBSET Users]
      BY <3>1
    <3> QED BY <1>3, <3>1, <3>2, <3>3
  <2>4. /\ wallet' \in [Users -> Nat]
        /\ treasury' \in Nat /\ feeWallet' \in Nat
    <3>1. wallet \in [Users -> Nat] /\ treasury \in Nat /\ feeWallet \in Nat
      BY DEF TypeOK
    <3>2. wallet[u] - charge.total \in Nat
      BY <1>2, <1>3, <3>1
    <3>3. wallet' \in [Users -> Nat]
      BY <1>3, <3>1, <3>2
    <3>4. treasury' \in Nat /\ feeWallet' \in Nat
      BY <1>2, <1>3, <3>1
    <3> QED BY <3>3, <3>4
  <2>5. pool' \in [Contests -> Nat] /\ prizeNet' \in [Contests -> Nat]
    BY <1>2, <1>3 DEF TypeOK
  <2>6. confirmed' \in [Contests -> BOOLEAN]
    <3>1. ConfirmedAfter(c, u) \in BOOLEAN
      BY DEF TypeOK, ConfirmedAfter
    <3> QED BY <1>3, <3>1 DEF TypeOK
  <2>7. commission' \in [Contests -> [Users -> CommissionStatuses]]
    <3>1. commission \in [Contests -> [Users -> CommissionStatuses]]
      BY DEF TypeOK
    <3>2. [commission EXCEPT ![c][u] = "pending"] \in [Contests -> [Users -> CommissionStatuses]]
      BY <3>1 DEF CommissionStatuses
    <3> QED BY <1>3, <3>1, <3>2
  <2> QED BY <1>3, <2>1, <2>2, <2>3, <2>4, <2>5, <2>6, <2>7 DEF TypeOK, depositVars
<1>5. RefundedIffReversed'
  BY <1>3 DEF RefundedIffReversed, TypeOK
<1>6. AdmissionsSplit'
  BY <1>1, <1>3 DEF AdmissionsSplit, TypeOK
<1>7. CutoffAfterStart'
  BY <1>3 DEF CutoffAfterStart
<1>8. CustodyMoves
  <2>1. \A d \in Contests \ {c} : pool'[d] = pool[d]
    BY <1>3 DEF TypeOK
  <2>2. treasury' + feeWallet' + pool'[c] = treasury + feeWallet + pool[c]
    BY <1>2, <1>3 DEF TypeOK
  <2> QED BY <2>1, <2>2 DEF CustodyMoves
<1> QED BY <1>4, <1>5, <1>6, <1>7, <1>8

\* Removing a participant keeps the invariant, refunded or forfeited, and refunds
\* nothing once the cutoff is taken.
LEMMA RemoveSafe ==
    ASSUME SafetyInv, NEW c \in Contests, NEW u \in Users, NEW refund \in BOOLEAN,
           RemoveParticipant(c, u, refund)
    PROVE  /\ SafetyInv'
           /\ CustodyMoves
           /\ \A d \in Contests : cutoffPool[d] # NoSnapshot => reversed'[d] = reversed[d]
<1> USE DEF SafetyInv
<1>1. /\ participant[c][u] = "ACTIVE"
      /\ UNCHANGED <<contestVars, joinBegun, joinedLate, admission, commission, depositVars>>
  BY DEF RemoveParticipant
<1>2. CASE refund
  <2> DEFINE S == Paid(c, {u})
  <2>1. /\ RefundOpen(c)
        /\ ReverseContestAdmission(c, S)
        /\ participant' = [participant EXCEPT ![c][u] = "REFUNDED"]
    BY <1>2 DEF RemoveParticipant
  <2>2. S \in SUBSET Users /\ \A x \in Users : x \in S <=> x = u /\ admission[c][u].total > 0
    BY DEF Paid
  <2> HIDE DEF S
  <2>3. /\ wallet' \in [Users -> Nat] /\ treasury' \in Nat /\ feeWallet' \in Nat
        /\ pool' \in [Contests -> Nat] /\ reversed' = [reversed EXCEPT ![c] = @ \union S]
        /\ reversed' \in [Contests -> SUBSET Users] /\ CustodyMoves
    BY <2>1, <2>2, ReversalMoves
  <2>4. TypeOK'
    <3>1. participant' \in [Contests -> [Users -> ParticipantStatuses]]
      BY <2>1 DEF TypeOK, ParticipantStatuses
    <3> QED BY <1>1, <2>3, <3>1 DEF TypeOK, contestVars, depositVars
  <2>5. RefundedIffReversed'
    BY <1>1, <2>1, <2>2, <2>3 DEF RefundedIffReversed, TypeOK
  <2>6. AdmissionsSplit'
    BY <1>1, <2>1 DEF AdmissionsSplit, TypeOK
  <2>7. CutoffAfterStart'
    BY <1>1 DEF CutoffAfterStart, contestVars
  <2>8. \A d \in Contests : cutoffPool[d] # NoSnapshot => reversed'[d] = reversed[d]
    BY <2>1, <2>3 DEF RefundOpen, TypeOK
  <2> QED BY <2>3, <2>4, <2>5, <2>6, <2>7, <2>8
<1>3. CASE ~refund
  <2>1. /\ participant' = [participant EXCEPT ![c][u] = "DISQUALIFIED"]
        /\ UNCHANGED <<wallet, custodyVars, reversed>>
    BY <1>3 DEF RemoveParticipant
  <2>2. TypeOK'
    <3>1. participant' \in [Contests -> [Users -> ParticipantStatuses]]
      BY <2>1 DEF TypeOK, ParticipantStatuses
    <3> QED BY <1>1, <2>1, <3>1 DEF TypeOK, contestVars, depositVars, custodyVars
  <2>3. RefundedIffReversed'
    BY <1>1, <2>1 DEF RefundedIffReversed, TypeOK
  <2>4. AdmissionsSplit'
    BY <1>1, <2>1 DEF AdmissionsSplit, TypeOK
  <2>5. CutoffAfterStart'
    BY <1>1 DEF CutoffAfterStart, contestVars
  <2> QED BY <2>1, <2>2, <2>3, <2>4, <2>5 DEF CustodyMoves
<1> QED BY <1>2, <1>3

\* Cancelling a contest refunds its ACTIVE participants once each and keeps the
\* invariant.
LEMMA CancelSafe ==
    ASSUME SafetyInv, NEW c \in Contests, CancelContestAtomic(c)
    PROVE  /\ SafetyInv'
           /\ CustodyMoves
           /\ \A d \in Contests : cutoffPool[d] # NoSnapshot => reversed'[d] = reversed[d]
<1> USE DEF SafetyInv
<1> DEFINE S == Paid(c, Active(c))
<1>1. /\ RefundOpen(c)
      /\ ReverseContestAdmission(c, S)
      /\ participant' = [participant EXCEPT ![c] =
             [u \in Users |-> IF u \in Active(c) THEN "CANCELLED" ELSE participant[c][u]]]
      /\ status' = [status EXCEPT ![c] = "cancelled"]
      /\ UNCHANGED <<lateWindow, confirmed, cutoffPool, lockPending, prizeNet,
                     joinBegun, joinedLate, admission, commission, depositVars>>
  BY DEF CancelContestAtomic
<1>2. /\ S \in SUBSET Users
      /\ \A u \in Users : u \in S <=> participant[c][u] = "ACTIVE" /\ admission[c][u].total > 0
  BY DEF Paid, Active
<1> HIDE DEF S
<1>3. /\ wallet' \in [Users -> Nat] /\ treasury' \in Nat /\ feeWallet' \in Nat
      /\ pool' \in [Contests -> Nat] /\ reversed' = [reversed EXCEPT ![c] = @ \union S]
      /\ reversed' \in [Contests -> SUBSET Users] /\ CustodyMoves
  BY <1>1, <1>2, ReversalMoves
<1>4. \A d \in Contests, u \in Users :
         participant'[d][u] = IF d = c /\ participant[c][u] = "ACTIVE"
                              THEN "CANCELLED" ELSE participant[d][u]
  BY <1>1 DEF TypeOK, Active
<1>5. TypeOK'
  <2>1. participant' \in [Contests -> [Users -> ParticipantStatuses]]
    BY <1>1 DEF TypeOK, ParticipantStatuses
  <2>2. status' \in [Contests -> Statuses]
    BY <1>1 DEF TypeOK, Statuses
  <2> QED BY <1>1, <1>3, <2>1, <2>2 DEF TypeOK, depositVars
<1>6. RefundedIffReversed'
  BY <1>1, <1>2, <1>3, <1>4 DEF RefundedIffReversed, TypeOK
<1>7. AdmissionsSplit'
  BY <1>1, <1>4 DEF AdmissionsSplit, TypeOK
<1>8. CutoffAfterStart'
  BY <1>1 DEF CutoffAfterStart, RefundOpen, TypeOK
<1>9. \A d \in Contests : cutoffPool[d] # NoSnapshot => reversed'[d] = reversed[d]
  BY <1>1, <1>3 DEF RefundOpen, TypeOK
<1> QED BY <1>3, <1>5, <1>6, <1>7, <1>8, <1>9

-----------------------------------------------------------------------------
(* The steps of the contest row. *)

\* The net pool the prize lock computes is an amount.
LEMMA NetPoolType ==
    ASSUME NEW c \in Contests, NEW n \in Nat
    PROVE  NetPool(c, n) \in Nat
<1>1. EntryFee[c] \in Nat /\ CommissionBps[c] \in Nat
  BY ContestsTyped
<1>2. ASSUME NEW cents \in Nat, NEW bps \in {0} \union ValidFeeBps
      PROVE  Share(cents, 10000 - bps) \in Nat
  <2>1. 10000 - bps \in Nat
    BY DEF ValidFeeBps
  <2>2. cents * (10000 - bps) \in Nat
    BY <2>1
  <2> DEFINE x == cents * (10000 - bps)
  <2> HIDE DEF x
  <2>3. x \in Nat
    BY <2>2 DEF x
  <2>4. x \div 10000 \in Nat
    BY <2>3
  <2> QED BY <2>4 DEF Share, x
<1>3. n * EntryFee[c] \in Nat
  BY <1>1
<1> DEFINE bps == IF CommissionBps[c] = 0 THEN 0 ELSE ResolvePlatformFeeBps(CommissionBps[c])
<1>4. bps \in {0} \union ValidFeeBps
  BY <1>1, ResolvedFee, Zenon
<1>5. NetPool(c, n) = Share(n * EntryFee[c], 10000 - bps)
  BY Zenon DEF NetPool
<1> HIDE DEF bps
<1>6. Share(n * EntryFee[c], 10000 - bps) \in Nat
  BY <1>2, <1>3, <1>4
<1> QED BY <1>5, <1>6

\* A step that touches nothing but the contest row keeps the invariant when it
\* keeps the row's types and takes no cutoff before the start.
LEMMA ContestRowSafe ==
    ASSUME SafetyInv, UNCHANGED <<admissionVars, depositVars, wallet, custodyVars>>,
           status' \in [Contests -> Statuses],
           lateWindow' \in [Contests -> LateWindows],
           confirmed' \in [Contests -> BOOLEAN],
           cutoffPool' \in [Contests -> Nat \union {NoSnapshot}],
           lockPending' \in [Contests -> Nat \union {NoLock}],
           prizeNet' \in [Contests -> Nat],
           CutoffAfterStart'
    PROVE  SafetyInv' /\ CustodyMoves /\ reversed' = reversed
BY DEF SafetyInv, TypeOK, RefundedIffReversed, AdmissionsSplit, CustodyMoves,
       admissionVars, depositVars, custodyVars

\* What a step may do to the economics cutoff and the reversals it closes.
CutoffRespected ==
    \A d \in Contests : cutoffPool[d] # NoSnapshot =>
        reversed'[d] = reversed[d] /\ cutoffPool'[d] = cutoffPool[d]

\* Start, pause, resume, end, cancel by the state machine, the prize lock and the
\* cutoff keep the invariant; none of them moves money or replaces a snapshot.
LEMMA ContestStepSafe ==
    ASSUME SafetyInv, NEW c \in Contests,
           \/ \E to \in Statuses : SimpleTransition(c, to)
           \/ StartContest(c)
           \/ ResumeContest(c)
           \/ CancelTransition(c)
           \/ LockPrizes(c)
           \/ LoseSideEffect(c)
           \/ CutoffTimePasses(c)
           \/ EnsureEconomicsCutoff(c)
    PROVE  SafetyInv' /\ CustodyMoves /\ CutoffRespected
<1>1. /\ status \in [Contests -> Statuses]
      /\ lateWindow \in [Contests -> LateWindows]
      /\ confirmed \in [Contests -> BOOLEAN]
      /\ cutoffPool \in [Contests -> Nat \union {NoSnapshot}]
      /\ lockPending \in [Contests -> Nat \union {NoLock}]
      /\ prizeNet \in [Contests -> Nat]
      /\ pool \in [Contests -> Nat]
      /\ CutoffAfterStart
  BY DEF SafetyInv, TypeOK
<1>2. CASE \E to \in Statuses : SimpleTransition(c, to)
  <2>1. PICK to \in Statuses : SimpleTransition(c, to)
    BY <1>2
  <2>2. /\ to \in {"scheduled", "registration_open", "registration_closed", "paused", "settling"}
        /\ CanTransition(status[c], to)
        /\ status' = [status EXCEPT ![c] = to]
        /\ UNCHANGED <<lateWindow, confirmed, cutoffPool, lockPending, prizeNet>>
        /\ UNCHANGED <<admissionVars, depositVars, wallet, custodyVars>>
    BY <2>1 DEF SimpleTransition
  <2>3. status' \in [Contests -> Statuses]
    BY <1>1, <2>2
  <2>4. CutoffAfterStart'
    <3>1. cutoffPool[c] # NoSnapshot => to \in {"running", "paused", "settling"}
      BY <1>1, <2>2 DEF CutoffAfterStart, CanTransition, validTransitions
    <3> QED BY <1>1, <2>2, <3>1 DEF CutoffAfterStart
  <2>5. SafetyInv' /\ CustodyMoves /\ reversed' = reversed
    BY <1>1, <2>2, <2>3, <2>4, ContestRowSafe
  <2> QED BY <2>2, <2>5 DEF CutoffRespected
<1>3. CASE StartContest(c)
  <2>1. /\ status[c] = "registration_closed"
        /\ cutoffPool' \in {cutoffPool, [cutoffPool EXCEPT ![c] = pool[c]]}
        /\ status' = [status EXCEPT ![c] = "running"]
        /\ lockPending' = [lockPending EXCEPT ![c] = Cardinality(Active(c))]
        /\ UNCHANGED <<lateWindow, confirmed, prizeNet>>
        /\ UNCHANGED <<admissionVars, depositVars, wallet, custodyVars>>
    BY <1>3 DEF StartContest
  <2>2. Cardinality(Active(c)) \in Nat
    BY UsersFinite, FS_Subset, FS_CardinalityType DEF Active
  <2>3. cutoffPool[c] = NoSnapshot
    BY <1>1, <2>1 DEF CutoffAfterStart
  <2>4. status' \in [Contests -> Statuses] /\ lockPending' \in [Contests -> Nat \union {NoLock}]
    BY <1>1, <2>1, <2>2 DEF Statuses
  <2>5. /\ cutoffPool' \in [Contests -> Nat \union {NoSnapshot}]
        /\ \A d \in Contests \ {c} : cutoffPool'[d] = cutoffPool[d]
    BY <1>1, <2>1
  <2>6. CutoffAfterStart'
    BY <1>1, <2>1, <2>5 DEF CutoffAfterStart
  <2>7. SafetyInv' /\ CustodyMoves /\ reversed' = reversed
    BY <1>1, <2>1, <2>4, <2>5, <2>6, ContestRowSafe
  <2> QED BY <2>3, <2>5, <2>7 DEF CutoffRespected
<1>4. CASE ResumeContest(c)
  <2>1. /\ status[c] = "paused"
        /\ status' = [status EXCEPT ![c] = "running"]
        /\ \/ UNCHANGED lateWindow
           \/ \E w \in {"open", "passed"} : lateWindow' = [lateWindow EXCEPT ![c] = w]
        /\ UNCHANGED <<confirmed, cutoffPool, lockPending, prizeNet>>
        /\ UNCHANGED <<admissionVars, depositVars, wallet, custodyVars>>
    BY <1>4 DEF ResumeContest
  <2>2. status' \in [Contests -> Statuses] /\ lateWindow' \in [Contests -> LateWindows]
    BY <1>1, <2>1 DEF Statuses, LateWindows
  <2>3. CutoffAfterStart'
    BY <1>1, <2>1 DEF CutoffAfterStart
  <2>4. SafetyInv' /\ CustodyMoves /\ reversed' = reversed
    BY <1>1, <2>1, <2>2, <2>3, ContestRowSafe
  <2> QED BY <2>1, <2>4 DEF CutoffRespected
<1>5. CASE CancelTransition(c)
  <2>1. /\ CanTransition(status[c], "cancelled")
        /\ status' = [status EXCEPT ![c] = "cancelled"]
        /\ UNCHANGED <<lateWindow, confirmed, cutoffPool, lockPending, prizeNet>>
        /\ UNCHANGED <<admissionVars, depositVars, wallet, custodyVars>>
    BY <1>5 DEF CancelTransition
  <2>2. status' \in [Contests -> Statuses]
    BY <1>1, <2>1 DEF Statuses
  <2>3. CutoffAfterStart'
    <3>1. cutoffPool[c] = NoSnapshot
      BY <1>1, <2>1 DEF CutoffAfterStart, CanTransition, validTransitions
    <3> QED BY <1>1, <2>1, <3>1 DEF CutoffAfterStart
  <2>4. SafetyInv' /\ CustodyMoves /\ reversed' = reversed
    BY <1>1, <2>1, <2>2, <2>3, ContestRowSafe
  <2> QED BY <2>1, <2>4 DEF CutoffRespected
<1>6. CASE LockPrizes(c) \/ LoseSideEffect(c)
  <2>1. /\ prizeNet' \in {prizeNet, [prizeNet EXCEPT ![c] = NetPool(c, lockPending[c])]}
        /\ lockPending[c] # NoLock
        /\ lockPending' = [lockPending EXCEPT ![c] = NoLock]
        /\ UNCHANGED <<status, lateWindow, confirmed, cutoffPool>>
        /\ UNCHANGED <<admissionVars, depositVars, wallet, custodyVars>>
    BY <1>6 DEF LockPrizes, LoseSideEffect
  <2>2. NetPool(c, lockPending[c]) \in Nat
    BY <1>1, <2>1, NetPoolType
  <2>3. prizeNet' \in [Contests -> Nat] /\ lockPending' \in [Contests -> Nat \union {NoLock}]
    BY <1>1, <2>1, <2>2
  <2>4. CutoffAfterStart'
    BY <1>1, <2>1 DEF CutoffAfterStart
  <2>5. SafetyInv' /\ CustodyMoves /\ reversed' = reversed
    BY <1>1, <2>1, <2>3, <2>4, ContestRowSafe
  <2> QED BY <2>1, <2>5 DEF CutoffRespected
<1>7. CASE CutoffTimePasses(c)
  <2>1. /\ \E w \in LateWindows : lateWindow' = [lateWindow EXCEPT ![c] = w]
        /\ UNCHANGED <<status, confirmed, cutoffPool, lockPending, prizeNet>>
        /\ UNCHANGED <<admissionVars, depositVars, wallet, custodyVars>>
    BY <1>7 DEF CutoffTimePasses, LateWindows
  <2>2. lateWindow' \in [Contests -> LateWindows]
    BY <1>1, <2>1
  <2>3. CutoffAfterStart'
    BY <1>1, <2>1 DEF CutoffAfterStart
  <2>4. SafetyInv' /\ CustodyMoves /\ reversed' = reversed
    BY <1>1, <2>1, <2>2, <2>3, ContestRowSafe
  <2> QED BY <2>1, <2>4 DEF CutoffRespected
<1>8. CASE EnsureEconomicsCutoff(c)
  <2>1. /\ status[c] \in {"running", "paused"}
        /\ cutoffPool[c] = NoSnapshot
        /\ cutoffPool' = [cutoffPool EXCEPT ![c] = pool[c]]
        /\ UNCHANGED <<status, lateWindow, confirmed, lockPending, prizeNet>>
        /\ UNCHANGED <<admissionVars, depositVars, wallet, custodyVars>>
    BY <1>8 DEF EnsureEconomicsCutoff
  <2>2. /\ cutoffPool' \in [Contests -> Nat \union {NoSnapshot}]
        /\ \A d \in Contests \ {c} : cutoffPool'[d] = cutoffPool[d]
    BY <1>1, <2>1
  <2>3. CutoffAfterStart'
    BY <1>1, <2>1, <2>2 DEF CutoffAfterStart
  <2>4. SafetyInv' /\ CustodyMoves /\ reversed' = reversed
    BY <1>1, <2>1, <2>2, <2>3, ContestRowSafe
  <2> QED BY <2>1, <2>2, <2>4 DEF CutoffRespected
<1> QED BY <1>2, <1>3, <1>4, <1>5, <1>6, <1>7, <1>8

-----------------------------------------------------------------------------
(* The remaining steps, and the theorems. *)

\* A commission is an amount.
LEMMA CommissionType ==
    ASSUME NEW c \in Contests, NEW u \in Users
    PROVE  Commission(c, u) \in Nat
<1> DEFINE x == EntryFee[c] * ReferralBps[u]
<1>1. EntryFee[c] \in Nat /\ ReferralBps[u] \in Nat
  BY ContestsTyped, ReferralsTyped
<1>2. x \in Nat
  BY <1>1
<1> HIDE DEF x
<1>3. x \div 10000 \in Nat
  BY <1>2
<1> QED BY <1>3 DEF x, Commission, Share

\* Deposits, withdrawals, freezing, commissions, and a join that has only begun.
LEMMA QuietStepSafe ==
    ASSUME SafetyInv,
           \/ WalletNext
           \/ \E c \in Contests, u \in Users :
                 BeginJoin(c, u) \/ AbortJoin(c, u) \/ CreditCommission(c, u)
    PROVE  SafetyInv' /\ (posted' = posted => CustodyMoves) /\ CutoffRespected
<1> USE DEF SafetyInv
<1>1. /\ posted \in SUBSET Intents /\ withdrawn \in [Users -> Nat]
      /\ wallet \in [Users -> Nat] /\ frozen \in [Users -> BOOLEAN]
      /\ treasury \in Nat /\ joinBegun \in [Contests -> SUBSET Users]
      /\ commission \in [Contests -> [Users -> CommissionStatuses]]
  BY DEF TypeOK
<1>2. ASSUME UNCHANGED <<contestVars, participant, joinedLate, admission, reversed>>,
             joinBegun' \in [Contests -> SUBSET Users],
             commission' \in [Contests -> [Users -> CommissionStatuses]],
             posted' \in SUBSET Intents,
             withdrawn' \in [Users -> Nat], wallet' \in [Users -> Nat],
             frozen' \in [Users -> BOOLEAN], treasury' \in Nat,
             UNCHANGED <<feeWallet, pool>>, posted' = posted => treasury' = treasury
      PROVE  SafetyInv' /\ (posted' = posted => CustodyMoves) /\ CutoffRespected
  BY <1>2 DEF TypeOK, RefundedIffReversed, AdmissionsSplit, CutoffAfterStart, CustodyMoves,
              CutoffRespected, contestVars, custodyVars
<1>3. CASE \E i \in Intents : PostConfirmedDeposit(i)
  <2>1. PICK i \in Intents : PostConfirmedDeposit(i)
    BY <1>3
  <2>2. IntentUser[i] \in Users /\ IntentAmount[i] \in Nat
    BY IntentsTyped
  <2>3. /\ i \notin posted /\ posted' = posted \union {i}
        /\ treasury' = treasury + IntentAmount[i]
        /\ wallet' = [wallet EXCEPT ![IntentUser[i]] = @ + IntentAmount[i]]
        /\ UNCHANGED <<contestVars, admissionVars, withdrawn, frozen, feeWallet, pool>>
    BY <2>1 DEF PostConfirmedDeposit, Postable
  <2>4. posted' \in SUBSET Intents /\ treasury' \in Nat /\ wallet' \in [Users -> Nat]
    BY <1>1, <2>2, <2>3
  <2> QED BY <1>1, <1>2, <2>3, <2>4 DEF admissionVars
<1>4. CASE \E u \in Users, a \in WithdrawAmounts : Withdraw(u, a)
  <2>1. PICK u \in Users, a \in WithdrawAmounts : Withdraw(u, a)
    BY <1>4
  <2>2. a \in Nat
    BY WithdrawTyped
  <2>3. /\ wallet[u] >= a
        /\ wallet' = [wallet EXCEPT ![u] = @ - a]
        /\ withdrawn' = [withdrawn EXCEPT ![u] = @ + a]
        /\ UNCHANGED <<contestVars, admissionVars, posted, frozen, custodyVars>>
    BY <2>1 DEF Withdraw
  <2>4. wallet' \in [Users -> Nat] /\ withdrawn' \in [Users -> Nat]
    <3>1. wallet[u] - a \in Nat /\ withdrawn[u] + a \in Nat
      BY <1>1, <2>2, <2>3
    <3> QED BY <1>1, <2>3, <3>1
  <2> QED BY <1>1, <1>2, <2>3, <2>4 DEF admissionVars, custodyVars
<1>5. CASE \E u \in Users : FreezeWallet(u) \/ UnfreezeWallet(u)
  <2>1. PICK u \in Users : FreezeWallet(u) \/ UnfreezeWallet(u)
    BY <1>5
  <2>2. /\ \E b \in BOOLEAN : frozen' = [frozen EXCEPT ![u] = b]
        /\ UNCHANGED <<contestVars, admissionVars, posted, withdrawn, wallet, custodyVars>>
    BY <2>1 DEF FreezeWallet, UnfreezeWallet
  <2>3. frozen' \in [Users -> BOOLEAN]
    BY <1>1, <2>2
  <2> QED BY <1>1, <1>2, <2>2, <2>3 DEF admissionVars, custodyVars
<1>6. CASE \E c \in Contests, u \in Users : BeginJoin(c, u) \/ AbortJoin(c, u)
  <2>1. PICK c \in Contests, u \in Users : BeginJoin(c, u) \/ AbortJoin(c, u)
    BY <1>6
  <2>2. /\ \E B \in SUBSET Users : joinBegun' = [joinBegun EXCEPT ![c] = B]
        /\ UNCHANGED <<contestVars, participant, joinedLate, admission, reversed, commission,
                       depositVars, wallet, custodyVars>>
    <3>1. joinBegun[c] \union {u} \in SUBSET Users /\ joinBegun[c] \ {u} \in SUBSET Users
      BY <1>1
    <3> QED BY <2>1, <3>1 DEF BeginJoin, AbortJoin
  <2>3. joinBegun' \in [Contests -> SUBSET Users]
    BY <1>1, <2>2
  <2> QED BY <1>1, <1>2, <2>2, <2>3 DEF depositVars, custodyVars
<1>7. CASE \E c \in Contests, u \in Users : CreditCommission(c, u)
  <2>1. PICK c \in Contests, u \in Users : CreditCommission(c, u)
    BY <1>7
  <2>2. Referrer[u] \in Users /\ Commission(c, u) \in Nat
    BY ReferralsTyped, CommissionType
  <2>3. /\ wallet' = [wallet EXCEPT ![Referrer[u]] = @ + Commission(c, u)]
        /\ commission' = [commission EXCEPT ![c][u] = "credited"]
        /\ UNCHANGED <<contestVars, participant, joinBegun, joinedLate, admission, reversed,
                       depositVars, custodyVars>>
    BY <2>1 DEF CreditCommission
  <2>4. wallet' \in [Users -> Nat]
    BY <1>1, <2>2, <2>3
  <2>5. commission' \in [Contests -> [Users -> CommissionStatuses]]
    BY <1>1, <2>3 DEF CommissionStatuses
  <2> QED BY <1>1, <1>2, <2>3, <2>4, <2>5 DEF depositVars, custodyVars
<1> QED BY <1>3, <1>4, <1>5, <1>6, <1>7 DEF WalletNext

\* Every step keeps the invariant, moves custody only between accounts unless it
\* posts a deposit, and respects the cutoff.
LEMMA NextSafe ==
    ASSUME SafetyInv, [Next]_vars
    PROVE  SafetyInv' /\ (posted' = posted => CustodyMoves) /\ CutoffRespected
<1>1. CASE WalletNext
  BY <1>1, QuietStepSafe
<1>2. CASE ParticipantNext
  <2>1. PICK c \in Contests, u \in Users :
           \/ BeginJoin(c, u) \/ AbortJoin(c, u) \/ CreditCommission(c, u)
           \/ JoinContest(c, u)
           \/ \E refund \in BOOLEAN : RemoveParticipant(c, u, refund)
    BY <1>2 DEF ParticipantNext
  <2>2. CASE BeginJoin(c, u) \/ AbortJoin(c, u) \/ CreditCommission(c, u)
    BY <2>2, QuietStepSafe
  <2>3. CASE JoinContest(c, u)
    <3>1. SafetyInv' /\ CustodyMoves
      BY <2>3, JoinSafe
    <3> QED BY <2>3, <3>1 DEF JoinContest, CutoffRespected
  <2>4. CASE \E refund \in BOOLEAN : RemoveParticipant(c, u, refund)
    <3>1. PICK refund \in BOOLEAN : RemoveParticipant(c, u, refund)
      BY <2>4
    <3>2. /\ SafetyInv' /\ CustodyMoves
          /\ \A d \in Contests : cutoffPool[d] # NoSnapshot => reversed'[d] = reversed[d]
      BY <3>1, RemoveSafe
    <3>3. UNCHANGED cutoffPool
      BY <3>1 DEF RemoveParticipant, contestVars
    <3> QED BY <3>2, <3>3 DEF CutoffRespected
  <2> QED BY <2>1, <2>2, <2>3, <2>4
<1>3. CASE ContestNext
  <2>1. PICK c \in Contests :
           \/ \E to \in Statuses : SimpleTransition(c, to)
           \/ StartContest(c) \/ ResumeContest(c) \/ CancelTransition(c)
           \/ CancelContestAtomic(c) \/ LockPrizes(c) \/ LoseSideEffect(c)
           \/ CutoffTimePasses(c) \/ EnsureEconomicsCutoff(c)
    BY <1>3 DEF ContestNext
  <2>2. CASE CancelContestAtomic(c)
    <3>1. /\ SafetyInv' /\ CustodyMoves
          /\ \A d \in Contests : cutoffPool[d] # NoSnapshot => reversed'[d] = reversed[d]
      BY <2>2, CancelSafe
    <3>2. UNCHANGED cutoffPool
      BY <2>2 DEF CancelContestAtomic
    <3> QED BY <3>1, <3>2 DEF CutoffRespected
  <2>3. CASE ~CancelContestAtomic(c)
    BY <2>1, <2>3, ContestStepSafe
  <2> QED BY <2>2, <2>3
<1>4. CASE UNCHANGED vars
  BY <1>4 DEF SafetyInv, TypeOK, RefundedIffReversed, AdmissionsSplit, CutoffAfterStart,
              CustodyMoves, CutoffRespected, vars, contestVars, admissionVars, depositVars,
              custodyVars
<1> QED BY <1>1, <1>2, <1>3, <1>4 DEF Next

\* Before anything has happened every ledger is empty, so the invariant holds.
LEMMA InitSafe == Init => SafetyInv
<1> SUFFICES ASSUME Init PROVE SafetyInv
  OBVIOUS
<1>1. NoAdmission \in AdmissionLedger
  BY DEF NoAdmission, AdmissionLedger
<1>2. TypeOK
  BY <1>1 DEF Init, TypeOK, Statuses, LateWindows, ParticipantStatuses, CommissionStatuses
<1>3. RefundedIffReversed /\ AdmissionsSplit /\ CutoffAfterStart
  BY DEF Init, RefundedIffReversed, AdmissionsSplit, CutoffAfterStart, NoAdmission
<1> QED BY <1>2, <1>3 DEF SafetyInv

\* The inductive invariant holds in every reachable state.
THEOREM Safety == Spec => []SafetyInv
<1>1. SafetyInv /\ [Next]_vars => SafetyInv'
  BY NextSafe
<1> QED BY <1>1, InitSafe, PTL DEF Spec

\* Every balance stays a natural number and every row keeps its type: none of the
\* CHECK constraints on balances can ever refuse a commit.
THEOREM TypeCorrect == Spec => []TypeOK
<1>1. SafetyInv => TypeOK
  BY DEF SafetyInv
<1> QED BY <1>1, Safety, PTL

\* A paid participant is refunded once, and exactly when the participant row says
\* so, whatever removals and cancellations happen in whatever order.
THEOREM RefundExactlyOnce == Spec => []RefundedIffReversed
<1>1. SafetyInv => RefundedIffReversed
  BY DEF SafetyInv
<1> QED BY <1>1, Safety, PTL

\* No step refunds an admission or changes the snapshot after the cutoff.
THEOREM CutoffClosesRefunds == Spec => NoRefundAfterCutoff
<1>1. SafetyInv /\ [Next]_vars =>
        [\A c \in Contests : cutoffPool[c] # NoSnapshot =>
            reversed'[c] = reversed[c] /\ cutoffPool'[c] = cutoffPool[c]]_vars
  BY NextSafe DEF CutoffRespected
<1> QED BY <1>1, Safety, PTL DEF Spec, NoRefundAfterCutoff

\* Custody is conserved: only a confirmed deposit brings value in, every other
\* step moves it between the Treasury, the Fee Wallet and one Prize Pool.
THEOREM CustodyIsConserved == Spec => CustodyOnlyMoves
<1>1. SafetyInv /\ [Next]_vars => [posted' = posted => CustodyMoves]_vars
  BY NextSafe
<1> QED BY <1>1, Safety, PTL DEF Spec, CustodyOnlyMoves

-----------------------------------------------------------------------------
(* The steps, by what they do to the books. *)

\* No ledger, no balance and nobody's participation changes.
BooksQuiet ==
    /\ UNCHANGED <<posted, withdrawn, wallet, custodyVars, admission, reversed, commission>>
    /\ \A c \in Contests : Joined(c)' = Joined(c)

\* Admissions that stand are reversed, and nothing else happens to the books.
Refunding(c, S) ==
    /\ ReverseContestAdmission(c, S)
    /\ S \subseteq Standing(c)
    /\ UNCHANGED <<posted, withdrawn, admission, commission>>
    /\ \A d \in Contests : Joined(d)' = Joined(d)

\* Nobody who is ACTIVE has been refunded.
LEMMA ActiveStands ==
    ASSUME SafetyInv, NEW c \in Contests
    PROVE  Active(c) \subseteq Standing(c)
BY DEF SafetyInv, TypeOK, RefundedIffReversed, Active, Standing, Joined

\* A removal with refund reverses an admission that stands.
LEMMA RemovalRefunds ==
    ASSUME SafetyInv, NEW c \in Contests, NEW u \in Users, NEW refund \in BOOLEAN,
           RemoveParticipant(c, u, refund)
    PROVE  BooksQuiet \/ \E S \in SUBSET Users : Refunding(c, S)
<1>1. UNCHANGED <<posted, withdrawn, admission, commission>>
  BY DEF RemoveParticipant, depositVars
<1>2. u \in Standing(c)
  BY ActiveStands DEF RemoveParticipant, Active
<1>3. \A d \in Contests : Joined(d)' = Joined(d)
  <2>1. PICK s \in {"REFUNDED", "DISQUALIFIED"} :
           participant' = [participant EXCEPT ![c][u] = s]
    BY DEF RemoveParticipant
  <2>2. participant \in [Contests -> [Users -> ParticipantStatuses]] /\ participant[c][u] = "ACTIVE"
    BY DEF RemoveParticipant, SafetyInv, TypeOK
  <2>3. \A d \in Contests, v \in Users :
           participant'[d][v] # "none" <=> participant[d][v] # "none"
    BY <2>1, <2>2
  <2> QED BY <2>3 DEF Joined
<1>4. CASE refund
  <2>1. ReverseContestAdmission(c, Paid(c, {u})) /\ Paid(c, {u}) \subseteq Standing(c)
    BY <1>2, <1>4 DEF RemoveParticipant, Paid
  <2>2. Paid(c, {u}) \in SUBSET Users
    BY DEF Paid
  <2> QED BY <1>1, <1>3, <2>1, <2>2 DEF Refunding
<1>5. CASE ~refund
  BY <1>1, <1>3, <1>5 DEF RemoveParticipant, BooksQuiet, custodyVars
<1> QED BY <1>4, <1>5

\* A cancellation reverses admissions that stand.
LEMMA CancellationRefunds ==
    ASSUME SafetyInv, NEW c \in Contests, CancelContestAtomic(c)
    PROVE  \E S \in SUBSET Users : Refunding(c, S)
<1>1. UNCHANGED <<posted, withdrawn, admission, commission>>
  BY DEF CancelContestAtomic, depositVars
<1>2. \A d \in Contests : Joined(d)' = Joined(d)
  BY DEF CancelContestAtomic, Joined, Active, SafetyInv, TypeOK
<1>3. /\ ReverseContestAdmission(c, Paid(c, Active(c)))
      /\ Paid(c, Active(c)) \subseteq Standing(c)
      /\ Paid(c, Active(c)) \in SUBSET Users
  BY ActiveStands DEF CancelContestAtomic, Paid, Active
<1> QED BY <1>1, <1>2, <1>3 DEF Refunding

\* Every step is a deposit, a withdrawal, a join, a commission, a refund, or
\* leaves the books alone.
LEMMA BookSteps ==
    ASSUME SafetyInv, [Next]_vars
    PROVE  \/ \E i \in Intents : PostConfirmedDeposit(i)
           \/ \E u \in Users, a \in WithdrawAmounts : Withdraw(u, a)
           \/ \E c \in Contests, u \in Users : JoinContest(c, u)
           \/ \E c \in Contests, u \in Users : CreditCommission(c, u)
           \/ \E c \in Contests : \E S \in SUBSET Users : Refunding(c, S)
           \/ BooksQuiet
<1>1. CASE WalletNext
  <2>1. ASSUME NEW u \in Users, FreezeWallet(u) \/ UnfreezeWallet(u) PROVE BooksQuiet
    BY <2>1 DEF FreezeWallet, UnfreezeWallet, BooksQuiet, Joined, admissionVars
  <2> QED BY <1>1, <2>1 DEF WalletNext
<1>2. CASE ParticipantNext
  <2>1. PICK c \in Contests, u \in Users :
           \/ BeginJoin(c, u) \/ AbortJoin(c, u) \/ CreditCommission(c, u)
           \/ JoinContest(c, u)
           \/ \E refund \in BOOLEAN : RemoveParticipant(c, u, refund)
    BY <1>2 DEF ParticipantNext
  <2>2. CASE BeginJoin(c, u) \/ AbortJoin(c, u)
    BY <2>2 DEF BeginJoin, AbortJoin, BooksQuiet, Joined, depositVars
  <2>3. CASE \E refund \in BOOLEAN : RemoveParticipant(c, u, refund)
    BY <2>3, RemovalRefunds
  <2> QED BY <2>1, <2>2, <2>3
<1>3. CASE ContestNext
  <2>1. PICK c \in Contests :
           \/ \E to \in Statuses : SimpleTransition(c, to)
           \/ StartContest(c) \/ ResumeContest(c) \/ CancelTransition(c)
           \/ CancelContestAtomic(c) \/ LockPrizes(c) \/ LoseSideEffect(c)
           \/ CutoffTimePasses(c) \/ EnsureEconomicsCutoff(c)
    BY <1>3 DEF ContestNext
  <2>2. CASE CancelContestAtomic(c)
    BY <2>2, CancellationRefunds
  <2>3. CASE ~CancelContestAtomic(c)
    <3>1. UNCHANGED <<admissionVars, depositVars, wallet, custodyVars>>
      BY <2>1, <2>3 DEF SimpleTransition, StartContest, ResumeContest, CancelTransition,
           LockPrizes, LoseSideEffect, CutoffTimePasses, EnsureEconomicsCutoff
    <3> QED BY <3>1 DEF BooksQuiet, Joined, admissionVars, depositVars
  <2> QED BY <2>2, <2>3
<1>4. CASE UNCHANGED vars
  BY <1>4 DEF vars, admissionVars, depositVars, BooksQuiet, Joined
<1> QED BY <1>1, <1>2, <1>3, <1>4 DEF Next

-----------------------------------------------------------------------------
(* The functions the books sum, and their values. *)

Prizes(c) == [u \in Users |-> admission[c][u].prize]

Fees(c) == [u \in Users |-> admission[c][u].base + admission[c][u].late]

Totals(u) == [c \in Contests |-> admission[c][u].total]

Entered(u) == {c \in Contests : u \in Standing(c)}

Commissions == [x \in Contests \X Users |-> Commission(x[1], x[2])]

\* Everything the books sum is an amount, over a finite set of rows.
LEMMA Amounts ==
    ASSUME TypeOK
    PROVE  /\ \A c \in Contests, u \in Users :
                 /\ Prizes(c)[u] \in Nat /\ Prizes(c)[u] = admission[c][u].prize
                 /\ Fees(c)[u] \in Nat
                 /\ Fees(c)[u] = admission[c][u].base + admission[c][u].late
                 /\ Totals(u)[c] \in Nat /\ Totals(u)[c] = admission[c][u].total
           /\ \A c \in Contests : Standing(c) \in SUBSET Users /\ IsFiniteSet(Standing(c))
           /\ \A u \in Users : Entered(u) \in SUBSET Contests /\ IsFiniteSet(Entered(u))
           /\ \A u \in Users : Credited(u) \in SUBSET (Contests \X Users)
                                /\ IsFiniteSet(Credited(u))
           /\ \A x \in Contests \X Users : Commissions[x] \in Nat
<1>1. \A c \in Contests, u \in Users :
        /\ admission[c][u].prize \in Nat /\ admission[c][u].base \in Nat
        /\ admission[c][u].late \in Nat /\ admission[c][u].total \in Nat
  BY DEF TypeOK, AdmissionLedger
<1>2. \A c \in Contests, u \in Users :
        /\ Prizes(c)[u] \in Nat /\ Prizes(c)[u] = admission[c][u].prize
        /\ Fees(c)[u] \in Nat
        /\ Fees(c)[u] = admission[c][u].base + admission[c][u].late
        /\ Totals(u)[c] \in Nat /\ Totals(u)[c] = admission[c][u].total
  BY <1>1 DEF Prizes, Fees, Totals
<1>3. \A c \in Contests : Standing(c) \in SUBSET Users /\ IsFiniteSet(Standing(c))
  BY UsersFinite, FS_Subset DEF Standing, Joined
<1>4. \A u \in Users : Entered(u) \in SUBSET Contests /\ IsFiniteSet(Entered(u))
  BY TablesFinite, FS_Subset DEF Entered
<1>5. \A u \in Users : Credited(u) \in SUBSET (Contests \X Users) /\ IsFiniteSet(Credited(u))
  <2>1. IsFiniteSet(Contests \X Users)
    BY UsersFinite, TablesFinite, FS_Product
  <2>2. \A u \in Users : Credited(u) \in SUBSET (Contests \X Users)
    BY DEF Credited
  <2> QED BY <2>1, <2>2, FS_Subset
<1>6. \A x \in Contests \X Users : Commissions[x] \in Nat
  <2>1. \A c \in Contests, u \in Users : Commission(c, u) \in Nat
    BY CommissionType
  <2> QED BY <2>1 DEF Commissions
<1> QED BY <1>2, <1>3, <1>4, <1>5, <1>6

\* The balances of the books are sums of those functions.
LEMMA Books ==
    /\ \A c, S : PrizesOf(c, S) = SumFunctionOnSet(Prizes(c), S)
    /\ \A c, S : FeesOf(c, S) = SumFunctionOnSet(Fees(c), S)
    /\ \A u : Spent(u) = SumFunctionOnSet(Totals(u), Entered(u))
    /\ \A u : Earned(u) = SumFunctionOnSet(Commissions, Credited(u))
BY Zenon DEF PrizesOf, FeesOf, Spent, Earned, Prizes, Fees, Totals, Entered, Commissions

\* So they are amounts.
LEMMA BalancesTyped ==
    ASSUME TypeOK
    PROVE  /\ \A c \in Contests : PrizesOf(c, Standing(c)) \in Nat
                                 /\ FeesOf(c, Standing(c)) \in Nat
           /\ \A u \in Users : Spent(u) \in Nat /\ Earned(u) \in Nat /\ Deposited(u) \in Nat
<1>1. \A c \in Contests : /\ SumFunctionOnSet(Prizes(c), Standing(c)) \in Nat
                          /\ SumFunctionOnSet(Fees(c), Standing(c)) \in Nat
  <2> TAKE c \in Contests
  <2>1. \A u \in Standing(c) : Prizes(c)[u] \in Nat /\ Fees(c)[u] \in Nat
    BY Amounts
  <2> QED BY <2>1, Amounts, SumNat
<1>2. \A u \in Users : SumFunctionOnSet(Totals(u), Entered(u)) \in Nat
  <2> TAKE u \in Users
  <2>1. \A c \in Entered(u) : Totals(u)[c] \in Nat
    BY Amounts
  <2> QED BY <2>1, Amounts, SumNat
<1>3. \A u \in Users : SumFunctionOnSet(Commissions, Credited(u)) \in Nat
  <2> TAKE u \in Users
  <2>1. \A x \in Credited(u) : Commissions[x] \in Nat
    BY Amounts
  <2> QED BY <2>1, Amounts, SumNat
<1>4. \A u \in Users : Deposited(u) \in Nat
  <2> TAKE u \in Users
  <2> DEFINE I == {i \in posted : IntentUser[i] = u}
  <2>1. I \in SUBSET Intents /\ IsFiniteSet(I)
    BY TablesFinite, FS_Subset DEF TypeOK
  <2>2. \A i \in I : IntentAmount[i] \in Nat
    BY <2>1, IntentsTyped
  <2> HIDE DEF I
  <2>3. SumFunctionOnSet(IntentAmount, I) \in Nat
    BY <2>1, <2>2, SumNat
  <2> QED BY <2>3 DEF Deposited, I
<1> QED BY <1>1, <1>2, <1>3, <1>4, Books

-----------------------------------------------------------------------------
(* The ledgers, step by step. *)

\* The part of LedgersAgree that compares balances with sums of rows.
SumsAgree ==
    CustodyConserved /\ WalletsReconcile /\ TreasuryCoversWallets /\ AdmissionsBacked

\* While the admissions and their reversals stay, so does what they put anywhere.
LEMMA SameAdmissions ==
    ASSUME UNCHANGED <<admission, reversed>>, \A c \in Contests : Joined(c)' = Joined(c)
    PROVE  /\ \A c \in Contests : PrizesOf(c, Standing(c))' = PrizesOf(c, Standing(c))
           /\ \A c \in Contests : FeesOf(c, Standing(c))' = FeesOf(c, Standing(c))
           /\ \A u \in Users : Spent(u)' = Spent(u)
<1>1. \A c \in Contests : Standing(c)' = Standing(c)
  BY DEF Standing
<1>2. \A u \in Users : Entered(u)' = Entered(u) /\ Totals(u)' = Totals(u)
  BY <1>1 DEF Entered, Totals
<1>3. \A c \in Contests : Prizes(c)' = Prizes(c) /\ Fees(c)' = Fees(c)
  BY DEF Prizes, Fees
<1> QED BY <1>1, <1>2, <1>3, Zenon DEF PrizesOf, FeesOf, Spent, Prizes, Fees, Totals, Entered

\* While no commission is credited, nobody earns one.
LEMMA SameCommissions ==
    ASSUME \A c \in Contests, u \in Users :
               commission'[c][u] = "credited" <=> commission[c][u] = "credited"
    PROVE  /\ \A u \in Users : Earned(u)' = Earned(u)
           /\ [u \in Users |-> Earned(u)]' = [u \in Users |-> Earned(u)]
<1>1. \A u \in Users : Credited(u)' = Credited(u)
  BY DEF Credited
<1>2. \A u \in Users : Earned(u)' = Earned(u)
  BY <1>1, Zenon DEF Earned
<1> QED BY <1>2

\* A quiet step leaves both sides of every equation alone.
LEMMA QuietKeepsSums ==
    ASSUME SumsAgree, BooksQuiet
    PROVE  SumsAgree'
<1>1. /\ UNCHANGED <<posted, withdrawn, wallet, treasury, feeWallet, pool>>
      /\ UNCHANGED <<admission, reversed, commission>>
      /\ \A c \in Contests : Joined(c)' = Joined(c)
  BY DEF BooksQuiet, custodyVars
<1>2. /\ \A c \in Contests : PrizesOf(c, Standing(c))' = PrizesOf(c, Standing(c))
      /\ \A c \in Contests : FeesOf(c, Standing(c))' = FeesOf(c, Standing(c))
      /\ \A u \in Users : Spent(u)' = Spent(u)
  BY <1>1, SameAdmissions
<1>3. /\ \A u \in Users : Earned(u)' = Earned(u)
      /\ [u \in Users |-> Earned(u)]' = [u \in Users |-> Earned(u)]
  BY <1>1, SameCommissions
<1>4. \A u \in Users : Deposited(u)' = Deposited(u)
  BY <1>1, Zenon DEF Deposited
<1>5. CustodyConserved'
  BY <1>1, Zenon DEF SumsAgree, CustodyConserved
<1>6. WalletsReconcile'
  BY <1>1, <1>2, <1>3, <1>4 DEF SumsAgree, WalletsReconcile
<1>7. TreasuryCoversWallets'
  BY <1>1, <1>3, Zenon DEF SumsAgree, TreasuryCoversWallets
<1>8. AdmissionsBacked'
  <2>1. [c \in Contests |-> FeesOf(c, Standing(c))]' = [c \in Contests |-> FeesOf(c, Standing(c))]
    BY <1>2
  <2>2. \A c \in Contests : (pool[c] = PrizesOf(c, Standing(c)))'
    BY <1>1, <1>2 DEF SumsAgree, AdmissionsBacked
  <2> QED BY <1>1, <2>1, <2>2, Zenon DEF SumsAgree, AdmissionsBacked
<1> QED BY <1>5, <1>6, <1>7, <1>8 DEF SumsAgree

\* Wallets, withdrawals and commissions sum to amounts, user by user.
LEMMA UserSums ==
    ASSUME TypeOK
    PROVE  /\ \A u \in Users : /\ wallet[u] \in Int /\ withdrawn[u] \in Int
                                /\ [v \in Users |-> Earned(v)][u] \in Int
           /\ SumFunctionOnSet(wallet, Users) \in Int
           /\ SumFunctionOnSet(withdrawn, Users) \in Int
           /\ SumFunctionOnSet([v \in Users |-> Earned(v)], Users) \in Int
<1>1. \A u \in Users : wallet[u] \in Int /\ withdrawn[u] \in Int
  BY DEF TypeOK
<1> DEFINE E == [v \in Users |-> Earned(v)]
<1>2. \A u \in Users : E[u] \in Int
  BY BalancesTyped
<1> HIDE DEF E
<1>3. /\ SumFunctionOnSet(wallet, Users) \in Int /\ SumFunctionOnSet(withdrawn, Users) \in Int
      /\ SumFunctionOnSet(E, Users) \in Int
  BY <1>1, <1>2, UsersFinite, SumInt
<1> QED BY <1>1, <1>2, <1>3 DEF E

\* The custody accounts sum to amounts.
LEMMA CustodySums ==
    ASSUME TypeOK
    PROVE  /\ \A c \in Contests : pool[c] \in Int
           /\ SumFunctionOnSet(pool, Contests) \in Int
           /\ IsFiniteSet(posted)
           /\ \A i \in Intents : IntentAmount[i] \in Int
           /\ SumFunctionOnSet(IntentAmount, posted) \in Int
<1>1. \A c \in Contests : pool[c] \in Int
  BY DEF TypeOK
<1>2. IsFiniteSet(posted)
  BY TablesFinite, FS_Subset DEF TypeOK
<1>3. \A i \in Intents : IntentAmount[i] \in Int
  BY IntentsTyped
<1>4. \A i \in posted : IntentAmount[i] \in Int
  BY <1>3 DEF TypeOK
<1> QED BY <1>1, <1>2, <1>3, <1>4, TablesFinite, SumInt

\* A step that posts no deposit moves custody without losing a cent.
LEMMA MovesConserve ==
    ASSUME TypeOK, TypeOK', CustodyConserved, posted' = posted, CustodyMoves
    PROVE  CustodyConserved'
<1>1. CASE UNCHANGED custodyVars
  BY <1>1, Zenon DEF custodyVars, CustodyConserved
<1>2. CASE ~UNCHANGED custodyVars
  <2>1. PICK c \in Contests :
          /\ \A d \in Contests \ {c} : pool'[d] = pool[d]
          /\ treasury' + feeWallet' + pool'[c] = treasury + feeWallet + pool[c]
    BY <1>2 DEF CustodyMoves
  <2>2. \A d \in Contests : pool[d] \in Int /\ pool'[d] \in Int
    BY DEF TypeOK
  <2>3. SumFunctionOnSet(pool', Contests) = SumFunctionOnSet(pool, Contests) + pool'[c] - pool[c]
    BY <2>1, <2>2, TablesFinite, SumChange
  <2>4. SumFunctionOnSet(pool, Contests) \in Int
    BY CustodySums
  <2>5. /\ treasury \in Int /\ treasury' \in Int /\ feeWallet \in Int /\ feeWallet' \in Int
        /\ pool[c] \in Int /\ pool'[c] \in Int
    BY <2>2 DEF TypeOK
  <2>6. treasury' + feeWallet' + SumFunctionOnSet(pool', Contests)
          = treasury + feeWallet + SumFunctionOnSet(pool, Contests)
    BY <2>1, <2>3, <2>4, <2>5
  <2>7. SumFunctionOnSet(IntentAmount, posted') = SumFunctionOnSet(IntentAmount, posted)
    BY Zenon
  <2> QED BY <2>6, <2>7 DEF CustodyConserved
<1> QED BY <1>1, <1>2

\* A confirmed deposit enters the Treasury, the wallet and the ledger at once.
LEMMA DepositKeepsSums ==
    ASSUME TypeOK, TypeOK', SumsAgree, NEW i \in Intents, PostConfirmedDeposit(i)
    PROVE  SumsAgree'
<1> DEFINE u == IntentUser[i]
           a == IntentAmount[i]
<1>1. u \in Users /\ a \in Nat
  BY IntentsTyped
<1>2. /\ i \notin posted
      /\ posted' = posted \union {i}
      /\ treasury' = treasury + a
      /\ wallet' = [wallet EXCEPT ![u] = @ + a]
      /\ UNCHANGED <<withdrawn, feeWallet, pool, admission, reversed, commission, participant>>
  BY DEF PostConfirmedDeposit, Postable, admissionVars
<1>3. \A c \in Contests : Joined(c)' = Joined(c)
  BY <1>2 DEF Joined
<1>4. /\ \A c \in Contests : PrizesOf(c, Standing(c))' = PrizesOf(c, Standing(c))
      /\ \A c \in Contests : FeesOf(c, Standing(c))' = FeesOf(c, Standing(c))
      /\ \A v \in Users : Spent(v)' = Spent(v)
  BY <1>2, <1>3, SameAdmissions
<1>5. /\ \A v \in Users : Earned(v)' = Earned(v)
      /\ [v \in Users |-> Earned(v)]' = [v \in Users |-> Earned(v)]
  BY <1>2, SameCommissions
<1>6. \A v \in Users : Deposited(v)' = IF v = u THEN Deposited(v) + a ELSE Deposited(v)
  <2> TAKE v \in Users
  <2> DEFINE P == {j \in posted : IntentUser[j] = v}
             Q == {j \in posted' : IntentUser[j] = v}
  <2>1. Deposited(v) = SumFunctionOnSet(IntentAmount, P)
    BY Zenon DEF Deposited
  <2>2. Deposited(v)' = SumFunctionOnSet(IntentAmount, Q)
    BY Zenon DEF Deposited
  <2>3. P \in SUBSET Intents /\ IsFiniteSet(P) /\ i \notin P
    BY <1>2, CustodySums, FS_Subset DEF TypeOK
  <2>4. \A j \in P \union {i} : IntentAmount[j] \in Int
    BY <2>3, CustodySums
  <2>5. Q = IF v = u THEN P \union {i} ELSE P
    BY <1>2
  <2> HIDE DEF P, Q
  <2>6. SumFunctionOnSet(IntentAmount, P \union {i}) = SumFunctionOnSet(IntentAmount, P) + a
    BY <2>3, <2>4, SumAdd
  <2> QED BY <2>1, <2>2, <2>5, <2>6
<1> HIDE DEF u, a
<1>7. CustodyConserved'
  <2>1. \A j \in posted \union {i} : IntentAmount[j] \in Int
    BY CustodySums DEF TypeOK
  <2>2. SumFunctionOnSet(IntentAmount, posted') = SumFunctionOnSet(IntentAmount, posted) + a
    BY <1>2, <2>1, CustodySums, SumAdd DEF a
  <2>3. treasury' + feeWallet' + SumFunctionOnSet(pool', Contests)
          = treasury + feeWallet + SumFunctionOnSet(pool, Contests) + a
    <3>1. treasury \in Int /\ feeWallet \in Int /\ SumFunctionOnSet(pool, Contests) \in Int
      BY CustodySums DEF TypeOK
    <3>2. SumFunctionOnSet(pool', Contests) = SumFunctionOnSet(pool, Contests)
      BY <1>2
    <3> QED BY <1>1, <1>2, <3>1, <3>2
  <2> QED BY <2>2, <2>3 DEF SumsAgree, CustodyConserved
<1>8. WalletsReconcile'
  <2>1. \A v \in Users : wallet'[v] = IF v = u THEN wallet[v] + a ELSE wallet[v]
    BY <1>2 DEF TypeOK
  <2>2. \A v \in Users : wallet[v] \in Int /\ withdrawn[v] \in Int /\ Spent(v) \in Int
                          /\ Earned(v) \in Int /\ Deposited(v) \in Int
    BY BalancesTyped DEF TypeOK
  <2>3. \A v \in Users : wallet[v] + Spent(v) + withdrawn[v] = Deposited(v) + Earned(v)
    BY DEF SumsAgree, WalletsReconcile
  <2>4. \A v \in Users : wallet'[v] + Spent(v) + withdrawn[v] = Deposited(v)' + Earned(v)
    <3> TAKE v \in Users
    <3>1. /\ wallet[v] \in Int /\ withdrawn[v] \in Int /\ Spent(v) \in Int
          /\ Earned(v) \in Int /\ Deposited(v) \in Int
          /\ wallet[v] + Spent(v) + withdrawn[v] = Deposited(v) + Earned(v)
      BY <2>2, <2>3
    <3>2. CASE v = u
      BY <1>1, <1>6, <2>1, <3>1, <3>2
    <3>3. CASE v # u
      BY <1>1, <1>6, <2>1, <3>1, <3>3
    <3> QED BY <3>2, <3>3
  <2> QED BY <1>2, <1>4, <1>5, <2>4 DEF WalletsReconcile
<1>9. TreasuryCoversWallets'
  <2>1. \A v \in Users : wallet[v] \in Int /\ wallet'[v] \in Int
    BY DEF TypeOK
  <2>2. wallet'[u] = wallet[u] + a /\ \A v \in Users \ {u} : wallet'[v] = wallet[v]
    BY <1>1, <1>2 DEF TypeOK
  <2>3. SumFunctionOnSet(wallet', Users) = SumFunctionOnSet(wallet, Users) + wallet'[u] - wallet[u]
    BY <1>1, <2>1, <2>2, UsersFinite, SumChange
  <2> DEFINE E == [v \in Users |-> Earned(v)]
  <2>4. treasury + SumFunctionOnSet(E, Users)
           = SumFunctionOnSet(wallet, Users) + SumFunctionOnSet(withdrawn, Users)
    BY DEF SumsAgree, TreasuryCoversWallets
  <2>5. /\ treasury \in Int /\ SumFunctionOnSet(E, Users) \in Int
        /\ SumFunctionOnSet(wallet, Users) \in Int /\ SumFunctionOnSet(withdrawn, Users) \in Int
    BY UserSums DEF TypeOK
  <2>6. SumFunctionOnSet(E, Users)' = SumFunctionOnSet(E, Users)
    BY <1>5, Zenon
  <2>7. SumFunctionOnSet(withdrawn', Users) = SumFunctionOnSet(withdrawn, Users)
    BY <1>2
  <2>8. TreasuryCoversWallets' <=>
           treasury' + SumFunctionOnSet(E, Users)'
              = SumFunctionOnSet(wallet', Users) + SumFunctionOnSet(withdrawn', Users)
    BY Zenon DEF TreasuryCoversWallets
  <2> HIDE DEF E
  <2> QED BY <1>1, <1>2, <2>1, <2>2, <2>3, <2>4, <2>5, <2>6, <2>7, <2>8
<1>10. AdmissionsBacked'
  <2>1. [c \in Contests |-> FeesOf(c, Standing(c))]' = [c \in Contests |-> FeesOf(c, Standing(c))]
    BY <1>4
  <2>2. \A c \in Contests : (pool[c] = PrizesOf(c, Standing(c)))'
    BY <1>2, <1>4 DEF SumsAgree, AdmissionsBacked
  <2> QED BY <1>2, <2>1, <2>2, Zenon DEF SumsAgree, AdmissionsBacked
<1> QED BY <1>7, <1>8, <1>9, <1>10 DEF SumsAgree

\* A withdrawal takes from the wallet what its ledger row says.
LEMMA WithdrawKeepsSums ==
    ASSUME TypeOK, TypeOK', SumsAgree, NEW u \in Users, NEW a \in WithdrawAmounts,
           Withdraw(u, a)
    PROVE  SumsAgree'
<1>1. a \in Nat
  BY WithdrawTyped
<1>2. /\ wallet' = [wallet EXCEPT ![u] = @ - a]
      /\ withdrawn' = [withdrawn EXCEPT ![u] = @ + a]
      /\ UNCHANGED <<posted, treasury, feeWallet, pool, admission, reversed, commission, participant>>
  BY DEF Withdraw, admissionVars, custodyVars
<1>3. \A c \in Contests : Joined(c)' = Joined(c)
  BY <1>2 DEF Joined
<1>4. /\ \A c \in Contests : PrizesOf(c, Standing(c))' = PrizesOf(c, Standing(c))
      /\ \A c \in Contests : FeesOf(c, Standing(c))' = FeesOf(c, Standing(c))
      /\ \A v \in Users : Spent(v)' = Spent(v)
  BY <1>2, <1>3, SameAdmissions
<1>5. /\ \A v \in Users : Earned(v)' = Earned(v)
      /\ [v \in Users |-> Earned(v)]' = [v \in Users |-> Earned(v)]
  BY <1>2, SameCommissions
<1>6. \A v \in Users : Deposited(v)' = Deposited(v)
  BY <1>2, Zenon DEF Deposited
<1>7. CustodyConserved'
  BY <1>2, Zenon DEF SumsAgree, CustodyConserved
<1>8. \A v \in Users : wallet'[v] + withdrawn'[v] = wallet[v] + withdrawn[v]
  BY <1>1, <1>2 DEF TypeOK
<1>9. WalletsReconcile'
  <2> SUFFICES ASSUME NEW v \in Users
               PROVE  wallet'[v] + Spent(v)' + withdrawn'[v] = Deposited(v)' + Earned(v)'
    BY DEF WalletsReconcile
  <2>1. /\ wallet[v] \in Int /\ withdrawn[v] \in Int /\ Spent(v) \in Int
        /\ wallet'[v] \in Int /\ withdrawn'[v] \in Int
        /\ wallet[v] + Spent(v) + withdrawn[v] = Deposited(v) + Earned(v)
    BY BalancesTyped DEF TypeOK, SumsAgree, WalletsReconcile
  <2> QED BY <1>4, <1>5, <1>6, <1>8, <2>1
<1>10. TreasuryCoversWallets'
  <2>1. \A v \in Users : /\ wallet[v] \in Int /\ wallet'[v] \in Int
                          /\ withdrawn[v] \in Int /\ withdrawn'[v] \in Int
    BY DEF TypeOK
  <2>2. \A v \in Users \ {u} : wallet'[v] = wallet[v] /\ withdrawn'[v] = withdrawn[v]
    BY <1>2 DEF TypeOK
  <2>3. SumFunctionOnSet(wallet', Users) = SumFunctionOnSet(wallet, Users) + wallet'[u] - wallet[u]
    BY <2>1, <2>2, UsersFinite, SumChange
  <2>4. SumFunctionOnSet(withdrawn', Users)
          = SumFunctionOnSet(withdrawn, Users) + withdrawn'[u] - withdrawn[u]
    BY <2>1, <2>2, UsersFinite, SumChange
  <2>5. SumFunctionOnSet(wallet, Users) \in Int /\ SumFunctionOnSet(withdrawn, Users) \in Int
    BY UserSums
  <2>6. SumFunctionOnSet(wallet', Users) + SumFunctionOnSet(withdrawn', Users)
          = SumFunctionOnSet(wallet, Users) + SumFunctionOnSet(withdrawn, Users)
    BY <1>8, <2>1, <2>3, <2>4, <2>5
  <2>7. treasury' + SumFunctionOnSet([v \in Users |-> Earned(v)], Users)'
          = treasury + SumFunctionOnSet([v \in Users |-> Earned(v)], Users)
    BY <1>2, <1>5, Zenon
  <2> QED BY <2>6, <2>7, Zenon DEF SumsAgree, TreasuryCoversWallets
<1>11. AdmissionsBacked'
  <2>1. [c \in Contests |-> FeesOf(c, Standing(c))]' = [c \in Contests |-> FeesOf(c, Standing(c))]
    BY <1>4
  <2>2. \A c \in Contests : (pool[c] = PrizesOf(c, Standing(c)))'
    BY <1>2, <1>4 DEF SumsAgree, AdmissionsBacked
  <2> QED BY <1>2, <2>1, <2>2, Zenon DEF SumsAgree, AdmissionsBacked
<1> QED BY <1>7, <1>9, <1>10, <1>11 DEF SumsAgree

\* A commission credited is a ledger row of the referrer and of nobody else.
LEMMA CommissionKeepsSums ==
    ASSUME TypeOK, TypeOK', SumsAgree, NEW c \in Contests, NEW u \in Users,
           CreditCommission(c, u)
    PROVE  SumsAgree'
<1> DEFINE r == Referrer[u]
           k == Commission(c, u)
<1>1. r \in Users /\ k \in Nat
  BY ReferralsTyped, CommissionType
<1>2. /\ commission[c][u] = "pending"
      /\ wallet' = [wallet EXCEPT ![r] = @ + k]
      /\ commission' = [commission EXCEPT ![c][u] = "credited"]
      /\ UNCHANGED <<posted, withdrawn, treasury, feeWallet, pool, admission, reversed, participant>>
  BY DEF CreditCommission, Creditable, depositVars, custodyVars
<1>3. \A d \in Contests : Joined(d)' = Joined(d)
  BY <1>2 DEF Joined
<1>4. /\ \A d \in Contests : PrizesOf(d, Standing(d))' = PrizesOf(d, Standing(d))
      /\ \A d \in Contests : FeesOf(d, Standing(d))' = FeesOf(d, Standing(d))
      /\ \A v \in Users : Spent(v)' = Spent(v)
  BY <1>2, <1>3, SameAdmissions
<1>5. \A v \in Users : Earned(v)' = IF v = r THEN Earned(v) + k ELSE Earned(v)
  <2> TAKE v \in Users
  <2> DEFINE x == <<c, u>>
  <2>1. Credited(v)' = IF v = r THEN Credited(v) \union {x} ELSE Credited(v)
    BY <1>2 DEF Credited, TypeOK
  <2>2. x \notin Credited(v) /\ x \in Contests \X Users
    BY <1>2 DEF Credited
  <2>3. \A y \in Credited(v) \union {x} : Commissions[y] \in Int
    BY <2>2, Amounts
  <2>4. Commissions[x] = k
    BY DEF Commissions
  <2>5. Earned(v) = SumFunctionOnSet(Commissions, Credited(v))
    BY Books
  <2>6. Earned(v)' = SumFunctionOnSet(Commissions, Credited(v)')
    BY Zenon DEF Earned, Commissions
  <2>7. IsFiniteSet(Credited(v))
    BY Amounts
  <2> HIDE DEF x
  <2>8. SumFunctionOnSet(Commissions, Credited(v) \union {x})
           = SumFunctionOnSet(Commissions, Credited(v)) + Commissions[x]
    BY <2>2, <2>3, <2>7, SumAdd
  <2> QED BY <2>1, <2>4, <2>5, <2>6, <2>8
<1>6. \A v \in Users : Deposited(v)' = Deposited(v)
  BY <1>2, Zenon DEF Deposited
<1>7. CustodyConserved'
  BY <1>2, Zenon DEF SumsAgree, CustodyConserved
<1>8. \A v \in Users : wallet'[v] = IF v = r THEN wallet[v] + k ELSE wallet[v]
  BY <1>2 DEF TypeOK
<1> HIDE DEF r, k
<1>9. WalletsReconcile'
  <2> SUFFICES ASSUME NEW v \in Users
               PROVE  wallet'[v] + Spent(v)' + withdrawn'[v] = Deposited(v)' + Earned(v)'
    BY DEF WalletsReconcile
  <2>1. /\ wallet[v] \in Int /\ withdrawn[v] \in Int /\ Spent(v) \in Int
        /\ Deposited(v) \in Int /\ Earned(v) \in Int
        /\ wallet[v] + Spent(v) + withdrawn[v] = Deposited(v) + Earned(v)
    BY BalancesTyped DEF TypeOK, SumsAgree, WalletsReconcile
  <2>2. Spent(v)' = Spent(v) /\ withdrawn'[v] = withdrawn[v] /\ Deposited(v)' = Deposited(v)
    BY <1>2, <1>4, <1>6
  <2>3. CASE v = r
    <3>1. wallet'[v] = wallet[v] + k /\ Earned(v)' = Earned(v) + k
      BY <1>5, <1>8, <2>3
    <3> QED BY <1>1, <2>1, <2>2, <3>1
  <2>4. CASE v # r
    BY <1>1, <1>5, <1>8, <2>1, <2>2, <2>4
  <2> QED BY <2>3, <2>4
<1>10. TreasuryCoversWallets'
  <2> DEFINE E == [v \in Users |-> Earned(v)]
             F == [v \in Users |-> Earned(v)']
  <2>1. \A v \in Users : /\ wallet[v] \in Int /\ wallet'[v] \in Int
                          /\ E[v] \in Int /\ F[v] \in Int
    BY <1>1, <1>5, BalancesTyped DEF TypeOK
  <2>2. \A v \in Users \ {r} : wallet'[v] = wallet[v] /\ F[v] = E[v]
    BY <1>5, <1>8
  <2>3. wallet'[r] = wallet[r] + k /\ F[r] = E[r] + k
    BY <1>1, <1>5, <1>8
  <2>4. TreasuryCoversWallets' <=>
           treasury' + SumFunctionOnSet(F, Users)
              = SumFunctionOnSet(wallet', Users) + SumFunctionOnSet(withdrawn', Users)
    BY Zenon DEF TreasuryCoversWallets
  <2>5. treasury + SumFunctionOnSet(E, Users)
           = SumFunctionOnSet(wallet, Users) + SumFunctionOnSet(withdrawn, Users)
    BY DEF SumsAgree, TreasuryCoversWallets
  <2>6. /\ treasury \in Int /\ SumFunctionOnSet(E, Users) \in Int
        /\ SumFunctionOnSet(wallet, Users) \in Int /\ SumFunctionOnSet(withdrawn, Users) \in Int
    BY UserSums DEF TypeOK
  <2> HIDE DEF E, F
  <2>7. SumFunctionOnSet(wallet', Users) = SumFunctionOnSet(wallet, Users) + wallet'[r] - wallet[r]
    BY <1>1, <2>1, <2>2, UsersFinite, SumChange
  <2>8. SumFunctionOnSet(F, Users) = SumFunctionOnSet(E, Users) + F[r] - E[r]
    BY <1>1, <2>1, <2>2, UsersFinite, SumChange
  <2>9. treasury' = treasury /\ SumFunctionOnSet(withdrawn', Users) = SumFunctionOnSet(withdrawn, Users)
    BY <1>2
  <2>10. /\ wallet[r] \in Int /\ E[r] \in Int
         /\ SumFunctionOnSet(wallet', Users) = SumFunctionOnSet(wallet, Users) + k
         /\ SumFunctionOnSet(F, Users) = SumFunctionOnSet(E, Users) + k
    <3>1. wallet[r] \in Int /\ E[r] \in Int
      BY <1>1, <2>1
    <3> QED BY <1>1, <2>3, <2>6, <2>7, <2>8, <3>1
  <2>11. treasury' + SumFunctionOnSet(F, Users)
           = SumFunctionOnSet(wallet', Users) + SumFunctionOnSet(withdrawn', Users)
    <3>1. ASSUME NEW t \in Int, NEW e \in Int, NEW w \in Int, NEW d \in Int, NEW n \in Int,
                 t + e = w + d
          PROVE  t + (e + n) = (w + n) + d
      BY <3>1
    <3>2. k \in Int
      BY <1>1
    <3>3. treasury + (SumFunctionOnSet(E, Users) + k)
            = (SumFunctionOnSet(wallet, Users) + k) + SumFunctionOnSet(withdrawn, Users)
      BY <2>5, <2>6, <3>1, <3>2
    <3> QED BY <2>9, <2>10, <3>3, Zenon
  <2> QED BY <2>4, <2>11, Zenon
<1>11. AdmissionsBacked'
  <2>1. [d \in Contests |-> FeesOf(d, Standing(d))]' = [d \in Contests |-> FeesOf(d, Standing(d))]
    BY <1>4
  <2>2. \A d \in Contests : (pool[d] = PrizesOf(d, Standing(d)))'
    BY <1>2, <1>4 DEF SumsAgree, AdmissionsBacked
  <2> QED BY <1>2, <2>1, <2>2, Zenon DEF SumsAgree, AdmissionsBacked
<1> QED BY <1>7, <1>9, <1>10, <1>11 DEF SumsAgree

\* A refund takes every reversed admission out of the accounts it was allocated
\* to, and gives its total back to the wallet.
LEMMA RefundKeepsSums ==
    ASSUME SafetyInv, TypeOK', SumsAgree, NEW c \in Contests, NEW S \in SUBSET Users,
           Refunding(c, S)
    PROVE  SumsAgree'
<1> DEFINE fees == FeesOf(c, S)
           prizes == PrizesOf(c, S)
           Tot == [u \in Users |-> admission[c][u].total]
<1>0. TypeOK /\ IsFiniteSet(S)
  BY UsersFinite, FS_Subset DEF SafetyInv
<1>1. /\ wallet' = [u \in Users |-> IF u \in S THEN wallet[u] + admission[c][u].total
                                              ELSE wallet[u]]
      /\ feeWallet' = feeWallet - fees
      /\ pool' = [pool EXCEPT ![c] = @ - prizes]
      /\ treasury' = treasury + fees + prizes
      /\ reversed' = [reversed EXCEPT ![c] = @ \union S]
      /\ S \subseteq Standing(c)
      /\ \A d \in Contests : Joined(d)' = Joined(d)
      /\ UNCHANGED <<posted, withdrawn, admission, commission>>
      /\ \A u \in S : admission[c][u].base + admission[c][u].late
                          + admission[c][u].prize = admission[c][u].total
  BY DEF Refunding, ReverseContestAdmission, Reversible
<1>2. Standing(c)' = Standing(c) \ S /\ \A d \in Contests \ {c} : Standing(d)' = Standing(d)
  BY <1>0, <1>1 DEF Standing, TypeOK
<1>3. fees = SumFunctionOnSet(Fees(c), S) /\ prizes = SumFunctionOnSet(Prizes(c), S)
  BY Books
<1>4. /\ fees \in Int /\ FeesOf(c, Standing(c))' = FeesOf(c, Standing(c)) - fees
      /\ prizes \in Int /\ PrizesOf(c, Standing(c))' = PrizesOf(c, Standing(c)) - prizes
  <2>1. \A u \in Standing(c) : Fees(c)[u] \in Int /\ Prizes(c)[u] \in Int
    BY <1>0, Amounts
  <2>2. IsFiniteSet(Standing(c)) /\ S \in SUBSET Standing(c)
    BY <1>0, <1>1, Amounts
  <2>3. /\ SumFunctionOnSet(Fees(c), S) \in Int
        /\ SumFunctionOnSet(Fees(c), Standing(c) \ S) \in Int
        /\ SumFunctionOnSet(Fees(c), Standing(c))
              = SumFunctionOnSet(Fees(c), S) + SumFunctionOnSet(Fees(c), Standing(c) \ S)
    BY <2>1, <2>2, SumLess
  <2>4. /\ SumFunctionOnSet(Prizes(c), S) \in Int
        /\ SumFunctionOnSet(Prizes(c), Standing(c) \ S) \in Int
        /\ SumFunctionOnSet(Prizes(c), Standing(c))
              = SumFunctionOnSet(Prizes(c), S) + SumFunctionOnSet(Prizes(c), Standing(c) \ S)
    BY <2>1, <2>2, SumLess
  <2>5. /\ FeesOf(c, Standing(c))' = SumFunctionOnSet(Fees(c), Standing(c) \ S)
        /\ PrizesOf(c, Standing(c))' = SumFunctionOnSet(Prizes(c), Standing(c) \ S)
    BY <1>1, <1>2, Zenon DEF FeesOf, PrizesOf, Fees, Prizes
  <2>6. /\ FeesOf(c, Standing(c)) = SumFunctionOnSet(Fees(c), Standing(c))
        /\ PrizesOf(c, Standing(c)) = SumFunctionOnSet(Prizes(c), Standing(c))
    BY Books
  <2> QED BY <1>3, <2>3, <2>4, <2>5, <2>6
<1>5. \A d \in Contests \ {c} : /\ FeesOf(d, Standing(d))' = FeesOf(d, Standing(d))
                               /\ PrizesOf(d, Standing(d))' = PrizesOf(d, Standing(d))
  BY <1>1, <1>2, Zenon DEF FeesOf, PrizesOf
<1>6. /\ \A u \in Users : Earned(u)' = Earned(u)
      /\ [u \in Users |-> Earned(u)]' = [u \in Users |-> Earned(u)]
  BY <1>1, SameCommissions
<1>7. \A u \in Users : Deposited(u)' = Deposited(u)
  BY <1>1, Zenon DEF Deposited
<1>8. \A u \in S : Tot[u] \in Int /\ Tot[u] = Fees(c)[u] + Prizes(c)[u]
                  /\ Fees(c)[u] \in Int /\ Prizes(c)[u] \in Int
                  /\ Tot[u] = admission[c][u].total
  <2> TAKE u \in S
  <2>1. /\ Fees(c)[u] \in Int /\ Fees(c)[u] = admission[c][u].base + admission[c][u].late
        /\ Prizes(c)[u] \in Int /\ Prizes(c)[u] = admission[c][u].prize
    BY <1>0, Amounts
  <2> QED BY <1>1, <2>1
<1>9. SumFunctionOnSet(Tot, S) = fees + prizes
  <2> HIDE DEF Tot
  <2> QED BY <1>0, <1>3, <1>8, SumPlus
<1>10. \A u \in S : wallet'[u] = wallet[u] + Tot[u]
  BY <1>1, <1>8
<1>11. \A u \in Users \ S : wallet'[u] = wallet[u]
  BY <1>1
<1>12. CustodyConserved'
  <2>1. CustodyMoves
    BY <1>0, ReversalMoves DEF Refunding
  <2> QED BY <1>0, <1>1, <2>1, MovesConserve DEF SumsAgree
<1>13. ASSUME NEW v \in Users
       PROVE  Spent(v)' = IF v \in S THEN Spent(v) - Totals(v)[c] ELSE Spent(v)
  <2>1. Entered(v)' = IF v \in S THEN Entered(v) \ {c} ELSE Entered(v)
    BY <1>2 DEF Entered
  <2>2. Spent(v)' = SumFunctionOnSet(Totals(v), Entered(v)')
    BY <1>1, Zenon DEF Spent, Totals, Entered
  <2>3. Spent(v) = SumFunctionOnSet(Totals(v), Entered(v))
    BY Books
  <2>4. CASE v \in S
    <3>1. c \in Entered(v)
      BY <1>1, <2>4 DEF Entered
    <3>2. \A d \in Entered(v) : Totals(v)[d] \in Int
      BY <1>0, Amounts
    <3>3. IsFiniteSet(Entered(v)) /\ IsFiniteSet(Entered(v) \ {c})
      BY <1>0, Amounts, FS_Subset
    <3>4. SumFunctionOnSet(Totals(v), Entered(v))
            = Totals(v)[c] + SumFunctionOnSet(Totals(v), Entered(v) \ {c})
      BY <3>1, <3>2, <3>3, SumRemove
    <3>5. SumFunctionOnSet(Totals(v), Entered(v) \ {c}) \in Int
      BY <3>2, <3>3, SumInt
    <3>6. Totals(v)[c] \in Int
      BY <3>1, <3>2
    <3> QED BY <2>1, <2>2, <2>3, <2>4, <3>4, <3>5, <3>6
  <2>5. CASE v \notin S
    BY <2>1, <2>2, <2>3, <2>5
  <2> QED BY <2>4, <2>5
<1>14. WalletsReconcile'
  <2> SUFFICES ASSUME NEW v \in Users
               PROVE  wallet'[v] + Spent(v)' + withdrawn'[v] = Deposited(v)' + Earned(v)'
    BY DEF WalletsReconcile
  <2>1. /\ wallet[v] \in Int /\ withdrawn[v] \in Int /\ Spent(v) \in Int
        /\ wallet[v] + Spent(v) + withdrawn[v] = Deposited(v) + Earned(v)
    BY <1>0, BalancesTyped DEF TypeOK, SumsAgree, WalletsReconcile
  <2>2. withdrawn'[v] = withdrawn[v] /\ Deposited(v)' = Deposited(v) /\ Earned(v)' = Earned(v)
    BY <1>1, <1>6, <1>7
  <2>3. CASE v \in S
    <3>1. Totals(v)[c] \in Int /\ Totals(v)[c] = admission[c][v].total
      BY <1>0, Amounts
    <3>2. wallet'[v] = wallet[v] + admission[c][v].total
      BY <1>1, <2>3
    <3>3. Spent(v)' = Spent(v) - Totals(v)[c]
      BY <1>13, <2>3
    <3> QED BY <2>1, <2>2, <3>1, <3>2, <3>3
  <2>4. CASE v \notin S
    BY <1>11, <1>13, <2>1, <2>2, <2>4
  <2> QED BY <2>3, <2>4
<1> HIDE DEF fees, prizes, Tot
<1>15. TreasuryCoversWallets'
  <2> DEFINE E == [u \in Users |-> Earned(u)]
  <2>1. \A u \in Users : wallet[u] \in Int
    BY <1>0, UserSums
  <2>2. SumFunctionOnSet(wallet', Users) = SumFunctionOnSet(wallet, Users) + (fees + prizes)
    <3>1. SumFunctionOnSet(wallet', Users)
            = SumFunctionOnSet(wallet, Users) + SumFunctionOnSet(Tot, S)
      BY <1>8, <1>10, <1>11, <2>1, UsersFinite, SumRaise
    <3> QED BY <1>9, <3>1
  <2>3. SumFunctionOnSet(withdrawn', Users) = SumFunctionOnSet(withdrawn, Users)
    BY <1>1
  <2>4. SumFunctionOnSet(E, Users)' = SumFunctionOnSet(E, Users)
    BY <1>6, Zenon
  <2>5. treasury + SumFunctionOnSet(E, Users)
           = SumFunctionOnSet(wallet, Users) + SumFunctionOnSet(withdrawn, Users)
    BY DEF SumsAgree, TreasuryCoversWallets
  <2>6. /\ treasury \in Int /\ SumFunctionOnSet(E, Users) \in Int
        /\ SumFunctionOnSet(wallet, Users) \in Int /\ SumFunctionOnSet(withdrawn, Users) \in Int
    BY <1>0, UserSums DEF TypeOK
  <2>7. TreasuryCoversWallets' <=>
           treasury' + SumFunctionOnSet(E, Users)'
              = SumFunctionOnSet(wallet', Users) + SumFunctionOnSet(withdrawn', Users)
    BY Zenon DEF TreasuryCoversWallets
  <2> HIDE DEF E
  <2>8. ASSUME NEW t \in Int, NEW e \in Int, NEW w \in Int, NEW d \in Int,
               NEW m \in Int, NEW n \in Int, t + e = w + d
        PROVE  (t + m + n) + e = (w + (m + n)) + d
    BY <2>8
  <2>9. (treasury + fees + prizes) + SumFunctionOnSet(E, Users)
          = (SumFunctionOnSet(wallet, Users) + (fees + prizes)) + SumFunctionOnSet(withdrawn, Users)
    BY <1>4, <2>5, <2>6, <2>8
  <2> QED BY <1>1, <2>2, <2>3, <2>4, <2>7, <2>9, Zenon
<1>16. AdmissionsBacked'
  <2> DEFINE G == [d \in Contests |-> FeesOf(d, Standing(d))]
             H == [d \in Contests |-> FeesOf(d, Standing(d))']
  <2>1. feeWallet = SumFunctionOnSet(G, Contests) /\ \A d \in Contests : pool[d] = PrizesOf(d, Standing(d))
    BY DEF SumsAgree, AdmissionsBacked
  <2>2. \A d \in Contests : G[d] \in Int /\ H[d] \in Int
    <3>1. \A d \in Contests : FeesOf(d, Standing(d)) \in Int
      BY <1>0, BalancesTyped
    <3>2. \A d \in Contests : FeesOf(d, Standing(d))' \in Int
      BY <1>4, <1>5, <3>1
    <3> QED BY <3>1, <3>2
  <2>3. \A d \in Contests \ {c} : H[d] = G[d]
    BY <1>5
  <2>4. H[c] = G[c] - fees
    BY <1>4
  <2>5. \A d \in Contests : pool'[d] = PrizesOf(d, Standing(d))'
    BY <1>0, <1>1, <1>4, <1>5, <2>1 DEF TypeOK
  <2>6. AdmissionsBacked' <=> /\ \A d \in Contests : pool'[d] = PrizesOf(d, Standing(d))'
                              /\ feeWallet' = SumFunctionOnSet(H, Contests)
    BY Zenon DEF AdmissionsBacked
  <2> HIDE DEF G, H
  <2>7. SumFunctionOnSet(H, Contests) = SumFunctionOnSet(G, Contests) + H[c] - G[c]
    BY <2>2, <2>3, TablesFinite, SumChange
  <2>8. feeWallet \in Int
    BY <1>0 DEF TypeOK
  <2>9. feeWallet' = SumFunctionOnSet(H, Contests)
    BY <1>1, <1>4, <2>1, <2>2, <2>4, <2>7, <2>8
  <2> QED BY <2>5, <2>6, <2>9
<1> QED BY <1>12, <1>14, <1>15, <1>16 DEF SumsAgree

\* What a join does to the rows and the balances.
LEMMA JoinEffects ==
    ASSUME TypeOK, NEW c \in Contests, NEW u \in Users, JoinContest(c, u)
    PROVE  LET charge == Charge(c, status[c] = "running") IN
           /\ charge.base \in Nat /\ charge.late \in Nat /\ charge.prize \in Nat
           /\ charge.total \in Nat /\ charge.base + charge.late + charge.prize = charge.total
           /\ participant[c][u] = "none"
           /\ participant' = [participant EXCEPT ![c][u] = "ACTIVE"]
           /\ admission' = [admission EXCEPT ![c][u] = charge]
           /\ wallet' = [wallet EXCEPT ![u] = @ - charge.total]
           /\ treasury' = treasury - (charge.base + charge.late + charge.prize)
           /\ feeWallet' = feeWallet + charge.base + charge.late
           /\ pool' = [pool EXCEPT ![c] = @ + charge.prize]
           /\ confirmed' = [confirmed EXCEPT ![c] = ConfirmedAfter(c, u)]
           /\ commission' \in {commission, [commission EXCEPT ![c][u] = "pending"]}
           /\ UNCHANGED <<status, reversed, posted, withdrawn>>
<1>1. (status[c] = "running") \in BOOLEAN
  OBVIOUS
<1>2. /\ Charge(c, status[c] = "running") \in AdmissionLedger
      /\ Charge(c, status[c] = "running").base + Charge(c, status[c] = "running").late
           + Charge(c, status[c] = "running").prize = Charge(c, status[c] = "running").total
  BY <1>1, ChargeSplits
<1> QED BY <1>2 DEF JoinContest, DeductContestEntryFee, AllocateCharge,
                    ProcessAffiliateCommission, AdmissionLedger, depositVars

\* A join puts its charge into the Fee Wallet and the Prize Pool and takes it out
\* of the Treasury and the wallet, and its admission stands.
LEMMA JoinKeepsSums ==
    ASSUME SafetyInv, TypeOK', SumsAgree, EntriesRecorded, NEW c \in Contests, NEW u \in Users,
           JoinContest(c, u)
    PROVE  SumsAgree'
<1> DEFINE charge == Charge(c, status[c] = "running")
<1>0. TypeOK
  BY DEF SafetyInv
<1>1. /\ charge.base \in Int /\ charge.late \in Int /\ charge.prize \in Int
      /\ charge.total \in Int /\ charge.base + charge.late + charge.prize = charge.total
      /\ participant[c][u] = "none"
      /\ participant' = [participant EXCEPT ![c][u] = "ACTIVE"]
      /\ admission' = [admission EXCEPT ![c][u] = charge]
      /\ wallet' = [wallet EXCEPT ![u] = @ - charge.total]
      /\ treasury' = treasury - (charge.base + charge.late + charge.prize)
      /\ feeWallet' = feeWallet + charge.base + charge.late
      /\ pool' = [pool EXCEPT ![c] = @ + charge.prize]
      /\ commission' \in {commission, [commission EXCEPT ![c][u] = "pending"]}
      /\ UNCHANGED <<reversed, posted, withdrawn>>
  BY <1>0, JoinEffects
<1> HIDE DEF charge
<1>2. /\ u \notin Standing(c) /\ Standing(c)' = Standing(c) \union {u}
      /\ \A d \in Contests \ {c} : Standing(d)' = Standing(d)
  <2>1. u \notin reversed[c]
    BY <1>1 DEF SafetyInv, RefundedIffReversed
  <2> QED BY <1>0, <1>1, <2>1 DEF Standing, Joined, TypeOK
<1>3. /\ \A d \in Contests, v \in Users : d # c \/ v # u => admission'[d][v] = admission[d][v]
      /\ admission'[c][u] = charge
  BY <1>0, <1>1 DEF TypeOK
<1>4. /\ FeesOf(c, Standing(c))' = FeesOf(c, Standing(c)) + (charge.base + charge.late)
      /\ PrizesOf(c, Standing(c))' = PrizesOf(c, Standing(c)) + charge.prize
  <2> DEFINE F == [v \in Users |-> admission'[c][v].base + admission'[c][v].late]
             P == [v \in Users |-> admission'[c][v].prize]
  <2>1. \A v \in Standing(c) : /\ Fees(c)[v] \in Int /\ F[v] = Fees(c)[v]
                                /\ Prizes(c)[v] \in Int /\ P[v] = Prizes(c)[v]
    <3> TAKE v \in Standing(c)
    <3>1. v \in Users /\ v # u
      BY <1>2 DEF Standing, Joined
    <3>2. /\ Fees(c)[v] \in Int /\ Fees(c)[v] = admission[c][v].base + admission[c][v].late
          /\ Prizes(c)[v] \in Int /\ Prizes(c)[v] = admission[c][v].prize
      BY <1>0, <3>1, Amounts
    <3> QED BY <1>3, <3>1, <3>2
  <2>2. F[u] = charge.base + charge.late /\ P[u] = charge.prize
    BY <1>3
  <2>3. /\ FeesOf(c, Standing(c))' = SumFunctionOnSet(F, Standing(c) \union {u})
        /\ PrizesOf(c, Standing(c))' = SumFunctionOnSet(P, Standing(c) \union {u})
    BY <1>2, Zenon DEF FeesOf, PrizesOf
  <2>4. /\ FeesOf(c, Standing(c)) = SumFunctionOnSet(Fees(c), Standing(c))
        /\ PrizesOf(c, Standing(c)) = SumFunctionOnSet(Prizes(c), Standing(c))
    BY Books
  <2>5. IsFiniteSet(Standing(c))
    BY <1>0, Amounts
  <2>6. F[u] \in Int /\ P[u] \in Int
    BY <1>1, <2>2
  <2> HIDE DEF F, P
  <2>7. /\ SumFunctionOnSet(F, Standing(c) \union {u}) = SumFunctionOnSet(Fees(c), Standing(c)) + F[u]
        /\ SumFunctionOnSet(P, Standing(c) \union {u}) = SumFunctionOnSet(Prizes(c), Standing(c)) + P[u]
    BY <1>2, <2>1, <2>5, <2>6, SumGrows
  <2> QED BY <2>2, <2>3, <2>4, <2>7
<1>5. \A d \in Contests \ {c} : /\ FeesOf(d, Standing(d))' = FeesOf(d, Standing(d))
                               /\ PrizesOf(d, Standing(d))' = PrizesOf(d, Standing(d))
  <2> TAKE d \in Contests \ {c}
  <2>1. Standing(d)' = Standing(d) /\ Fees(d)' = Fees(d) /\ Prizes(d)' = Prizes(d)
    BY <1>2, <1>3 DEF Fees, Prizes
  <2> QED BY <2>1, Zenon DEF FeesOf, PrizesOf, Fees, Prizes
<1>6. /\ \A v \in Users : Earned(v)' = Earned(v)
      /\ [v \in Users |-> Earned(v)]' = [v \in Users |-> Earned(v)]
  <2>1. commission[c][u] = "none"
    BY <1>1 DEF EntriesRecorded
  <2>2. \A d \in Contests, v \in Users :
           commission'[d][v] = "credited" <=> commission[d][v] = "credited"
    BY <1>0, <1>1, <2>1 DEF TypeOK
  <2> QED BY <2>2, SameCommissions
<1>7. \A v \in Users : Deposited(v)' = Deposited(v)
  BY <1>1, Zenon DEF Deposited
<1>8. CustodyConserved'
  <2>1. CustodyMoves
    BY JoinSafe
  <2> QED BY <1>0, <1>1, <2>1, MovesConserve DEF SumsAgree
<1>9. Spent(u)' = Spent(u) + charge.total /\ \A v \in Users \ {u} : Spent(v)' = Spent(v)
  <2>1. \A v \in Users : /\ Spent(v)' = SumFunctionOnSet(Totals(v)', Entered(v)')
                          /\ Spent(v) = SumFunctionOnSet(Totals(v), Entered(v))
    BY Zenon DEF Spent, Totals, Entered
  <2>2. \A v \in Users \ {u} : Entered(v)' = Entered(v) /\ Totals(v)' = Totals(v)
    BY <1>2, <1>3 DEF Entered, Totals
  <2>3. c \notin Entered(u) /\ Entered(u)' = Entered(u) \union {c}
    BY <1>2 DEF Entered
  <2> DEFINE T == [d \in Contests |-> admission'[d][u].total]
  <2>4. Totals(u)' = T
    BY DEF Totals
  <2>5. \A d \in Entered(u) : Totals(u)[d] \in Int /\ T[d] = Totals(u)[d]
    <3> TAKE d \in Entered(u)
    <3>1. d \in Contests /\ d # c
      BY <2>3 DEF Entered
    <3>2. Totals(u)[d] \in Int /\ Totals(u)[d] = admission[d][u].total
      BY <1>0, <3>1, Amounts
    <3> QED BY <1>3, <3>1, <3>2
  <2>6. T[c] = charge.total /\ T[c] \in Int
    BY <1>1, <1>3
  <2>7. IsFiniteSet(Entered(u))
    BY <1>0, Amounts
  <2> HIDE DEF T
  <2>8. SumFunctionOnSet(T, Entered(u) \union {c}) = SumFunctionOnSet(Totals(u), Entered(u)) + T[c]
    BY <2>3, <2>5, <2>6, <2>7, SumGrows
  <2>9. Spent(u)' = Spent(u) + charge.total
    BY <2>1, <2>3, <2>4, <2>6, <2>8
  <2> QED BY <2>1, <2>2, <2>9
<1>10. /\ wallet'[u] = wallet[u] - charge.total
       /\ \A v \in Users \ {u} : wallet'[v] = wallet[v]
  BY <1>0, <1>1 DEF TypeOK
<1>11. WalletsReconcile'
  <2> SUFFICES ASSUME NEW v \in Users
               PROVE  wallet'[v] + Spent(v)' + withdrawn'[v] = Deposited(v)' + Earned(v)'
    BY DEF WalletsReconcile
  <2>1. /\ wallet[v] \in Int /\ withdrawn[v] \in Int /\ Spent(v) \in Int
        /\ wallet[v] + Spent(v) + withdrawn[v] = Deposited(v) + Earned(v)
    BY <1>0, BalancesTyped DEF TypeOK, SumsAgree, WalletsReconcile
  <2>2. withdrawn'[v] = withdrawn[v] /\ Deposited(v)' = Deposited(v) /\ Earned(v)' = Earned(v)
    BY <1>1, <1>6, <1>7
  <2>3. CASE v = u
    <3>1. wallet'[v] = wallet[v] - charge.total /\ Spent(v)' = Spent(v) + charge.total
      BY <1>9, <1>10, <2>3
    <3> QED BY <1>1, <2>1, <2>2, <3>1
  <2>4. CASE v # u
    BY <1>9, <1>10, <2>1, <2>2, <2>4
  <2> QED BY <2>3, <2>4
<1>12. TreasuryCoversWallets'
  <2> DEFINE E == [v \in Users |-> Earned(v)]
  <2>1. \A v \in Users : wallet[v] \in Int /\ wallet'[v] \in Int
    BY <1>0 DEF TypeOK
  <2>2. SumFunctionOnSet(wallet', Users) = SumFunctionOnSet(wallet, Users) + wallet'[u] - wallet[u]
    BY <1>10, <2>1, UsersFinite, SumChange
  <2>3. SumFunctionOnSet(withdrawn', Users) = SumFunctionOnSet(withdrawn, Users)
    BY <1>1
  <2>4. SumFunctionOnSet(E, Users)' = SumFunctionOnSet(E, Users)
    BY <1>6, Zenon
  <2>5. treasury + SumFunctionOnSet(E, Users)
           = SumFunctionOnSet(wallet, Users) + SumFunctionOnSet(withdrawn, Users)
    BY DEF SumsAgree, TreasuryCoversWallets
  <2>6. /\ treasury \in Int /\ SumFunctionOnSet(E, Users) \in Int
        /\ SumFunctionOnSet(wallet, Users) \in Int /\ SumFunctionOnSet(withdrawn, Users) \in Int
    BY <1>0, UserSums DEF TypeOK
  <2>7. TreasuryCoversWallets' <=>
           treasury' + SumFunctionOnSet(E, Users)'
              = SumFunctionOnSet(wallet', Users) + SumFunctionOnSet(withdrawn', Users)
    BY Zenon DEF TreasuryCoversWallets
  <2> HIDE DEF E
  <2>8. ASSUME NEW t \in Int, NEW e \in Int, NEW w \in Int, NEW d \in Int,
               NEW n \in Int, t + e = w + d
        PROVE  (t - n) + e = (w - n) + d
    BY <2>8
  <2>9. (treasury - charge.total) + SumFunctionOnSet(E, Users)
          = (SumFunctionOnSet(wallet, Users) - charge.total) + SumFunctionOnSet(withdrawn, Users)
    BY <1>1, <2>5, <2>6, <2>8
  <2>10. treasury' = treasury - charge.total
    BY <1>1
  <2>11. SumFunctionOnSet(wallet', Users) = SumFunctionOnSet(wallet, Users) - charge.total
    <3>1. wallet[u] \in Int
      BY <2>1
    <3> QED BY <1>1, <1>10, <2>2, <2>6, <3>1
  <2> QED BY <2>3, <2>4, <2>7, <2>9, <2>10, <2>11, Zenon
<1>13. AdmissionsBacked'
  <2> DEFINE G == [d \in Contests |-> FeesOf(d, Standing(d))]
             H == [d \in Contests |-> FeesOf(d, Standing(d))']
  <2>1. feeWallet = SumFunctionOnSet(G, Contests) /\ \A d \in Contests : pool[d] = PrizesOf(d, Standing(d))
    BY DEF SumsAgree, AdmissionsBacked
  <2>2. \A d \in Contests : G[d] \in Int /\ H[d] \in Int
    <3>1. \A d \in Contests : FeesOf(d, Standing(d)) \in Int
      BY <1>0, BalancesTyped
    <3>2. charge.base + charge.late \in Int
      BY <1>1
    <3>3. \A d \in Contests : FeesOf(d, Standing(d))' \in Int
      BY <1>4, <1>5, <3>1, <3>2
    <3> QED BY <3>1, <3>3
  <2>3. \A d \in Contests \ {c} : H[d] = G[d]
    BY <1>5
  <2>4. H[c] = G[c] + (charge.base + charge.late)
    BY <1>4
  <2>5. \A d \in Contests : pool'[d] = PrizesOf(d, Standing(d))'
    BY <1>0, <1>1, <1>4, <1>5, <2>1 DEF TypeOK
  <2>6. AdmissionsBacked' <=> /\ \A d \in Contests : pool'[d] = PrizesOf(d, Standing(d))'
                              /\ feeWallet' = SumFunctionOnSet(H, Contests)
    BY Zenon DEF AdmissionsBacked
  <2> HIDE DEF G, H
  <2>7. SumFunctionOnSet(H, Contests) = SumFunctionOnSet(G, Contests) + H[c] - G[c]
    BY <2>2, <2>3, TablesFinite, SumChange
  <2>8. feeWallet \in Int /\ G[c] \in Int
    BY <1>0, <2>2 DEF TypeOK
  <2>9. feeWallet' = SumFunctionOnSet(H, Contests)
    BY <1>1, <2>1, <2>4, <2>7, <2>8
  <2> QED BY <2>5, <2>6, <2>9
<1> QED BY <1>8, <1>11, <1>12, <1>13 DEF SumsAgree

-----------------------------------------------------------------------------
(* What the entries leave behind. *)

\* No transition leads back to a status before the start.
LEMMA NoWayBack ==
    ASSUME NEW s \in Statuses, NEW t \in BeforeStart, CanTransition(s, t)
    PROVE  s \in BeforeStart
BY DEF Statuses, BeforeStart, CanTransition, validTransitions

\* Any step but a join leaves the entries as they are, and starts a contest at most.
LEMMA EntrySteps ==
    ASSUME SafetyInv, [Next]_vars
    PROVE  \/ \E c \in Contests, u \in Users : JoinContest(c, u)
           \/ /\ UNCHANGED <<confirmed, joinedLate, admission>>
              /\ \A c \in Contests : Joined(c)' = Joined(c)
              /\ \A c \in Contests : status'[c] \in BeforeStart => status[c] \in BeforeStart
              /\ \A c \in Contests, u \in Users :
                     commission'[c][u] = commission[c][u] \/ commission[c][u] # "none"
<1>0. status \in [Contests -> Statuses] /\ commission \in [Contests -> [Users -> CommissionStatuses]]
  BY DEF SafetyInv, TypeOK
<1>1. CASE WalletNext
  BY <1>1 DEF WalletNext, PostConfirmedDeposit, Withdraw, FreezeWallet, UnfreezeWallet,
              contestVars, admissionVars, Joined
<1>2. CASE ParticipantNext
  <2>1. PICK c \in Contests, u \in Users :
           \/ BeginJoin(c, u) \/ AbortJoin(c, u) \/ CreditCommission(c, u)
           \/ JoinContest(c, u)
           \/ \E refund \in BOOLEAN : RemoveParticipant(c, u, refund)
    BY <1>2 DEF ParticipantNext
  <2>2. CASE BeginJoin(c, u) \/ AbortJoin(c, u)
    BY <2>2 DEF BeginJoin, AbortJoin, contestVars, Joined
  <2>3. CASE CreditCommission(c, u)
    <3>1. /\ commission[c][u] = "pending"
          /\ commission' = [commission EXCEPT ![c][u] = "credited"]
          /\ UNCHANGED <<contestVars, participant, joinedLate, admission>>
      BY <2>3 DEF CreditCommission, Creditable
    <3> QED BY <1>0, <3>1 DEF contestVars, Joined
  <2>4. CASE \E refund \in BOOLEAN : RemoveParticipant(c, u, refund)
    <3>1. \A d \in Contests : Joined(d)' = Joined(d)
      BY <2>4, RemovalRefunds DEF BooksQuiet, Refunding
    <3> QED BY <2>4, <3>1 DEF RemoveParticipant, contestVars
  <2> QED BY <2>1, <2>2, <2>3, <2>4
<1>3. CASE ContestNext
  <2>1. PICK c \in Contests :
           \/ \E to \in Statuses : SimpleTransition(c, to)
           \/ StartContest(c) \/ ResumeContest(c) \/ CancelTransition(c)
           \/ CancelContestAtomic(c) \/ LockPrizes(c) \/ LoseSideEffect(c)
           \/ CutoffTimePasses(c) \/ EnsureEconomicsCutoff(c)
    BY <1>3 DEF ContestNext
  <2>2. CASE \E to \in Statuses : SimpleTransition(c, to)
    <3>1. PICK to \in Statuses : SimpleTransition(c, to)
      BY <2>2
    <3>2. /\ CanTransition(status[c], to)
          /\ status' = [status EXCEPT ![c] = to]
          /\ UNCHANGED <<confirmed, admissionVars>>
      BY <3>1 DEF SimpleTransition
    <3>3. to \in BeforeStart => status[c] \in BeforeStart
      BY <1>0, <3>2, NoWayBack
    <3> QED BY <1>0, <3>2, <3>3 DEF admissionVars, Joined
  <2>3. CASE CancelContestAtomic(c)
    <3>1. \A d \in Contests : Joined(d)' = Joined(d)
      BY <2>3, CancellationRefunds DEF Refunding
    <3>2. /\ status' = [status EXCEPT ![c] = "cancelled"]
          /\ UNCHANGED <<confirmed, joinedLate, admission, commission>>
      BY <2>3 DEF CancelContestAtomic
    <3> QED BY <1>0, <3>1, <3>2 DEF BeforeStart
  <2>4. CASE StartContest(c) \/ ResumeContest(c) \/ CancelTransition(c)
    <3>1. /\ \E t \in {"running", "cancelled"} : status' = [status EXCEPT ![c] = t]
          /\ UNCHANGED <<confirmed, admissionVars>>
      BY <2>4 DEF StartContest, ResumeContest, CancelTransition
    <3> QED BY <1>0, <3>1 DEF BeforeStart, admissionVars, Joined
  <2>5. CASE LockPrizes(c) \/ LoseSideEffect(c) \/ CutoffTimePasses(c) \/ EnsureEconomicsCutoff(c)
    BY <2>5 DEF LockPrizes, LoseSideEffect, CutoffTimePasses, EnsureEconomicsCutoff,
                admissionVars, Joined
  <2> QED BY <2>1, <2>2, <2>3, <2>4, <2>5
<1>4. CASE UNCHANGED vars
  BY <1>4 DEF vars, contestVars, admissionVars, Joined
<1> QED BY <1>1, <1>2, <1>3, <1>4 DEF Next

\* A join leaves its commission, confirms the contest when it completes the quorum,
\* and before the start is charged the regular fee.
LEMMA JoinRecorded ==
    ASSUME TypeOK, EntriesRecorded, NEW c \in Contests, NEW u \in Users, JoinContest(c, u)
    PROVE  EntriesRecorded'
<1> DEFINE charge == Charge(c, status[c] = "running")
<1>1. /\ participant[c][u] = "none"
      /\ participant' = [participant EXCEPT ![c][u] = "ACTIVE"]
      /\ admission' = [admission EXCEPT ![c][u] = charge]
      /\ confirmed' = [confirmed EXCEPT ![c] = ConfirmedAfter(c, u)]
      /\ commission' \in {commission, [commission EXCEPT ![c][u] = "pending"]}
      /\ status' = status
  BY JoinEffects
<1>2. joinedLate' \in {joinedLate, [joinedLate EXCEPT ![c] = @ \union {u}]}
      /\ (status[c] # "running" => joinedLate' = joinedLate)
  BY DEF JoinContest
<1> HIDE DEF charge
<1>3. Joined(c)' = Joined(c) \union {u} /\ \A d \in Contests \ {c} : Joined(d)' = Joined(d)
  BY <1>1 DEF Joined, TypeOK
<1> SUFFICES ASSUME NEW d \in Contests
             PROVE  /\ \A v \in Users : participant'[d][v] = "none" => commission'[d][v] = "none"
                    /\ Cardinality(Joined(d)') >= Required(d) => confirmed'[d]
                    /\ status'[d] \in BeforeStart =>
                          /\ joinedLate'[d] = {}
                          /\ \A v \in Joined(d)' : admission'[d][v] = Charge(d, FALSE)
  BY DEF EntriesRecorded, Required, IsFree, Charge, FeeBps
<1>4. /\ \A v \in Users : participant[d][v] = "none" => commission[d][v] = "none"
      /\ Cardinality(Joined(d)) >= Required(d) => confirmed[d]
      /\ status[d] \in BeforeStart =>
            /\ joinedLate[d] = {}
            /\ \A v \in Joined(d) : admission[d][v] = Charge(d, FALSE)
  BY DEF EntriesRecorded
<1>5. \A v \in Users : participant'[d][v] = "none" => commission'[d][v] = "none"
  BY <1>1, <1>4 DEF TypeOK
<1>6. Cardinality(Joined(d)') >= Required(d) => confirmed'[d]
  <2>1. CASE d = c
    <3>1. confirmed'[c] = ConfirmedAfter(c, u)
      BY <1>1 DEF TypeOK
    <3> QED BY <1>3, <2>1, <3>1 DEF ConfirmedAfter
  <2>2. CASE d # c
    <3>1. confirmed'[d] = confirmed[d] /\ Joined(d)' = Joined(d)
      BY <1>1, <1>3, <2>2 DEF TypeOK
    <3> QED BY <1>4, <3>1
  <2> QED BY <2>1, <2>2
<1>7. ASSUME status'[d] \in BeforeStart
      PROVE  /\ joinedLate'[d] = {}
             /\ \A v \in Joined(d)' : admission'[d][v] = Charge(d, FALSE)
  <2>1. status[d] \in BeforeStart /\ status[d] # "running"
    BY <1>1, <1>7 DEF BeforeStart
  <2>2. joinedLate'[d] = joinedLate[d]
    BY <1>2, <2>1 DEF TypeOK
  <2>3. CASE d = c
    <3>1. charge = Charge(c, FALSE)
      <4>1. (status[c] = "running") = FALSE
        BY <2>1, <2>3
      <4> QED BY <4>1 DEF charge
    <3>2. \A v \in Users : admission'[c][v] = IF v = u THEN charge ELSE admission[c][v]
      BY <1>1 DEF TypeOK
    <3>3. \A v \in Joined(c)' : v \in Users /\ (v = u \/ v \in Joined(c))
      BY <1>3 DEF Joined
    <3> QED BY <1>4, <2>1, <2>2, <2>3, <3>1, <3>2, <3>3
  <2>4. CASE d # c
    <3>1. admission'[d] = admission[d] /\ Joined(d)' = Joined(d)
      BY <1>1, <1>3, <2>4 DEF TypeOK
    <3> QED BY <1>4, <2>1, <2>2, <3>1
  <2> QED BY <2>3, <2>4
<1> QED BY <1>5, <1>6, <1>7

\* Every step keeps what the entries leave behind.
LEMMA EntriesKept ==
    ASSUME SafetyInv, EntriesRecorded, [Next]_vars
    PROVE  EntriesRecorded'
<1>1. CASE \E c \in Contests, u \in Users : JoinContest(c, u)
  BY <1>1, JoinRecorded DEF SafetyInv
<1>2. CASE ~\E c \in Contests, u \in Users : JoinContest(c, u)
  <2>1. /\ UNCHANGED <<confirmed, joinedLate, admission>>
        /\ \A c \in Contests : Joined(c)' = Joined(c)
        /\ \A c \in Contests : status'[c] \in BeforeStart => status[c] \in BeforeStart
        /\ \A c \in Contests, u \in Users :
              commission'[c][u] = commission[c][u] \/ commission[c][u] # "none"
    BY <1>2, EntrySteps
  <2> SUFFICES ASSUME NEW c \in Contests
               PROVE  /\ \A v \in Users : participant'[c][v] = "none" => commission'[c][v] = "none"
                      /\ Cardinality(Joined(c)') >= Required(c) => confirmed'[c]
                      /\ status'[c] \in BeforeStart =>
                            /\ joinedLate'[c] = {}
                            /\ \A v \in Joined(c)' : admission'[c][v] = Charge(c, FALSE)
    BY DEF EntriesRecorded, Required, IsFree, Charge, FeeBps
  <2>2. /\ \A v \in Users : participant[c][v] = "none" => commission[c][v] = "none"
        /\ Cardinality(Joined(c)) >= Required(c) => confirmed[c]
        /\ status[c] \in BeforeStart =>
              /\ joinedLate[c] = {}
              /\ \A v \in Joined(c) : admission[c][v] = Charge(c, FALSE)
    BY DEF EntriesRecorded
  <2>3. \A v \in Users : participant'[c][v] = "none" => commission'[c][v] = "none"
    <3> TAKE v \in Users
    <3>1. participant'[c][v] # "none" <=> participant[c][v] # "none"
      BY <2>1 DEF Joined
    <3> QED BY <2>1, <2>2, <3>1
  <2>4. Joined(c)' = Joined(c)
    BY <2>1
  <2> QED BY <2>1, <2>2, <2>3, <2>4
<1> QED BY <1>1, <1>2

-----------------------------------------------------------------------------
(* The theorems. *)

\* A sum of zeros is zero.
LEMMA SumOfZeros ==
    ASSUME NEW T, IsFiniteSet(T), NEW f, \A x \in T : f[x] = 0
    PROVE  SumFunctionOnSet(f, T) = 0
<1>1. SumFunctionOnSet(f, T) = Cardinality(T) * 0
  BY SumConstant
<1>2. Cardinality(T) \in Nat
  BY FS_CardinalityType
<1>3. \A n \in Nat : n * 0 = 0
  OBVIOUS
<1> QED BY <1>1, <1>2, <1>3

\* Empty books agree.
LEMMA InitLedgers == Init => LedgersAgree
<1> SUFFICES ASSUME Init PROVE LedgersAgree
  OBVIOUS
<1>1. \A c \in Contests : Joined(c) = {} /\ Standing(c) = {}
  BY DEF Init, Joined, Standing
<1>2. \A u \in Users : Entered(u) = {} /\ Credited(u) = {}
  BY <1>1 DEF Init, Entered, Credited
<1>3. \A u \in Users : Spent(u) = 0 /\ Earned(u) = 0
  <2> TAKE u \in Users
  <2>1. /\ Spent(u) = SumFunctionOnSet(Totals(u), Entered(u))
        /\ Earned(u) = SumFunctionOnSet(Commissions, Credited(u))
    BY Books
  <2>2. Spent(u) = SumFunctionOnSet(Totals(u), {}) /\ Earned(u) = SumFunctionOnSet(Commissions, {})
    BY <1>2, <2>1
  <2> QED BY <2>2, SumEmpty
<1>4. \A c \in Contests : PrizesOf(c, Standing(c)) = 0 /\ FeesOf(c, Standing(c)) = 0
  <2> TAKE c \in Contests
  <2>1. /\ PrizesOf(c, Standing(c)) = SumFunctionOnSet(Prizes(c), Standing(c))
        /\ FeesOf(c, Standing(c)) = SumFunctionOnSet(Fees(c), Standing(c))
    BY Books
  <2>2. /\ PrizesOf(c, Standing(c)) = SumFunctionOnSet(Prizes(c), {})
        /\ FeesOf(c, Standing(c)) = SumFunctionOnSet(Fees(c), {})
    BY <1>1, <2>1
  <2> QED BY <2>2, SumEmpty
<1>5. CustodyConserved
  <2>1. \A c \in Contests : pool[c] = 0
    BY DEF Init
  <2>2. SumFunctionOnSet(pool, Contests) = 0
    BY <2>1, TablesFinite, SumOfZeros
  <2>3. SumFunctionOnSet(IntentAmount, posted) = 0
    <3>1. posted = {}
      BY DEF Init
    <3>2. SumFunctionOnSet(IntentAmount, posted) = SumFunctionOnSet(IntentAmount, {})
      BY <3>1
    <3> QED BY <3>2, SumEmpty
  <2>4. treasury = 0 /\ feeWallet = 0
    BY DEF Init
  <2> QED BY <2>2, <2>3, <2>4 DEF CustodyConserved
<1>6. WalletsReconcile
  <2> SUFFICES ASSUME NEW u \in Users
               PROVE  wallet[u] + Spent(u) + withdrawn[u] = Deposited(u) + Earned(u)
    BY DEF WalletsReconcile
  <2>1. wallet[u] = 0 /\ withdrawn[u] = 0
    BY DEF Init
  <2>2. Deposited(u) = 0
    <3>1. {j \in posted : IntentUser[j] = u} = {}
      BY DEF Init
    <3>2. Deposited(u) = SumFunctionOnSet(IntentAmount, {j \in posted : IntentUser[j] = u})
      BY Zenon DEF Deposited
    <3>3. Deposited(u) = SumFunctionOnSet(IntentAmount, {})
      BY <3>1, <3>2, Zenon
    <3> QED BY <3>3, SumEmpty
  <2> QED BY <1>3, <2>1, <2>2
<1>7. TreasuryCoversWallets
  <2> DEFINE E == [u \in Users |-> Earned(u)]
  <2>1. \A u \in Users : E[u] = 0 /\ wallet[u] = 0 /\ withdrawn[u] = 0
    BY <1>3 DEF Init
  <2>2. TreasuryCoversWallets <=>
           treasury + SumFunctionOnSet(E, Users)
              = SumFunctionOnSet(wallet, Users) + SumFunctionOnSet(withdrawn, Users)
    BY Zenon DEF TreasuryCoversWallets
  <2> HIDE DEF E
  <2>3. /\ SumFunctionOnSet(E, Users) = 0 /\ SumFunctionOnSet(wallet, Users) = 0
        /\ SumFunctionOnSet(withdrawn, Users) = 0
    BY <2>1, UsersFinite, SumOfZeros
  <2>4. treasury = 0
    BY DEF Init
  <2> QED BY <2>2, <2>3, <2>4
<1>8. AdmissionsBacked
  <2> DEFINE G == [c \in Contests |-> FeesOf(c, Standing(c))]
  <2>1. \A c \in Contests : G[c] = 0
    BY <1>4
  <2>2. \A c \in Contests : pool[c] = PrizesOf(c, Standing(c))
    BY <1>4 DEF Init
  <2>3. AdmissionsBacked <=> /\ \A c \in Contests : pool[c] = PrizesOf(c, Standing(c))
                             /\ feeWallet = SumFunctionOnSet(G, Contests)
    BY Zenon DEF AdmissionsBacked
  <2> HIDE DEF G
  <2>4. SumFunctionOnSet(G, Contests) = 0
    BY <2>1, TablesFinite, SumOfZeros
  <2>5. feeWallet = 0
    BY DEF Init
  <2> QED BY <2>2, <2>3, <2>4, <2>5
<1>9. EntriesRecorded
  <2> SUFFICES ASSUME NEW c \in Contests
               PROVE  /\ \A u \in Users : participant[c][u] = "none" => commission[c][u] = "none"
                      /\ Cardinality(Joined(c)) >= Required(c) => confirmed[c]
                      /\ status[c] \in BeforeStart =>
                            /\ joinedLate[c] = {}
                            /\ \A u \in Joined(c) : admission[c][u] = Charge(c, FALSE)
    BY DEF EntriesRecorded
  <2>1. Cardinality(Joined(c)) = 0
    BY <1>1, FS_EmptySet
  <2>2. Required(c) \in Nat /\ Required(c) > 0
    BY ContestsTyped DEF Required, RequiredParticipants
  <2>3. ~(Cardinality(Joined(c)) >= Required(c))
    BY <2>1, <2>2
  <2>4. \A u \in Users : commission[c][u] = "none"
    BY DEF Init
  <2>5. joinedLate[c] = {}
    BY DEF Init
  <2> QED BY <1>1, <2>3, <2>4, <2>5
<1> QED BY <1>5, <1>6, <1>7, <1>8, <1>9 DEF LedgersAgree

\* Every step changes both sides of every equation alike.
LEMMA NextLedgers ==
    ASSUME SafetyInv, LedgersAgree, [Next]_vars
    PROVE  LedgersAgree'
<1>1. TypeOK /\ TypeOK'
  BY NextSafe DEF SafetyInv
<1>2. SumsAgree /\ EntriesRecorded
  BY DEF LedgersAgree, SumsAgree
<1>3. SumsAgree'
  <2>1. CASE \E i \in Intents : PostConfirmedDeposit(i)
    BY <1>1, <1>2, <2>1, DepositKeepsSums
  <2>2. CASE \E u \in Users, a \in WithdrawAmounts : Withdraw(u, a)
    BY <1>1, <1>2, <2>2, WithdrawKeepsSums
  <2>3. CASE \E c \in Contests, u \in Users : JoinContest(c, u)
    BY <1>1, <1>2, <2>3, JoinKeepsSums
  <2>4. CASE \E c \in Contests, u \in Users : CreditCommission(c, u)
    BY <1>1, <1>2, <2>4, CommissionKeepsSums
  <2>5. CASE \E c \in Contests : \E S \in SUBSET Users : Refunding(c, S)
    BY <1>1, <1>2, <2>5, RefundKeepsSums
  <2>6. CASE BooksQuiet
    BY <1>2, <2>6, QuietKeepsSums
  <2> QED BY <2>1, <2>2, <2>3, <2>4, <2>5, <2>6, BookSteps
<1>4. EntriesRecorded'
  BY <1>2, EntriesKept
<1> QED BY <1>3, <1>4 DEF LedgersAgree, SumsAgree

\* The books always agree: custody with the confirmed deposits, each wallet with
\* its ledger rows, the Treasury with the wallets, the Fee Wallet and the Prize
\* Pools with the admissions that stand.
THEOREM LedgersAlwaysAgree == Spec => []LedgersAgree
<1>1. SafetyInv /\ LedgersAgree /\ [Next]_vars => LedgersAgree'
  BY NextLedgers
<1> QED BY <1>1, InitLedgers, Safety, PTL DEF Spec

\* Until a contest starts, the Super Admin's cancellation is never refused: the
\* Fee Wallet and the Prize Pool can give back every ACTIVE admission.
THEOREM CancellationAlwaysPossible == Spec => []CancellationNeverBlocked
<1>1. SafetyInv /\ LedgersAgree => CancellationNeverBlocked
  <2> SUFFICES ASSUME SafetyInv, LedgersAgree, NEW c \in Contests,
                      CanTransition(status[c], "cancelled")
               PROVE  RefundOpen(c) /\ Reversible(c, Paid(c, Active(c)))
    BY DEF CancellationNeverBlocked
  <2>0. TypeOK
    BY DEF SafetyInv
  <2>1. RefundOpen(c)
    <3>1. status[c] \in Statuses
      BY <2>0 DEF TypeOK
    <3>2. status[c] \notin {"running", "paused", "settling"}
      BY <3>1 DEF CanTransition, validTransitions, Statuses
    <3> QED BY <3>2 DEF SafetyInv, CutoffAfterStart, RefundOpen
  <2> DEFINE S == Paid(c, Active(c))
  <2>2. S \in SUBSET Standing(c) /\ S \intersect reversed[c] = {}
    BY ActiveStands DEF Paid, Standing
  <2>3. \A u \in S : admission[c][u].base + admission[c][u].late + admission[c][u].prize
                        = admission[c][u].total
    BY DEF SafetyInv, AdmissionsSplit, Paid, Active
  <2> HIDE DEF S
  <2>4. \A u \in Standing(c) : Fees(c)[u] \in Nat /\ Prizes(c)[u] \in Nat
    BY <2>0, Amounts
  <2>5. IsFiniteSet(Standing(c))
    BY <2>0, Amounts
  <2>6. /\ SumFunctionOnSet(Fees(c), S) \in Nat /\ SumFunctionOnSet(Prizes(c), S) \in Nat
        /\ SumFunctionOnSet(Fees(c), S) <= SumFunctionOnSet(Fees(c), Standing(c))
        /\ SumFunctionOnSet(Prizes(c), S) <= SumFunctionOnSet(Prizes(c), Standing(c))
    <3>1. /\ SumFunctionOnSet(Fees(c), S) \in Nat
          /\ SumFunctionOnSet(Fees(c), Standing(c) \ S) \in Nat
          /\ SumFunctionOnSet(Fees(c), Standing(c))
                = SumFunctionOnSet(Fees(c), S) + SumFunctionOnSet(Fees(c), Standing(c) \ S)
      BY <2>2, <2>4, <2>5, SumPart
    <3>2. /\ SumFunctionOnSet(Prizes(c), S) \in Nat
          /\ SumFunctionOnSet(Prizes(c), Standing(c) \ S) \in Nat
          /\ SumFunctionOnSet(Prizes(c), Standing(c))
                = SumFunctionOnSet(Prizes(c), S) + SumFunctionOnSet(Prizes(c), Standing(c) \ S)
      BY <2>2, <2>4, <2>5, SumPart
    <3> QED BY <3>1, <3>2
  <2>7. FeesOf(c, Standing(c)) <= feeWallet
    <3> DEFINE G == [d \in Contests |-> FeesOf(d, Standing(d))]
    <3>1. \A d \in Contests : G[d] \in Nat
      BY <2>0, BalancesTyped
    <3>2. feeWallet = SumFunctionOnSet(G, Contests)
      BY DEF LedgersAgree, AdmissionsBacked
    <3>3. G[c] = FeesOf(c, Standing(c))
      OBVIOUS
    <3> HIDE DEF G
    <3>4. \A d \in Contests : G[d] \in Int
      BY <3>1
    <3>5. SumFunctionOnSet(G, Contests) = G[c] + SumFunctionOnSet(G, Contests \ {c})
      BY <3>4, TablesFinite, SumRemove
    <3>6. SumFunctionOnSet(G, Contests \ {c}) \in Nat
      <4>1. IsFiniteSet(Contests \ {c}) /\ \A d \in Contests \ {c} : G[d] \in Nat
        BY <3>1, TablesFinite, FS_Subset
      <4> QED BY <4>1, SumNat
    <3>7. G[c] \in Nat
      BY <3>1
    <3> QED BY <3>2, <3>3, <3>5, <3>6, <3>7
  <2>8. pool[c] = PrizesOf(c, Standing(c)) /\ feeWallet \in Nat /\ pool[c] \in Nat
    BY <2>0 DEF LedgersAgree, AdmissionsBacked, TypeOK
  <2>9. /\ FeesOf(c, S) = SumFunctionOnSet(Fees(c), S)
        /\ PrizesOf(c, S) = SumFunctionOnSet(Prizes(c), S)
        /\ FeesOf(c, Standing(c)) = SumFunctionOnSet(Fees(c), Standing(c))
        /\ PrizesOf(c, Standing(c)) = SumFunctionOnSet(Prizes(c), Standing(c))
    BY Books
  <2>10. FeesOf(c, Standing(c)) \in Nat
    BY <2>0, BalancesTyped
  <2>11. FeesOf(c, S) \in 0..feeWallet /\ PrizesOf(c, S) \in 0..pool[c]
    BY <2>6, <2>7, <2>8, <2>9, <2>10
  <2>12. Reversible(c, S)
    BY <2>2, <2>3, <2>11 DEF Reversible
  <2> QED BY <2>1, <2>12 DEF S
<1> QED BY <1>1, Safety, LedgersAlwaysAgree, PTL

\* A paid contest with quorum always starts, even when its economics cutoff is due
\* in the same transaction: before the start everyone was charged the same, so the
\* Prize Pool holds that share times the participants who still stand.
THEOREM PaidStartAlwaysPossible == Spec => []PaidStartNeverBlocked
<1>1. SafetyInv /\ LedgersAgree => PaidStartNeverBlocked
  <2> SUFFICES ASSUME SafetyInv, LedgersAgree, NEW c \in Contests,
                      status[c] = "registration_closed", Charge(c, FALSE).prize > 0,
                      Cardinality(Joined(c)) >= Required(c)
               PROVE  confirmed[c] /\ CutoffReconciles(c)
    BY DEF PaidStartNeverBlocked
  <2>0. TypeOK
    BY DEF SafetyInv
  <2> DEFINE charge == Charge(c, FALSE)
  <2>1. /\ confirmed[c]
        /\ joinedLate[c] = {}
        /\ \A u \in Joined(c) : admission[c][u] = charge
    BY DEF LedgersAgree, EntriesRecorded, BeforeStart
  <2>2. /\ charge.base \in Nat /\ charge.late \in Nat /\ charge.prize \in Nat
        /\ charge.total \in Nat /\ charge.base + charge.late + charge.prize = charge.total
    BY ChargeSplits DEF AdmissionLedger
  <2>3. charge.total = EntryFee[c]
    <3>1. EntryFee[c] \in Nat
      BY ContestsTyped
    <3>2. charge.total = EntryFee[c] + 0
      BY DEF Charge, ComputeJoinCharge
    <3>3. EntryFee[c] + 0 = EntryFee[c]
      BY <3>1
    <3> QED BY <3>2, <3>3, Zenon
  <2> HIDE DEF charge
  <2>4. charge.prize > 0 /\ charge.total > 0 /\ EntryFee[c] # 0
    <3>1. charge.prize > 0
      BY DEF charge
    <3> QED BY <2>2, <2>3, <3>1
  <2>5. EconomicParticipants(c) = Standing(c)
    BY <2>1, <2>4 DEF EconomicParticipants, Standing
  <2>6. PoolEntries(c) = Standing(c)
    BY <2>1, <2>4 DEF PoolEntries, Standing
  <2>7. \A u \in Standing(c) : AdmissionEvidence(c, u)
    <3> TAKE u \in Standing(c)
    <3>1. (u \in joinedLate[c]) = FALSE
      BY <2>1
    <3>2. Charge(c, u \in joinedLate[c]) = charge
      BY <3>1 DEF charge
    <3>3. u \in Joined(c)
      BY DEF Standing
    <3> QED BY <2>1, <3>2, <3>3 DEF AdmissionEvidence
  <2>8. pool[c] = Cardinality(Standing(c)) * charge.prize
    <3>1. \A u \in Standing(c) : Prizes(c)[u] = charge.prize
      <4> TAKE u \in Standing(c)
      <4>1. u \in Users /\ u \in Joined(c)
        BY DEF Standing, Joined
      <4>2. Prizes(c)[u] = admission[c][u].prize
        BY <2>0, <4>1, Amounts
      <4> QED BY <2>1, <4>1, <4>2
    <3>2. IsFiniteSet(Standing(c)) /\ charge.prize \in Int
      BY <2>0, <2>2, Amounts
    <3>3. SumFunctionOnSet(Prizes(c), Standing(c)) = Cardinality(Standing(c)) * charge.prize
      BY <3>1, <3>2, SumConstant
    <3>4. pool[c] = PrizesOf(c, Standing(c))
      BY DEF LedgersAgree, AdmissionsBacked
    <3> QED BY <3>3, <3>4, Books
  <2>9. CutoffReconciles(c)
    <3>1. /\ \A u \in EconomicParticipants(c) : AdmissionEvidence(c, u)
          /\ pool[c] = Cardinality(EconomicParticipants(c)) * Charge(c, FALSE).prize
          /\ Cardinality(PoolEntries(c)) = Cardinality(EconomicParticipants(c))
      BY <2>5, <2>6, <2>7, <2>8, Zenon DEF charge
    <3> QED BY <3>1, Zenon DEF CutoffReconciles
  <2> QED BY <2>1, <2>9
<1> QED BY <1>1, Safety, LedgersAlwaysAgree, PTL

-----------------------------------------------------------------------------
(* Refinement. *)

\* A step of the composed system is, for the contests and the money, a step of
\* ContestFunds or no step at all.
LEMMA SchedStepRefines == [SchedNext]_allVars => [Next]_vars
<1> SUFFICES ASSUME [SchedNext]_allVars PROVE [Next]_vars
  OBVIOUS
<1>1. CASE OthersNext
  <2>1. AdminNext => ContestNext
    BY DEF AdminNext, ContestNext
  <2>2. BackgroundNext => ContestNext
    BY DEF BackgroundNext, ContestNext
  <2> QED BY <1>1, <2>1, <2>2 DEF OthersNext, Next
<1>2. CASE TimeNext
  BY <1>2 DEF TimeNext, AdvanceClock, ReachCutoff, ExpireLock, ContestNext, Next
<1>3. CASE ServiceNext
  <2>1. CASE \E s \in Schedulers : Stop(s) \/ Crash(s) \/ Restart(s)
    BY <2>1 DEF Stop, Crash, Restart
  <2>2. CASE \E s \in Schedulers, c \in Contests : FindCandidate(s, c) \/ SchedulerStep(s, c)
    <3>1. PICK s \in Schedulers, c \in Contests : FindCandidate(s, c) \/ SchedulerStep(s, c)
      BY <2>2
    <3>2. \/ UNCHANGED vars
          \/ CancelTransition(c) \/ StartContest(c) \/ ResumeContest(c)
          \/ \E to \in Statuses : SimpleTransition(c, to)
      <4>1. {"registration_open", "settling", "registration_closed"} \subseteq Statuses
        BY DEF Statuses
      <4> QED BY <3>1, <4>1 DEF SchedulerStep, FindCandidate, AcquireLock, QuorumCancel,
                 ExecuteRunning, ExecuteSimple, ExecuteClose, GiveUp
    <3> QED BY <3>2 DEF ContestNext, Next
  <2>3. CASE \E c \in Contests : FindStale(c) \/ CancelStale(c)
    BY <2>3 DEF FindStale, CancelStale, ContestNext, Next
  <2> QED BY <1>3, <2>1, <2>2, <2>3 DEF ServiceNext
<1>4. CASE UNCHANGED allVars
  BY <1>4 DEF allVars
<1> QED BY <1>1, <1>2, <1>3, <1>4 DEF SchedNext

\* The scheduler and the cleanup service implement ContestFunds: whatever stale
\* candidate they act on, the money rules of the contest are the checked ones.
THEOREM SchedulerRefinesFunds == SchedSpec => Spec
<1>1. SchedInit => Init
  BY DEF SchedInit
<1> QED BY <1>1, SchedStepRefines, PTL DEF SchedSpec, Spec

\* With any number of scheduler instances, outages and expired locks, every
\* balance keeps its type, refunds happen once, and no cutoff precedes a start.
THEOREM SchedulerSafe == SchedSpec => []SafetyInv
BY SchedulerRefinesFunds, Safety, PTL

\* No step of ContestFunds cancels a contest that has started.
LEMMA CancelBeforeStart ==
    ASSUME TypeOK, [Next]_vars, NEW c \in Contests,
           status[c] \in {"running", "paused", "settling"}
    PROVE  status'[c] # "cancelled"
<1>1. ~CanTransition(status[c], "cancelled")
  BY DEF CanTransition, validTransitions
<1>2. CASE WalletNext \/ ParticipantNext \/ UNCHANGED vars
  <2>1. WalletNext => status' = status
    BY DEF WalletNext, PostConfirmedDeposit, FreezeWallet, UnfreezeWallet, Withdraw, contestVars
  <2>2. ParticipantNext => status' = status
    <3>1. ASSUME NEW d \in Contests, NEW u \in Users,
                 BeginJoin(d, u) \/ AbortJoin(d, u) \/ JoinContest(d, u)
                     \/ CreditCommission(d, u)
          PROVE  status' = status
      BY <3>1 DEF BeginJoin, AbortJoin, JoinContest, CreditCommission, contestVars
    <3>2. ASSUME NEW d \in Contests, NEW u \in Users, NEW refund \in BOOLEAN,
                 RemoveParticipant(d, u, refund)
          PROVE  status' = status
      BY <3>2 DEF RemoveParticipant, contestVars
    <3> QED BY <3>1, <3>2 DEF ParticipantNext
  <2>3. UNCHANGED vars => status' = status
    BY DEF vars, contestVars
  <2> QED BY <1>2, <2>1, <2>2, <2>3
<1>3. CASE ContestNext
  <2>1. PICK d \in Contests :
           \/ \E to \in Statuses : SimpleTransition(d, to)
           \/ StartContest(d) \/ ResumeContest(d) \/ CancelTransition(d)
           \/ CancelContestAtomic(d) \/ LockPrizes(d) \/ LoseSideEffect(d)
           \/ CutoffTimePasses(d) \/ EnsureEconomicsCutoff(d)
    BY <1>3 DEF ContestNext
  <2>2. status \in [Contests -> Statuses]
    BY DEF TypeOK
  <2>3. CASE CancelTransition(d) \/ CancelContestAtomic(d)
    <3>1. d # c /\ status' = [status EXCEPT ![d] = "cancelled"]
      BY <1>1, <2>3 DEF CancelTransition, CancelContestAtomic
    <3> QED BY <2>2, <3>1
  <2>4. CASE \E to \in Statuses : SimpleTransition(d, to)
    BY <2>2, <2>4 DEF SimpleTransition
  <2>5. CASE StartContest(d) \/ ResumeContest(d)
    <3>1. status' = [status EXCEPT ![d] = "running"]
      BY <2>5 DEF StartContest, ResumeContest
    <3> QED BY <2>2, <3>1
  <2>6. CASE LockPrizes(d) \/ LoseSideEffect(d) \/ CutoffTimePasses(d) \/ EnsureEconomicsCutoff(d)
    <3>1. status' = status
      BY <2>6 DEF LockPrizes, LoseSideEffect, CutoffTimePasses, EnsureEconomicsCutoff
    <3> QED BY <3>1
  <2> QED BY <2>1, <2>3, <2>4, <2>5, <2>6
<1> QED BY <1>2, <1>3 DEF Next

\* A contest that has started is never cancelled, however stale the candidate of
\* the scheduler or of the cleanup service.
THEOREM StartIsFinal == SchedSpec => StartedNeverCancelled
<1>1. SafetyInv /\ [SchedNext]_allVars =>
        [\A c \in Contests : status[c] \in {"running", "paused", "settling"} =>
            status'[c] # "cancelled"]_allVars
  BY SchedStepRefines, CancelBeforeStart DEF SafetyInv
<1> QED BY <1>1, SchedulerSafe, PTL DEF SchedSpec, StartedNeverCancelled

-----------------------------------------------------------------------------
(* The lock and the jobs. *)

\* Replacing one job keeps the table's type and every other entry.
LEMMA JobReplaced ==
    ASSUME SchedTypeOK, NEW s \in Schedulers, NEW c \in Contests,
           NEW j \in Jobs \union {NoJob},
           job' = [job EXCEPT ![s][c] = j]
    PROVE  /\ job' \in [Schedulers -> [Contests -> Jobs \union {NoJob}]]
           /\ \A t \in Schedulers, d \in Contests :
                 job'[t][d] = IF t = s /\ d = c THEN j ELSE job[t][d]
<1> DEFINE J == Jobs \union {NoJob}
<1>1. job \in [Schedulers -> [Contests -> J]] /\ j \in J
  BY DEF SchedTypeOK
<1> HIDE DEF J
<1>2. job' \in [Schedulers -> [Contests -> J]]
  BY <1>1
<1>3. \A t \in Schedulers, d \in Contests :
         job'[t][d] = IF t = s /\ d = c THEN j ELSE job[t][d]
  BY <1>1
<1> QED BY <1>2, <1>3 DEF J

\* The inductive invariant of the scheduler.
SchedInv == SchedTypeOK /\ LockExclusive /\ JobsDue

\* No job is neither a start nor an end, and holds no lock.
LEMMA IdleJob == NoJob.to = "none" /\ NoJob.phase = "idle"
BY DEF NoJob

\* Finishing a job keeps the invariant: the key is deleted only by its holder.
LEMMA FinishSafe ==
    ASSUME SchedInv, NEW s \in Schedulers, NEW c \in Contests, Finish(s, c),
           reason' \in [Contests -> {"none", "quorum", "stale"}], Executing(s, c)
    PROVE  SchedInv'
<1>1. /\ job' \in [Schedulers -> [Contests -> Jobs \union {NoJob}]]
      /\ \A t \in Schedulers, d \in Contests :
            job'[t][d] = IF t = s /\ d = c THEN NoJob ELSE job[t][d]
  BY JobReplaced DEF Finish, SchedInv
<1>2. lock' \in [Contests -> Schedulers \union {NoHolder}]
  BY DEF Finish, Release, SchedInv, SchedTypeOK
<1>3. SchedTypeOK'
  BY <1>1, <1>2 DEF Finish, SchedInv, SchedTypeOK
<1>4. \A d \in Contests : lock'[d] = lock[d] \/ (d = c /\ lock[d] = s)
  BY DEF Finish, Release, SchedInv, SchedTypeOK
<1>5. LockExclusive'
  <2> SUFFICES ASSUME NEW t \in Schedulers, NEW d \in Contests, job'[t][d].phase = "locked"
               PROVE  lock'[d] = t
    BY DEF LockExclusive
  <2>1. job'[t][d] = job[t][d] /\ ~(t = s /\ d = c)
    BY <1>1, IdleJob
  <2>2. lock[d] = t
    BY <2>1 DEF SchedInv, LockExclusive
  <2> QED BY <1>4, <2>1, <2>2
<1>6. JobsDue'
  BY <1>1, IdleJob DEF Finish, SchedInv, JobsDue
<1> QED BY <1>3, <1>5, <1>6 DEF SchedInv

\* What a check finds is due when it is found.
LEMMA FindSafe ==
    ASSUME SchedInv, NEW s \in Schedulers, NEW c \in Contests, FindCandidate(s, c)
    PROVE  SchedInv'
<1>1. PICK to \in AutoTransitions(c) :
         job' = [job EXCEPT ![s][c] =
                    [to    |-> to,
                     count |-> IF to \in {"running", "registration_closed"}
                               THEN Cardinality(Joined(c)) ELSE 0,
                     phase |-> "found"]]
  BY DEF FindCandidate
<1> DEFINE n == IF to \in {"running", "registration_closed"}
                THEN Cardinality(Joined(c)) ELSE 0
           j == [to |-> to, count |-> n, phase |-> "found"]
<1>2. n \in Nat
  <2>1. IsFiniteSet(Joined(c))
    BY UsersFinite, FS_Subset DEF Joined
  <2> QED BY <2>1, FS_CardinalityType
<1> HIDE DEF n
<1>3. /\ to \in {"registration_open", "registration_closed", "running", "settling"}
      /\ to = "running" => clock[c] >= Starts
      /\ to = "settling" => clock[c] = Ends
  BY DEF AutoTransitions
<1>4. j \in Jobs /\ j.to = to /\ j.phase = "found"
  BY <1>2, <1>3 DEF Jobs
<1>5. job' = [job EXCEPT ![s][c] = j]
  BY <1>1 DEF n
<1> HIDE DEF j
<1>6. /\ job' \in [Schedulers -> [Contests -> Jobs \union {NoJob}]]
      /\ \A t \in Schedulers, d \in Contests :
            job'[t][d] = IF t = s /\ d = c THEN j ELSE job[t][d]
  BY <1>4, <1>5, JobReplaced DEF SchedInv
<1>7. UNCHANGED <<clock, lock, reason, stale, up, outages>>
  BY DEF FindCandidate, serviceVars
<1>8. SchedTypeOK'
  BY <1>6, <1>7 DEF SchedInv, SchedTypeOK
<1>9. LockExclusive'
  BY <1>4, <1>6, <1>7 DEF SchedInv, LockExclusive
<1>10. JobsDue'
  BY <1>3, <1>4, <1>6, <1>7 DEF SchedInv, JobsDue
<1> QED BY <1>8, <1>9, <1>10 DEF SchedInv

\* A change of phase keeps a job's type and its target.
LEMMA PhaseChanged ==
    ASSUME NEW j \in Jobs, NEW p \in {"found", "locked", "expired"}
    PROVE  InPhase(j, p) \in Jobs /\ InPhase(j, p).to = j.to /\ InPhase(j, p).phase = p
BY DEF InPhase, Jobs

\* SET NX keeps the invariant: a lock is taken only when nobody holds it.
LEMMA AcquireSafe ==
    ASSUME SchedInv, NEW s \in Schedulers, NEW c \in Contests, AcquireLock(s, c)
    PROVE  SchedInv'
<1>1. job[s][c] \in Jobs
  BY IdleJob DEF AcquireLock, SchedInv, SchedTypeOK
<1>2. UNCHANGED <<clock, reason, stale, up, outages>>
  BY DEF AcquireLock, serviceVars
<1>3. PICK j \in Jobs \union {NoJob} :
         /\ job' = [job EXCEPT ![s][c] = j]
         /\ j.to = job[s][c].to \/ j = NoJob
         /\ \/ j = NoJob /\ lock' = lock
            \/ lock[c] = NoHolder /\ lock' = [lock EXCEPT ![c] = s]
  <2>1. CASE lock[c] = NoHolder
    <3> DEFINE j == InPhase(job[s][c], "locked")
    <3>1. j \in Jobs /\ j.to = job[s][c].to
      BY <1>1, PhaseChanged
    <3>2. job' = [job EXCEPT ![s][c] = j] /\ lock' = [lock EXCEPT ![c] = s]
      BY <2>1 DEF AcquireLock
    <3> HIDE DEF j
    <3> QED BY <2>1, <3>1, <3>2
  <2>2. CASE lock[c] # NoHolder
    <3>1. job' = [job EXCEPT ![s][c] = NoJob] /\ lock' = lock
      BY <2>2 DEF AcquireLock
    <3> QED BY <3>1
  <2> QED BY <2>1, <2>2
<1>4. /\ job' \in [Schedulers -> [Contests -> Jobs \union {NoJob}]]
      /\ \A t \in Schedulers, d \in Contests :
            job'[t][d] = IF t = s /\ d = c THEN j ELSE job[t][d]
  BY <1>3, JobReplaced DEF SchedInv
<1>5. lock' \in [Contests -> Schedulers \union {NoHolder}]
  BY <1>3 DEF SchedInv, SchedTypeOK
<1>6. SchedTypeOK'
  BY <1>2, <1>4, <1>5 DEF SchedInv, SchedTypeOK
<1>7. LockExclusive'
  <2> SUFFICES ASSUME NEW t \in Schedulers, NEW d \in Contests, job'[t][d].phase = "locked"
               PROVE  lock'[d] = t
    BY DEF LockExclusive
  <2>1. CASE t = s /\ d = c
    BY <1>3, <1>4, <2>1, IdleJob DEF SchedInv, SchedTypeOK
  <2>2. CASE ~(t = s /\ d = c)
    <3>1. lock[d] = t
      BY <1>4, <2>2 DEF SchedInv, LockExclusive
    <3>2. t # NoHolder
      BY SchedulerTyped
    <3> QED BY <1>3, <3>1, <3>2 DEF SchedInv, SchedTypeOK
  <2> QED BY <2>1, <2>2
<1>8. JobsDue'
  <2>1. j.to \in {job[s][c].to, "none"}
    BY <1>3, IdleJob
  <2> QED BY <1>2, <1>4, <2>1 DEF SchedInv, JobsDue
<1> QED BY <1>6, <1>7, <1>8 DEF SchedInv

\* A lock that expires under its holder leaves the holder marked as such.
LEMMA ExpireSafe ==
    ASSUME SchedInv, NEW c \in Contests, ExpireLock(c)
    PROVE  SchedInv'
<1> DEFINE J == Jobs \union {NoJob}
           hit(t) == t = lock[c] /\ job[t][c].phase = "locked"
<1>1. UNCHANGED <<clock, reason, stale, up, outages>>
  BY DEF ExpireLock, serviceVars
<1>2. \A t \in Schedulers : hit(t) =>
         /\ InPhase(job[t][c], "expired") \in Jobs
         /\ InPhase(job[t][c], "expired").to = job[t][c].to
         /\ InPhase(job[t][c], "expired").phase = "expired"
  <2> SUFFICES ASSUME NEW t \in Schedulers, hit(t)
               PROVE  /\ InPhase(job[t][c], "expired") \in Jobs
                      /\ InPhase(job[t][c], "expired").to = job[t][c].to
                      /\ InPhase(job[t][c], "expired").phase = "expired"
    OBVIOUS
  <2>1. job[t][c] \in Jobs
    BY IdleJob DEF SchedInv, SchedTypeOK
  <2> QED BY <2>1, PhaseChanged
<1>3. /\ job' = [t \in Schedulers |->
                  IF hit(t) THEN [job[t] EXCEPT ![c] = InPhase(job[t][c], "expired")] ELSE job[t]]
      /\ lock' = [lock EXCEPT ![c] = NoHolder]
  BY DEF ExpireLock
<1>4. job \in [Schedulers -> [Contests -> J]]
  BY DEF SchedInv, SchedTypeOK
<1>5. \A t \in Schedulers : hit(t) => InPhase(job[t][c], "expired") \in J
  BY <1>2
<1> HIDE DEF J, hit
<1>6. job' \in [Schedulers -> [Contests -> J]]
  BY <1>3, <1>4, <1>5
<1>7. \A t \in Schedulers, d \in Contests :
         job'[t][d] = IF hit(t) /\ d = c THEN InPhase(job[t][c], "expired") ELSE job[t][d]
  BY <1>3, <1>4
<1>8. SchedTypeOK'
  <2>1. lock' \in [Contests -> Schedulers \union {NoHolder}]
    BY <1>3 DEF SchedInv, SchedTypeOK
  <2> QED BY <1>1, <1>6, <2>1 DEF SchedInv, SchedTypeOK, J
<1>9. LockExclusive'
  <2> SUFFICES ASSUME NEW t \in Schedulers, NEW d \in Contests, job'[t][d].phase = "locked"
               PROVE  lock'[d] = t
    BY DEF LockExclusive
  <2>1. ~(hit(t) /\ d = c) /\ job'[t][d] = job[t][d]
    BY <1>2, <1>7
  <2>2. lock[d] = t
    BY <2>1 DEF SchedInv, LockExclusive
  <2>3. d # c
    BY <2>1, <2>2 DEF hit
  <2> QED BY <1>3, <2>2, <2>3 DEF SchedInv, SchedTypeOK
<1>10. JobsDue'
  <2>1. \A t \in Schedulers, d \in Contests : job'[t][d].to = job[t][d].to
    BY <1>2, <1>7
  <2> QED BY <1>1, <2>1 DEF SchedInv, JobsDue
<1> QED BY <1>8, <1>9, <1>10 DEF SchedInv

\* Closing registration chains a start only when it is due.
LEMMA CloseSafe ==
    ASSUME SchedInv, NEW s \in Schedulers, NEW c \in Contests, ExecuteClose(s, c)
    PROVE  SchedInv'
<1>1. reason' = reason /\ Executing(s, c)
  BY DEF ExecuteClose
<1>2. CASE ~StartChained(c)
  <2>1. Finish(s, c)
    BY <1>2 DEF ExecuteClose
  <2>2. reason' \in [Contests -> {"none", "quorum", "stale"}]
    BY <1>1 DEF SchedInv, SchedTypeOK
  <2> QED BY <1>1, <2>1, <2>2, FinishSafe
<1>3. CASE StartChained(c)
  <2> DEFINE j == FollowUp(job[s][c])
  <2>1. job[s][c] \in Jobs
    BY IdleJob DEF ExecuteClose, Executing, SchedInv, SchedTypeOK
  <2>2. j \in Jobs /\ j.to = "running" /\ j.phase = job[s][c].phase
    BY <2>1 DEF FollowUp, Jobs
  <2>3. job' = [job EXCEPT ![s][c] = j] /\ UNCHANGED <<clock, lock, stale, up, outages>>
    BY <1>3 DEF ExecuteClose
  <2> HIDE DEF j
  <2>4. /\ job' \in [Schedulers -> [Contests -> Jobs \union {NoJob}]]
        /\ \A t \in Schedulers, d \in Contests :
              job'[t][d] = IF t = s /\ d = c THEN j ELSE job[t][d]
    BY <2>2, <2>3, JobReplaced DEF SchedInv
  <2>5. SchedTypeOK'
    BY <1>1, <2>3, <2>4 DEF SchedInv, SchedTypeOK
  <2>6. LockExclusive'
    BY <2>2, <2>3, <2>4 DEF SchedInv, LockExclusive
  <2>7. JobsDue'
    BY <1>3, <2>2, <2>3, <2>4 DEF SchedInv, JobsDue, StartChained
  <2> QED BY <2>5, <2>6, <2>7 DEF SchedInv
<1> QED BY <1>2, <1>3

\* An outage drops the jobs of the instance and, at most, locks of its own.
LEMMA OutageSafe ==
    ASSUME SchedInv, NEW s \in Schedulers, Stop(s) \/ Crash(s)
    PROVE  SchedInv'
<1> DEFINE J == Jobs \union {NoJob}
<1>1. /\ job' = [job EXCEPT ![s] = [c \in Contests |-> NoJob]]
      /\ outages < MaxOutages /\ outages' = outages + 1
      /\ UNCHANGED <<clock, reason, stale>>
      /\ \E state \in {"stopped", "crashed"} : up' = [up EXCEPT ![s] = state]
  BY DEF Stop, Crash
<1>2. job \in [Schedulers -> [Contests -> J]] /\ NoJob \in J
  BY DEF SchedInv, SchedTypeOK
<1>3. /\ lock' \in [Contests -> Schedulers \union {NoHolder}]
      /\ \A d \in Contests : lock'[d] = lock[d] \/ lock[d] = s
  BY DEF Stop, Crash, ReleaseAll, SchedInv, SchedTypeOK
<1> HIDE DEF J
<1>4. job' \in [Schedulers -> [Contests -> J]]
  BY <1>1, <1>2
<1>5. \A t \in Schedulers, d \in Contests :
         job'[t][d] = IF t = s THEN NoJob ELSE job[t][d]
  BY <1>1, <1>2
<1>6. SchedTypeOK'
  <2>1. outages' \in 0..MaxOutages
    BY <1>1, SchedulerTyped DEF SchedInv, SchedTypeOK
  <2>2. up' \in [Schedulers -> {"up", "stopped", "crashed"}]
    BY <1>1 DEF SchedInv, SchedTypeOK
  <2> QED BY <1>1, <1>3, <1>4, <2>1, <2>2 DEF SchedInv, SchedTypeOK, J
<1>7. LockExclusive'
  <2> SUFFICES ASSUME NEW t \in Schedulers, NEW d \in Contests, job'[t][d].phase = "locked"
               PROVE  lock'[d] = t
    BY DEF LockExclusive
  <2>1. t # s /\ job'[t][d] = job[t][d]
    BY <1>5, IdleJob
  <2>2. lock[d] = t
    BY <2>1 DEF SchedInv, LockExclusive
  <2> QED BY <1>3, <2>1, <2>2
<1>8. JobsDue'
  BY <1>1, <1>5, IdleJob DEF SchedInv, JobsDue
<1> QED BY <1>6, <1>7, <1>8 DEF SchedInv

\* Every step of the composed system keeps the scheduler's invariant.
LEMMA SchedStepSafe == SchedInv /\ [SchedNext]_allVars => SchedInv'
<1> SUFFICES ASSUME SchedInv, [SchedNext]_allVars PROVE SchedInv'
  OBVIOUS
<1>1. ASSUME UNCHANGED schedVars PROVE SchedInv'
  BY <1>1 DEF schedVars, serviceVars, SchedInv, SchedTypeOK, LockExclusive, JobsDue
<1>2. CASE OthersNext
  BY <1>1, <1>2 DEF OthersNext
<1>3. CASE TimeNext
  <2>1. PICK c \in Contests : AdvanceClock(c) \/ ReachCutoff(c) \/ ExpireLock(c)
    BY <1>3 DEF TimeNext
  <2>2. CASE AdvanceClock(c)
    <3>1. /\ UNCHANGED <<job, lock, reason, stale, up, outages>>
          /\ clock' = [clock EXCEPT ![c] = @ + 1] /\ clock[c] < Ends
      BY <2>2 DEF AdvanceClock, serviceVars
    <3>2. clock \in [Contests -> 0..4]
      BY DEF SchedInv, SchedTypeOK, Ends
    <3>3. clock' \in [Contests -> 0..4]
      BY <3>1, <3>2 DEF Ends
    <3>4. SchedTypeOK' /\ LockExclusive'
      BY <3>1, <3>3 DEF SchedInv, SchedTypeOK, LockExclusive, Ends
    <3>5. \A d \in Contests :
             /\ clock[d] >= Starts => clock'[d] >= Starts
             /\ clock[d] = Ends => clock'[d] = Ends
      BY <3>1, <3>2, <3>3 DEF Ends, Starts
    <3>6. JobsDue'
      <4> SUFFICES ASSUME NEW s \in Schedulers, NEW d \in Contests
                   PROVE  /\ job'[s][d].to = "running" => clock'[d] >= Starts
                          /\ job'[s][d].to = "settling" => clock'[d] = Ends
        BY DEF JobsDue, Starts, Ends
      <4>1. job'[s][d] = job[s][d]
        BY <3>1
      <4>2. /\ job[s][d].to = "running" => clock[d] >= Starts
            /\ job[s][d].to = "settling" => clock[d] = Ends
        BY DEF SchedInv, JobsDue
      <4> QED BY <3>5, <4>1, <4>2
    <3> QED BY <3>4, <3>6 DEF SchedInv
  <2>3. CASE ReachCutoff(c)
    BY <1>1, <2>3 DEF ReachCutoff
  <2>4. CASE ExpireLock(c)
    BY <2>4, ExpireSafe
  <2> QED BY <2>1, <2>2, <2>3, <2>4
<1>4. CASE ServiceNext
  <2>1. CASE \E s \in Schedulers : Stop(s) \/ Crash(s)
    BY <2>1, OutageSafe
  <2>2. CASE \E s \in Schedulers : Restart(s)
    BY <2>2 DEF Restart, SchedInv, SchedTypeOK, LockExclusive, JobsDue
  <2>3. CASE \E s \in Schedulers, c \in Contests : FindCandidate(s, c)
    BY <2>3, FindSafe
  <2>4. CASE \E s \in Schedulers, c \in Contests : SchedulerStep(s, c)
    <3>1. PICK s \in Schedulers, c \in Contests : SchedulerStep(s, c)
      BY <2>4
    <3>2. CASE AcquireLock(s, c)
      BY <3>2, AcquireSafe
    <3>3. CASE ExecuteClose(s, c)
      BY <3>3, CloseSafe
    <3>4. CASE \/ QuorumCancel(s, c) \/ ExecuteRunning(s, c)
               \/ ExecuteSimple(s, c) \/ GiveUp(s, c)
      <4>1. /\ Finish(s, c) /\ Executing(s, c)
            /\ reason' = [reason EXCEPT ![c] = "quorum"] \/ reason' = reason
        BY <3>4 DEF QuorumCancel, ExecuteRunning, ExecuteSimple, GiveUp
      <4>2. reason' \in [Contests -> {"none", "quorum", "stale"}]
        BY <4>1 DEF SchedInv, SchedTypeOK
      <4> QED BY <4>1, <4>2, FinishSafe
    <3> QED BY <3>1, <3>2, <3>3, <3>4 DEF SchedulerStep
  <2>5. CASE \E c \in Contests : FindStale(c)
    BY <2>5 DEF FindStale, SchedInv, SchedTypeOK, LockExclusive, JobsDue
  <2>6. CASE \E c \in Contests : CancelStale(c)
    <3>1. /\ UNCHANGED <<clock, job, lock, up, outages>>
          /\ stale' \in SUBSET Contests
          /\ reason' \in [Contests -> {"none", "quorum", "stale"}]
      BY <2>6 DEF CancelStale, SchedInv, SchedTypeOK
    <3> QED BY <3>1 DEF SchedInv, SchedTypeOK, LockExclusive, JobsDue
  <2> QED BY <1>4, <2>1, <2>2, <2>3, <2>4, <2>5, <2>6 DEF ServiceNext
<1>5. CASE UNCHANGED allVars
  BY <1>1, <1>5 DEF allVars
<1> QED BY <1>2, <1>3, <1>4, <1>5 DEF SchedNext

\* At the start no instance is at work and no lock is held.
LEMMA SchedInitSafe == SchedInit => SchedInv
<1> SUFFICES ASSUME SchedInit PROVE SchedInv
  OBVIOUS
<1>1. SchedTypeOK
  BY SchedulerTyped DEF SchedInit, SchedTypeOK, Ends
<1>2. LockExclusive /\ JobsDue
  BY IdleJob DEF SchedInit, LockExclusive, JobsDue
<1> QED BY <1>1, <1>2 DEF SchedInv

\* The instance that works on a contest under an unexpired lock is the holder: two
\* instances never do so at once, whoever stops, crashes or comes late.
THEOREM LockIsExclusive == SchedSpec => []LockExclusive
<1>1. SchedInv => LockExclusive
  BY DEF SchedInv
<1> QED BY <1>1, SchedInitSafe, SchedStepSafe, PTL DEF SchedSpec

\* No instance ever starts a contest before starts_at or ends it before ends_at.
THEOREM JobsAreDue == SchedSpec => []JobsDue
<1>1. SchedInv => JobsDue
  BY DEF SchedInv
<1> QED BY <1>1, SchedInitSafe, SchedStepSafe, PTL DEF SchedSpec
=============================================================================
