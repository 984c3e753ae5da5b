\* One paid contest; three users who can afford it, of whom two make a quorum
\* and one was referred by another.
CONSTANTS
    u1 = u1
    u2 = u2
    u3 = u3
    c1 = c1
    c2 = c2
    d1 = d1
    d2 = d2
    d3 = d3
    Users = {u1, u2, u3}
    Contests = {c1}
    Intents = {d1, d2, d3}
    IntentUser <- ThreeDeposits
    IntentAmount <- DepositOf12
    EntryFee <- Fee11
    PlatformFeeBps <- DefaultFee
    CommissionBps <- Commission20
    MinParticipants <- MinimumOfOne
    Referrer <- ReferredByU1
    ReferralBps <- ReferralOfU2
    AffiliateCredits = TRUE
    WithdrawAmounts = {12}
    Freezable = {u1, u2}
SPECIFICATION Spec
INVARIANTS
    SafetyInv
    LedgersAgree
    CancellationNeverBlocked
    PaidStartNeverBlocked
PROPERTIES
    NoRefundAfterCutoff
    CustodyOnlyMoves
CHECK_DEADLOCK FALSE
