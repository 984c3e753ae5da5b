\* A pause moves the late-join cutoff of a contest whose cutoff is taken.
CONSTANTS
    u1 = u1
    u2 = u2
    u3 = u3
    c1 = c1
    c2 = c2
    d1 = d1
    d2 = d2
    d3 = d3
    Users = {u1, u2, u3}
    Contests = {c1}
    Intents = {d1, d2, d3}
    IntentUser <- ThreeDeposits
    IntentAmount <- DepositOf12
    EntryFee <- Fee10
    PlatformFeeBps <- DefaultFee
    CommissionBps <- Commission20
    MinParticipants <- MinimumOfOne
    Referrer <- Self
    ReferralBps <- NoReferral
    AffiliateCredits = FALSE
    WithdrawAmounts = {}
    Freezable = {}
SPECIFICATION Spec
INVARIANT CutoffPoolFrozen
CHECK_DEADLOCK FALSE
