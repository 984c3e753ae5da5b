\* One instance, with an outage, on a paid contest two users can afford.
CONSTANTS
    u1 = u1
    u2 = u2
    c1 = c1
    d1 = d1
    d2 = d2
    s1 = s1
    s2 = s2
    Users = {u1, u2}
    Contests = {c1}
    Intents = {d1, d2}
    IntentUser <- OneDepositEach
    IntentAmount <- DepositOf10
    EntryFee <- Fee10
    PlatformFeeBps <- DefaultFee
    CommissionBps <- DefaultFee
    MinParticipants <- MinimumOfOne
    Referrer <- Self
    ReferralBps <- NoReferral
    AffiliateCredits = FALSE
    WithdrawAmounts = {}
    Freezable = {}
    Schedulers = {s1}
    AutoStart = {c1}
    NoHolder = NoHolder
    MaxOutages = 1
SPECIFICATION FairSpec
PROPERTY PublishedEnds
CHECK_DEADLOCK FALSE
