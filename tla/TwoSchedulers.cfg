\* Two instances of the scheduler on a free contest.
CONSTANTS
    u1 = u1
    u2 = u2
    c1 = c1
    d1 = d1
    d2 = d2
    s1 = s1
    s2 = s2
    Users = {u1}
    Contests = {c1}
    Intents = {}
    IntentUser <- NoDeposits
    IntentAmount <- DepositOf10
    EntryFee <- FreeEntry
    PlatformFeeBps <- DefaultFee
    CommissionBps <- DefaultFee
    MinParticipants <- MinimumOfOne
    Referrer <- Self
    ReferralBps <- NoReferral
    AffiliateCredits = FALSE
    WithdrawAmounts = {}
    Freezable = {u1}
    Schedulers = {s1, s2}
    AutoStart = {c1}
    NoHolder = NoHolder
    MaxOutages = 1
SPECIFICATION SchedSpec
INVARIANTS
    LockExclusive
    JobsDue
PROPERTIES
    StartedNeverCancelled
CHECK_DEADLOCK FALSE
