-------------------------- MODULE ContestEconomics --------------------------
(***************************************************************************)
(* The fee arithmetic and the status rules every contest transaction uses: *)
(* packages/scoring/economics (fee split, late surcharge, join policy) and *)
(* the transition table of packages/domain/statemachine.  Amounts are      *)
(* integer cents, fees are basis points, as in the code.                   *)
(***************************************************************************)
EXTENDS Integers

DefaultPlatformFeeBps == 2000

LateJoinSurchargeBps == 1000

\* A share of an amount, rounded down to whole cents.
Share(cents, bps) == (cents * bps) \div 10000

ValidFeeBps == 1..10000

\* platform_fee_bps is the only authority for the fee; a value outside
\* (0, 10000] falls back to the 20% default.
ResolvePlatformFeeBps(bps) ==
    IF bps \in ValidFeeBps THEN bps ELSE DefaultPlatformFeeBps

\* Mutant: both shares are rounded down.
SplitRoundingBoth(fee, bps) ==
    [platform |-> Share(fee, bps), prize |-> Share(fee, 10000 - bps)]

SplitEntryFee(fee, bps) ==
    LET platform == Share(fee, bps)
    IN  [platform |-> platform, prize |-> fee - platform]

LateJoinSurchargeCents(fee) == Share(fee, LateJoinSurchargeBps)

\* What a join debits, and how the debit is divided: the platform's base fee,
\* the contribution to the Prize Pool, and the platform-only late surcharge.
ComputeJoinCharge(fee, bps, isLate) ==
    LET split     == SplitEntryFee(fee, bps)
        surcharge == IF isLate THEN LateJoinSurchargeCents(fee) ELSE 0
    IN  [total |-> fee + surcharge,
         base  |-> split.platform,
         late  |-> surcharge,
         prize |-> split.prize]

-----------------------------------------------------------------------------

Statuses == {"draft", "scheduled", "registration_open", "registration_closed",
             "running", "paused", "settling", "completed", "cancelled"}

\* Mutant: a running contest may be cancelled.
CancellableWhileRunning ==
    [draft               |-> {"scheduled", "cancelled"},
     scheduled           |-> {"registration_open", "registration_closed", "cancelled"},
     registration_open   |-> {"registration_closed", "cancelled"},
     registration_closed |-> {"running", "cancelled"},
     running             |-> {"settling", "paused", "cancelled"},
     paused              |-> {"running", "settling"},
     settling            |-> {"completed"},
     completed           |-> {},
     cancelled           |-> {}]

validTransitions ==
    [draft               |-> {"scheduled", "cancelled"},
     scheduled           |-> {"registration_open", "registration_closed", "cancelled"},
     registration_open   |-> {"registration_closed", "cancelled"},
     registration_closed |-> {"running", "cancelled"},
     running             |-> {"settling", "paused"},
     paused              |-> {"running", "settling"},
     settling            |-> {"completed"},
     completed           |-> {},
     cancelled           |-> {}]

CanTransition(from, to) == to \in validTransitions[from]

\* A free contest takes no late entries; a paid one takes them while it runs,
\* strictly before the late-join cutoff.
JoinAllowed(status, isFree, lateJoinEnabled, beforeCutoff) ==
    \/ status = "registration_open"
    \/ /\ status = "running"
       /\ ~isFree
       /\ lateJoinEnabled
       /\ beforeCutoff

\* The number of real participants a contest needs to start.
RequiredParticipants(isFree, minParticipants) ==
    IF isFree THEN 1
    ELSE IF minParticipants < 2 THEN 2 ELSE minParticipants
=============================================================================
