--------------------------- MODULE MCContestFunds ---------------------------
(* Constants for model checking ContestFunds. *)
EXTENDS ContestFunds, TLC

CONSTANTS u1, u2, u3, c1, c2, d1, d2, d3

\* One deposit per user.
OneDepositEach == (d1 :> u1) @@ (d2 :> u2)

ThreeDeposits == (d1 :> u1) @@ (d2 :> u2) @@ (d3 :> u3)

DepositOf12 == [i \in Intents |-> 12]

\* 11 cents: the 20% fee, the 10% surcharge and the pool all round.
Fee11 == [c \in Contests |-> 11]

Fee10 == [c \in Contests |-> 10]

FreeEntry == [c \in Contests |-> 0]

\* A stored fee of 0 falls back to the default of 20%.
DefaultFee == [c \in Contests |-> 0]

Commission20 == [c \in Contests |-> 2000]

\* Nobody was referred.
NoReferral == [u \in Users |-> 0]

Self == [u \in Users |-> u]

\* u1 referred u2, at 10%.
ReferredByU1 == [u \in Users |-> u1]

ReferralOfU2 == [u \in Users |-> IF u = u2 THEN 1000 ELSE 0]

MinimumOfOne == [c \in Contests |-> 1]
=============================================================================
