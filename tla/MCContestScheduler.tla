------------------------- MODULE MCContestScheduler -------------------------
(* Constants for model checking ContestScheduler. *)
EXTENDS ContestScheduler, TLC

CONSTANTS u1, u2, c1, d1, d2, s1, s2

OneDepositEach == (d1 :> u1) @@ (d2 :> u2)

NoDeposits == [i \in Intents |-> u1]

DepositOf10 == [i \in Intents |-> 10]

Fee10 == [c \in Contests |-> 10]

FreeEntry == [c \in Contests |-> 0]

DefaultFee == [c \in Contests |-> 0]

NoReferral == [u \in Users |-> 0]

Self == [u \in Users |-> u]

MinimumOfOne == [c \in Contests |-> 1]
=============================================================================
