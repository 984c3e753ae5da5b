----------------------------- MODULE MCPayments -----------------------------
(* Constants for model checking Payments: a jibit deposit, and a withdrawal  *)
(* that is requested twice under one key.                                    *)
EXTENDS Payments, TLC

CONSTANTS jibit1, r1, r2

SameKey(r) == "key"
=============================================================================
