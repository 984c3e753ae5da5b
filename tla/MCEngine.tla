------------------------------ MODULE MCEngine ------------------------------
(* Small instances of the trading engine. *)
EXTENDS Engine

\* A market order that opens a position and a limit order of the other side
\* that reduces it; with the manual close of any part the position can also be
\* smaller than the limit order, which then flips it.
OneSymbol == {"btc"}
TwoOrders == {"buy1", "limit2"}
TwoSyms == [o \in TwoOrders |-> "btc"]
TwoQtys == [buy1 |-> 1, limit2 |-> -2]
=============================================================================
