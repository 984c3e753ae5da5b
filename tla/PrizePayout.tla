---------------------------- MODULE PrizePayout -----------------------------
(***************************************************************************)
(* What the prize ledger of one contest promises, whoever settles it and   *)
(* however often: prizes come from allocations that were calculated, a     *)
(* user is credited at most once for a rank, an entry fee is refunded at   *)
(* most once, and no ledger row ever changes or disappears.                *)
(***************************************************************************)
EXTENDS Integers, FiniteSets

CONSTANT Users

VARIABLES allocs,    \* the allocations calculated so far: sets of prizes
          ledger,    \* the prize credits in the wallet ledger
          refunded   \* the users whose entry fee was given back

vars == <<allocs, ledger, refunded>>

Prizes == [user : Users, rank : Nat, amount : Nat]

Init == allocs = {} /\ ledger = {} /\ refunded = {}

\* Prizes are calculated, possibly again and differently.
Calculate ==
    /\ \E a \in allocs' : a \subseteq Prizes /\ allocs' = allocs \union {a}
    /\ UNCHANGED <<ledger, refunded>>

\* A calculated prize is credited under a key not used before.
Credit ==
    /\ \E p \in UNION allocs :
          /\ \A q \in ledger : <<q.user, q.rank>> # <<p.user, p.rank>>
          /\ ledger' = ledger \union {p}
    /\ UNCHANGED <<allocs, refunded>>

Refund ==
    /\ \E u \in Users \ refunded : refunded' = refunded \union {u}
    /\ UNCHANGED <<allocs, ledger>>

Next == Calculate \/ Credit \/ Refund

Spec == Init /\ [][Next]_vars
=============================================================================
