---------------------------- MODULE MCSettlement ----------------------------
(* Constants for model checking Settlement. *)
EXTENDS Settlement, TLC

CONSTANTS u1, u2, u3, u4, i1, i2

\* Distinct scores, u1 leading; and u1 level with u2.
Distinct == (u1 :> 4) @@ (u2 :> 3) @@ (u3 :> 2) @@ (u4 :> 1)

Tied == (u1 :> 4) @@ (u2 :> 4) @@ (u3 :> 2) @@ (u4 :> 1)

DistinctScores == {Distinct}

TiedScores == {Tied}

\* Everybody is still in, or removals have left one participant or nobody.
FullField == {{u1, u2, u3, u4}}

AnyField == FullField \union {{u3}, {}}

\* Closing u3's positions carries it past the others, or leaves it where it is.
LateScores == {5}

SettledScores == {2}

InstanceSymmetry == Permutations({i1, i2})

=============================================================================
