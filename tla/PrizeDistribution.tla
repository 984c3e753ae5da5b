------------------------- MODULE PrizeDistribution --------------------------
(***************************************************************************)
(* packages/scoring/distribution/tralent_v1.go: how a net Prize Pool is    *)
(* divided among the ranks of a contest.  The code computes with doubles;  *)
(* the model computes the same half-up rounding with exact fractions       *)
(* (0.8^i is 4^i / 5^i), so only a share that lies within a double's error *)
(* of a half cent could differ.                                            *)
(***************************************************************************)
EXTENDS Integers, Sequences, FiniteSetsExt, Functions

\* tralentV1RankBands by their upper ends: a band begins after the one before it.
BandEnds ==
    <<1, 2, 3, 4, 5, 6, 7, 8, 9, 10,
      15, 20, 25, 30, 35, 40, 50, 60, 75, 100, 125, 150, 175, 200, 225,
      250, 275, 300, 375, 450, 525, 600, 750, 900, 1050, 1200, 1500, 1800,
      2100, 2400, 3000>>

Bands == 1..41

LastRank == BandEnds[41]

BandStart(b) == IF b = 1 THEN 1 ELSE BandEnds[b - 1] + 1

\* The first band that reaches up to a rank.
BandOf(rank) ==
    CHOOSE b \in Bands : rank <= BandEnds[b] /\ \A a \in 1..(b - 1) : rank > BandEnds[a]

\* floor(num / den + 1/2)
HalfUp(num, den) == (2 * num + den) \div (2 * den)

\* The upper end of the band that holds the raw winner count.
SnapToBandUpper(raw) == IF raw > LastRank THEN raw ELSE BandEnds[BandOf(raw)]

PlannedWinners(n) ==
    CASE n < 2  -> 0
      [] n \in 2..3  -> 1
      [] n \in 4..6  -> 2
      [] n \in 7..11 -> 3
      [] OTHER -> SnapToBandUpper(HalfUp(3 * n, 10))

\* The explicit shares, in percent, of a contest with fewer than 12 entrants.
SmallContestPercents(n) ==
    CASE n \in 2..3 -> <<100>>
      [] n = 4 -> <<80, 20>>
      [] n = 5 -> <<75, 25>>
      [] n = 6 -> <<70, 30>>
      [] n = 7 -> <<65, 25, 10>>
      [] n = 8 -> <<60, 25, 15>>
      [] n = 9 -> <<55, 30, 15>>
      [] n \in 10..11 -> <<50, 30, 20>>
      [] OTHER -> <<>>

\* Ranks 1 to 10 are buckets of their own, beyond them a band is one bucket cut
\* at the last winner; ranks after the last band get no share.
RankedWinners(n) ==
    LET planned == PlannedWinners(n) IN IF planned > LastRank THEN LastRank ELSE planned

Powers(base) == LET power[n \in Nat] == IF n = 0 THEN 1 ELSE base * power[n - 1] IN power

\* 0.8^(b-1) over the common denominator of k buckets.
Weights(k) == [b \in 1..k |-> Powers(4)[b - 1] * Powers(5)[k - b]]

\* Rounded shares, before the residual: by percentage in a small contest, else
\* the geometric weight of the rank's bucket, split equally within it.
RoundedShare(pool, n, rank) ==
    LET winners == RankedWinners(n)
        k       == BandOf(winners)
        b       == BandOf(rank)
        upper   == IF BandEnds[b] > winners THEN winners ELSE BandEnds[b]
        span    == upper - BandStart(b) + 1
    IN  IF n < 12
        THEN HalfUp(pool * SmallContestPercents(n)[rank], 100)
        ELSE HalfUp(pool * Weights(k)[b], SumFunctionOnSet(Weights(k), 1..k) * span)

\* CalculateForContest: one amount per rank; what the rounding leaves over, or
\* took too much, goes to rank 1.
CalculateForContest(pool, n) ==
    LET winners == IF pool <= 0 THEN 0 ELSE RankedWinners(n)
        rounded == [r \in 1..winners |-> RoundedShare(pool, n, r)]
        residue == pool - SumFunctionOnSet(rounded, 1..winners)
    IN  [r \in 1..winners |-> rounded[r] + (IF r = 1 THEN residue ELSE 0)]
=============================================================================
