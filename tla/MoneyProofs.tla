----------------------------- MODULE MoneyProofs -----------------------------
(***************************************************************************)
(* What is paid in and out, beside the contests' own funds.                *)
(*                                                                         *)
(* Settlement, for every field of participants, every number of instances, *)
(* fees, pools and bounds; first what its prize calculation returns, which *)
(* rests on the bands and weights of PrizeDistribution.                    *)
(*                                                                         *)
(* Payments, for every set of intents and withdrawal requests, every       *)
(* amount and fee.  Deposits and withdrawals share only the balance, so    *)
(* each side has its own inductive invariant; the balance needs both.      *)
(***************************************************************************)
EXTENDS Settlement, Payments, SumTheorems, SequenceTheorems

-----------------------------------------------------------------------------
(* PrizeDistribution. *)

\* A set of natural numbers that is not empty has a least element.
LEMMA LeastNumber ==
  ASSUME NEW S \in SUBSET Nat, S # {}
  PROVE  \E x \in S : \A y \in S : x <= y
<1> DEFINE R == OpToRel(<, Nat)
<1>1. PICK x \in S : \A y \in S : ~(<<y, x>> \in R)
  <2>1. IsWellFoundedOn(R, Nat)
    BY NatLessThanWellFounded
  <2> HIDE DEF R
  <2> QED BY <2>1, WFMin
<1>2. ASSUME NEW y \in S PROVE x <= y
  <2>1. ~(y < x)
    BY <1>1 DEF OpToRel
  <2> QED BY <2>1
<1> QED BY <1>2

\* The table of bands ends at a positive rank, and has a number for every band.
LEMMA BandTable ==
  /\ \A b \in Bands : BandEnds[b] \in Nat
  /\ LastRank \in Nat /\ LastRank >= 12
BY DEF Bands, BandEnds, LastRank

\* Every rank up to the last one lies in a band: not beyond its end, and not
\* before its start.
LEMMA BandOfRank ==
  ASSUME NEW rank \in Nat, rank >= 1, rank <= LastRank
  PROVE  /\ BandOf(rank) \in Bands
         /\ rank <= BandEnds[BandOf(rank)]
         /\ \A a \in 1..(BandOf(rank) - 1) : rank > BandEnds[a]
         /\ BandStart(BandOf(rank)) \in Nat /\ BandStart(BandOf(rank)) <= rank
<1> DEFINE S == {b \in Bands : rank <= BandEnds[b]}
<1>1. 41 \in S /\ S \in SUBSET Nat
  BY DEF Bands, LastRank
<1>2. PICK b \in S : \A c \in S : b <= c
  <2> HIDE DEF S
  <2> QED BY <1>1, LeastNumber
<1>3. b \in Bands /\ rank <= BandEnds[b]
  OBVIOUS
<1>4. \A a \in 1..(b - 1) : rank > BandEnds[a]
  <2> SUFFICES ASSUME NEW a \in 1..(b - 1) PROVE rank > BandEnds[a]
    OBVIOUS
  <2>1. a \in Bands /\ a < b
    BY <1>3 DEF Bands
  <2>2. a \notin S
    BY <1>2, <2>1, <1>3 DEF Bands
  <2> QED BY <2>1, <2>2, BandTable
<1> HIDE DEF S
<1> DEFINE c == BandOf(rank)
<1>5. c \in Bands /\ rank <= BandEnds[c] /\ \A a \in 1..(c - 1) : rank > BandEnds[a]
  BY <1>3, <1>4 DEF BandOf
<1>6. BandStart(c) \in Nat /\ BandStart(c) <= rank
  <2> HIDE DEF c
  <2>1. CASE c = 1
    BY <2>1 DEF BandStart
  <2>2. CASE c # 1
    <3>1. c - 1 \in Bands /\ c - 1 \in 1..(c - 1)
      BY <1>5, <2>2 DEF Bands
    <3>2. rank > BandEnds[c - 1] /\ BandEnds[c - 1] \in Nat
      BY <1>5, <3>1, BandTable
    <3> QED BY <2>2, <3>2 DEF BandStart
  <2> QED BY <2>1, <2>2
<1> QED BY <1>5, <1>6

\* A contest with at least two entrants has at least one winner, and no more
\* than the bands have ranks.
LEMMA WinnersRanked ==
  ASSUME NEW n \in Nat, n >= 2
  PROVE  RankedWinners(n) \in 1..LastRank
<1>1. PlannedWinners(n) \in Nat /\ PlannedWinners(n) >= 1
  <2>1. CASE n < 12
    BY <2>1 DEF PlannedWinners
  <2>2. CASE n >= 12
    <3> DEFINE raw == HalfUp(3 * n, 10)
    <3>1. raw \in Nat /\ raw >= 1
      BY <2>2 DEF HalfUp
    <3>2. PlannedWinners(n) = SnapToBandUpper(raw)
      BY <2>2 DEF PlannedWinners
    <3> HIDE DEF raw
    <3>3. CASE raw > LastRank
      BY <3>1, <3>2, <3>3 DEF SnapToBandUpper
    <3>4. CASE raw <= LastRank
      <4>1. BandOf(raw) \in Bands /\ raw <= BandEnds[BandOf(raw)]
        BY <3>1, <3>4, BandOfRank
      <4>2. PlannedWinners(n) = BandEnds[BandOf(raw)]
        BY <3>1, <3>2, <3>4, BandTable DEF SnapToBandUpper
      <4> QED BY <3>1, <4>1, <4>2, BandTable
    <3> QED BY <3>1, <3>3, <3>4, BandTable
  <2> QED BY <2>1, <2>2
<1> QED BY <1>1, BandTable DEF RankedWinners

\* f is the recursion of Powers(base) over D.
PowersOver(base, f, D) == f = [m \in D |-> IF m = 0 THEN 1 ELSE base * f[m - 1]]

\* Up to any number the recursion has a function.
LEMMA PowersUpTo ==
  ASSUME NEW base \in Nat, NEW n \in Nat
  PROVE  \E f : PowersOver(base, f, 0..n)
<1> DEFINE Good == {m \in Nat : \E f : PowersOver(base, f, 0..m)}
<1>1. 0 \in Good
  <2> DEFINE f == [m \in 0..0 |-> 1]
  <2>1. PowersOver(base, f, 0..0)
    BY DEF PowersOver
  <2> QED BY <2>1
<1>2. \A m \in Good : m + 1 \in Good
  <2> SUFFICES ASSUME NEW m \in Nat, NEW f, PowersOver(base, f, 0..m)
               PROVE  \E g : PowersOver(base, g, 0..(m + 1))
    OBVIOUS
  <2> DEFINE g == [k \in 0..(m + 1) |-> IF k = 0 THEN 1 ELSE base * f[k - 1]]
  <2>1. \A k \in 0..m : g[k] = f[k]
    BY DEF PowersOver
  <2>2. \A k \in 0..(m + 1) : k # 0 => k - 1 \in 0..m
    OBVIOUS
  <2>3. PowersOver(base, g, 0..(m + 1))
    BY <2>1, <2>2 DEF PowersOver
  <2> QED BY <2>3
<1>3. Good = Nat
  <2> HIDE DEF Good
  <2> QED BY <1>1, <1>2, SetInduction DEF Good
<1> QED BY <1>3

\* Two of these functions agree wherever both are defined.
LEMMA PowersAgree ==
  ASSUME NEW base \in Nat, NEW k \in Nat, NEW l \in Nat, NEW f, NEW g,
         PowersOver(base, f, 0..k), PowersOver(base, g, 0..l), NEW n \in Nat, n <= k, n <= l
  PROVE  f[n] = g[n]
<1> DEFINE Good == {m \in Nat : m <= k /\ m <= l => f[m] = g[m]}
<1>1. 0 \in Good
  BY DEF PowersOver
<1>2. \A m \in Good : m + 1 \in Good
  <2> SUFFICES ASSUME NEW m \in Good, m + 1 <= k, m + 1 <= l PROVE f[m + 1] = g[m + 1]
    OBVIOUS
  <2>1. m + 1 \in 0..k /\ m + 1 \in 0..l /\ m + 1 # 0 /\ (m + 1) - 1 = m
    OBVIOUS
  <2>2. f[m + 1] = base * f[m] /\ g[m + 1] = base * g[m]
    BY <2>1 DEF PowersOver
  <2> QED BY <2>1, <2>2
<1>3. Good = Nat
  <2> HIDE DEF Good
  <2> QED BY <1>1, <1>2, SetInduction DEF Good
<1> QED BY <1>3

\* The powers of a positive base: the recursive function exists, and its values
\* are positive.
LEMMA PowersPositive ==
  ASSUME NEW base \in Nat, base >= 1, NEW n \in Nat
  PROVE  Powers(base)[n] \in Nat /\ Powers(base)[n] >= 1
<1> DEFINE F(m) == CHOOSE f : PowersOver(base, f, 0..m)
           P == [m \in Nat |-> F(m)[m]]
           Q == CHOOSE f : f = [m \in Nat |-> IF m = 0 THEN 1 ELSE base * f[m - 1]]
<1>1. \A m \in Nat : PowersOver(base, F(m), 0..m)
  BY PowersUpTo
<1>2. P[0] = 1
  <2>1. F(0)[0] = 1
    <3> HIDE DEF F
    <3> QED BY <1>1 DEF PowersOver
  <2> QED BY <2>1
<1>3. ASSUME NEW m \in Nat, m # 0 PROVE P[m] = base * P[m - 1]
  <2>1. m - 1 \in Nat /\ m - 1 <= m /\ m \in 0..m
    BY <1>3
  <2>2. F(m)[m - 1] = F(m - 1)[m - 1]
    <3> HIDE DEF F
    <3> QED BY <1>1, <2>1, PowersAgree
  <2>3. F(m)[m] = base * F(m)[m - 1]
    <3> HIDE DEF F
    <3> QED BY <1>1, <1>3, <2>1 DEF PowersOver
  <2> QED BY <2>1, <2>2, <2>3
<1>4. P = [m \in Nat |-> IF m = 0 THEN 1 ELSE base * P[m - 1]]
  <2>1. \A m \in Nat : P[m] = IF m = 0 THEN 1 ELSE base * P[m - 1]
    <3> HIDE DEF P
    <3> QED BY <1>2, <1>3
  <2>2. P = [m \in Nat |-> P[m]]
    OBVIOUS
  <2> HIDE DEF P
  <2> QED BY <2>1, <2>2
<1>5. Q = [m \in Nat |-> IF m = 0 THEN 1 ELSE base * Q[m - 1]]
  <2> HIDE DEF P
  <2> QED BY <1>4
<1>6. Powers(base) = Q
  BY DEF Powers
<1> DEFINE Good == {m \in Nat : Q[m] \in Nat /\ Q[m] >= 1}
<1> HIDE DEF Q
<1>7. 0 \in Good
  BY <1>5
<1>8. \A m \in Good : m + 1 \in Good
  <2> SUFFICES ASSUME NEW m \in Good PROVE m + 1 \in Good
    OBVIOUS
  <2>1. m + 1 \in Nat /\ m + 1 # 0 /\ (m + 1) - 1 = m
    OBVIOUS
  <2>2. Q[m + 1] = base * Q[m]
    BY <1>5, <2>1
  <2>3. ASSUME NEW x \in Nat, x >= 1 PROVE base * x \in Nat /\ base * x >= 1
    BY <2>3
  <2> QED BY <2>1, <2>2, <2>3
<1>9. Good = Nat
  <2> HIDE DEF Good
  <2> QED BY <1>7, <1>8, SetInduction DEF Good
<1> QED BY <1>6, <1>9

\* The weights of the buckets are positive, and so is their sum.
LEMMA WeightsPositive ==
  ASSUME NEW k \in Nat, k >= 1
  PROVE  /\ \A b \in 1..k : Weights(k)[b] \in Nat /\ Weights(k)[b] >= 1
         /\ SumFunctionOnSet(Weights(k), 1..k) \in Nat
         /\ SumFunctionOnSet(Weights(k), 1..k) >= 1
<1>1. ASSUME NEW b \in 1..k PROVE Weights(k)[b] \in Nat /\ Weights(k)[b] >= 1
  <2>1. b - 1 \in Nat /\ k - b \in Nat
    OBVIOUS
  <2>2. Powers(4)[b - 1] \in Nat /\ Powers(4)[b - 1] >= 1
    BY <2>1, PowersPositive
  <2>3. Powers(5)[k - b] \in Nat /\ Powers(5)[k - b] >= 1
    BY <2>1, PowersPositive
  <2>4. Weights(k)[b] = Powers(4)[b - 1] * Powers(5)[k - b]
    BY DEF Weights
  <2>5. ASSUME NEW x \in Nat, NEW y \in Nat, x >= 1, y >= 1
        PROVE  x * y \in Nat /\ x * y >= 1
    BY <2>5
  <2> QED BY <2>2, <2>3, <2>4, <2>5
<1> DEFINE w == Weights(k)
<1>2. \A b \in 1..k : w[b] \in Int /\ w[b] \in Nat /\ w[b] >= 1
  BY <1>1
<1> HIDE DEF w
<1>3. IsFiniteSet(1..k) /\ 1 \in 1..k /\ IsFiniteSet((1..k) \ {1})
  <2>1. IsFiniteSet(1..k)
    BY FS_Interval
  <2>2. (1..k) \ {1} \in SUBSET (1..k)
    OBVIOUS
  <2> QED BY <2>1, <2>2, FS_Subset
<1>4. SumFunctionOnSet(w, (1..k) \ {1}) \in Nat
  BY <1>2, <1>3, SumNat
<1>5. SumFunctionOnSet(w, 1..k) = w[1] + SumFunctionOnSet(w, (1..k) \ {1})
  BY <1>2, <1>3, SumRemove
<1>6. SumFunctionOnSet(w, 1..k) \in Nat /\ SumFunctionOnSet(w, 1..k) >= 1
  BY <1>2, <1>3, <1>4, <1>5
<1> QED BY <1>1, <1>6 DEF w

\* Rounding half up to a positive denominator gives a natural number.
LEMMA HalfUpNat ==
  ASSUME NEW num \in Nat, NEW den \in Nat, den >= 1
  PROVE  HalfUp(num, den) \in Nat
<1>1. 2 * num + den \in Nat /\ 2 * den \in Nat /\ 2 * den >= 1
  OBVIOUS
<1>2. ASSUME NEW x \in Nat, NEW y \in Nat, y >= 1 PROVE x \div y \in Nat
  BY <1>2
<1> QED BY <1>1, <1>2 DEF HalfUp

\* Before the residual every share is a whole number of cents, none negative.
LEMMA RoundedShareNat ==
  ASSUME NEW pool \in Nat, NEW n \in Nat, n >= 2, NEW rank \in 1..RankedWinners(n)
  PROVE  RoundedShare(pool, n, rank) \in Nat
<1> DEFINE w == RankedWinners(n)
<1>1. w \in Nat /\ w >= 1 /\ w <= LastRank /\ rank \in Nat /\ rank >= 1 /\ rank <= w
      /\ rank <= LastRank /\ LastRank \in Nat
  <2>1. w \in 1..LastRank
    BY WinnersRanked
  <2> HIDE DEF w
  <2>2. rank \in 1..w
    BY DEF w
  <2> QED BY <2>1, <2>2, BandTable
<1>2. CASE n < 12
  <2>1. n \in 2..11
    BY <1>2
  <2>2. RankedWinners(n) = PlannedWinners(n)
    BY <2>1, BandTable DEF RankedWinners, PlannedWinners
  <2>3. SmallContestPercents(n)[rank] \in Nat
    <3>1. CASE n \in 2..3
      <4>1. PlannedWinners(n) = 1 /\ rank \in 1..1
        BY <3>1, <2>2 DEF PlannedWinners
      <4>2. SmallContestPercents(n)[1] = 100
        BY <3>1 DEF SmallContestPercents
      <4> QED BY <4>1, <4>2
    <3>2. CASE n \in 4..6
      <4>1. PlannedWinners(n) = 2 /\ rank \in 1..2
        BY <3>2, <2>2 DEF PlannedWinners
      <4>2. SmallContestPercents(n) \in {<<80, 20>>, <<75, 25>>, <<70, 30>>}
        BY <3>2 DEF SmallContestPercents
      <4> QED BY <4>1, <4>2
    <3>3. CASE n \in 7..11
      <4>1. PlannedWinners(n) = 3 /\ rank \in 1..3
        BY <3>3, <2>2 DEF PlannedWinners
      <4>2. SmallContestPercents(n) \in {<<65, 25, 10>>, <<60, 25, 15>>, <<55, 30, 15>>, <<50, 30, 20>>}
        BY <3>3 DEF SmallContestPercents
      <4> QED BY <4>1, <4>2
    <3> QED BY <2>1, <3>1, <3>2, <3>3
  <2>4. pool * SmallContestPercents(n)[rank] \in Nat
    BY <2>3
  <2>5. RoundedShare(pool, n, rank) = HalfUp(pool * SmallContestPercents(n)[rank], 100)
    BY <1>2 DEF RoundedShare
  <2> QED BY <2>4, <2>5, HalfUpNat
<1>3. CASE n >= 12
  <2> DEFINE k == BandOf(w)
             b == BandOf(rank)
             upper == IF BandEnds[b] > w THEN w ELSE BandEnds[b]
             span == upper - BandStart(b) + 1
  <2>1. /\ k \in Bands /\ w <= BandEnds[k] /\ b \in Bands /\ rank <= BandEnds[b]
        /\ BandStart(b) \in Nat /\ BandStart(b) <= rank /\ BandEnds[b] \in Nat /\ BandEnds[k] \in Nat
        /\ \A a \in 1..(b - 1) : rank > BandEnds[a]
    <3> HIDE DEF w
    <3>1. k \in Bands /\ w <= BandEnds[k]
      BY <1>1, BandOfRank
    <3>2. /\ b \in Bands /\ rank <= BandEnds[b] /\ BandStart(b) \in Nat /\ BandStart(b) <= rank
          /\ \A a \in 1..(b - 1) : rank > BandEnds[a]
      BY <1>1, BandOfRank
    <3> HIDE DEF k, b
    <3> QED BY <3>1, <3>2, BandTable
  <2>2. b \in 1..k /\ k \in Nat /\ k >= 1
    <3> HIDE DEF w, k, b
    <3>1. k \in Nat /\ b \in Nat /\ k >= 1 /\ b >= 1
      BY <2>1 DEF Bands
    <3>2. ASSUME b > k PROVE FALSE
      <4>1. k \in 1..(b - 1)
        BY <3>1, <3>2
      <4> QED BY <1>1, <2>1, <4>1
    <3> QED BY <3>1, <3>2
  <2>3. span \in Nat /\ span >= 1
    <3> HIDE DEF w, k, b
    <3> QED BY <1>1, <2>1
  <2>4. /\ Weights(k)[b] \in Nat
        /\ SumFunctionOnSet(Weights(k), 1..k) \in Nat /\ SumFunctionOnSet(Weights(k), 1..k) >= 1
    <3> HIDE DEF k, b
    <3> QED BY <2>2, WeightsPositive
  <2>5. RoundedShare(pool, n, rank) =
           HalfUp(pool * Weights(k)[b], SumFunctionOnSet(Weights(k), 1..k) * span)
    BY <1>3 DEF RoundedShare
  <2> HIDE DEF k, b, span
  <2>6. ASSUME NEW x \in Nat, NEW y \in Nat, NEW z \in Nat, NEW v \in Nat, y >= 1, z >= 1
        PROVE  HalfUp(x * v, y * z) \in Nat
    <3>1. x * v \in Nat /\ y * z \in Nat /\ y * z >= 1
      BY <2>6
    <3> QED BY <3>1, HalfUpNat
  <2> QED BY <2>3, <2>4, <2>5, <2>6
<1> QED BY <1>2, <1>3

\* CalculateForContest divides the pool among the ranked winners to the cent,
\* whatever the rounding of the shares was.
THEOREM PoolDividedExactly ==
  ASSUME NEW pool \in Nat, pool >= 1, NEW n \in Nat, n >= 2
  PROVE  LET shares == CalculateForContest(pool, n)
         IN  /\ DOMAIN shares = 1..RankedWinners(n)
             /\ \A r \in DOMAIN shares : shares[r] \in Int /\ (r # 1 => shares[r] >= 0)
             /\ SumFunctionOnSet(shares, DOMAIN shares) = pool
<1> DEFINE w == RankedWinners(n)
           rounded == [r \in 1..w |-> RoundedShare(pool, n, r)]
           residue == pool - SumFunctionOnSet(rounded, 1..w)
           shares == [r \in 1..w |-> rounded[r] + (IF r = 1 THEN residue ELSE 0)]
<1>1. CalculateForContest(pool, n) = shares
  <2> DEFINE Body(win) ==
        LET part == [r \in 1..win |-> RoundedShare(pool, n, r)]
            over == pool - SumFunctionOnSet(part, 1..win)
        IN  [r \in 1..win |-> part[r] + (IF r = 1 THEN over ELSE 0)]
  <2>1. CalculateForContest(pool, n) = Body(IF pool <= 0 THEN 0 ELSE w)
    BY DEF CalculateForContest
  <2>2. Body(w) = shares
    OBVIOUS
  <2>3. (IF pool <= 0 THEN 0 ELSE w) = w
    OBVIOUS
  <2> HIDE DEF Body, w, shares
  <2> QED BY <2>1, <2>2, <2>3
<1>2. w \in Nat /\ w >= 1
  <2>1. w \in 1..LastRank
    BY WinnersRanked
  <2> HIDE DEF w
  <2> QED BY <2>1, BandTable
<1>3. \A r \in 1..w : rounded[r] \in Nat /\ rounded[r] \in Int
  BY RoundedShareNat
<1> DEFINE total == SumFunctionOnSet(rounded, 1..w)
<1>4. IsFiniteSet(1..w) /\ 1 \in 1..w
  <2> HIDE DEF w
  <2> QED BY <1>2, FS_Interval
<1>5. total \in Int
  <2> HIDE DEF rounded, w
  <2> QED BY <1>3, <1>4, SumInt
<1>6. \A r \in 1..w : /\ shares[r] \in Int
                      /\ r # 1 => shares[r] = rounded[r]
                      /\ r = 1 => shares[r] = rounded[r] + (pool - total)
  <2> HIDE DEF rounded, w, total
  <2>1. shares = [r \in 1..w |-> rounded[r] + (IF r = 1 THEN pool - total ELSE 0)]
    BY DEF total
  <2> HIDE DEF shares
  <2> QED BY <1>3, <1>5, <2>1
<1>7. SumFunctionOnSet(shares, 1..w) = total + shares[1] - rounded[1]
  <2> HIDE DEF rounded, w, shares
  <2> DEFINE S == 1..w
  <2>1. \A r \in S : rounded[r] \in Int /\ shares[r] \in Int
    BY <1>3, <1>6
  <2>2. \A r \in S \ {1} : shares[r] = rounded[r]
    BY <1>6
  <2>3. IsFiniteSet(S) /\ 1 \in S
    BY <1>4
  <2> HIDE DEF S
  <2>4. SumFunctionOnSet(shares, S) = SumFunctionOnSet(rounded, S) + shares[1] - rounded[1]
    BY <2>1, <2>2, <2>3, SumChange
  <2> QED BY <2>4 DEF S, total
<1>8. DOMAIN shares = 1..w
  OBVIOUS
<1> HIDE DEF rounded, w, shares, total
<1>9. SumFunctionOnSet(shares, 1..w) = pool
  <2>1. rounded[1] \in Int /\ shares[1] = rounded[1] + (pool - total)
    BY <1>3, <1>4, <1>6
  <2>2. ASSUME NEW t \in Int, NEW r \in Int PROVE t + (r + (pool - t)) - r = pool
    OBVIOUS
  <2> QED BY <1>5, <1>7, <2>1, <2>2
<1>10. \A r \in 1..w : shares[r] \in Int /\ (r # 1 => shares[r] >= 0)
  BY <1>3, <1>6
<1> QED BY <1>1, <1>8, <1>9, <1>10 DEF w

\* A contest of any size, and any pool: the shares are a list of whole numbers.
LEMMA SharesTyped ==
  ASSUME NEW pool \in Nat, NEW n \in Nat
  PROVE  \E m \in Nat : /\ CalculateForContest(pool, n) \in [1..m -> Int]
                        /\ Len(CalculateForContest(pool, n)) = m
<1> DEFINE shares == CalculateForContest(pool, n)
<1>1. ASSUME NEW m \in Nat, NEW f \in [1..m -> Int] PROVE Len(f) = m
  BY LenProperties
<1>2. CASE pool >= 1 /\ n >= 2
  <2>1. /\ DOMAIN shares = 1..RankedWinners(n)
        /\ \A r \in DOMAIN shares : shares[r] \in Int
    BY <1>2, PoolDividedExactly
  <2>2. RankedWinners(n) \in Nat
    BY <1>2, WinnersRanked, BandTable
  <2>3. shares = [r \in 1..RankedWinners(n) |-> shares[r]]
    BY <2>1 DEF CalculateForContest
  <2> HIDE DEF shares
  <2>4. shares \in [1..RankedWinners(n) -> Int]
    BY <2>1, <2>3
  <2> QED BY <1>1, <2>2, <2>4 DEF shares
<1>3. CASE pool = 0 \/ n < 2
  <2> DEFINE win == IF pool <= 0 THEN 0 ELSE RankedWinners(n)
  <2>1. win = 0
    BY <1>3, BandTable DEF RankedWinners, PlannedWinners
  <2>2. DOMAIN shares = 1..win /\ shares = [r \in 1..win |-> shares[r]]
    BY DEF CalculateForContest
  <2> HIDE DEF win, shares
  <2>3. shares \in [1..0 -> Int]
    BY <2>1, <2>2
  <2> QED BY <1>1, <2>3 DEF shares
<1> QED BY <1>2, <1>3

-----------------------------------------------------------------------------
(* Rankings and prizes. *)

Prize == [user : Users, rank : Nat, amount : Nat]

RankRow == [user : Users, rank : 0..Cardinality(Users), score : Int]

\* A list over 1..n is a sequence of length n.
LEMMA ListIsSeq ==
  ASSUME NEW S, NEW n \in Nat, NEW f \in [1..n -> S]
  PROVE  f \in Seq(S) /\ Len(f) = n
<1>1. f \in Seq(S)
  OBVIOUS
<1> QED BY <1>1, LenProperties

\* The number of participants in any part of the field.
LEMMA FieldSize ==
  ASSUME NEW us \in SUBSET Users
  PROVE  /\ IsFiniteSet(us) /\ Cardinality(us) \in Nat /\ Cardinality(Users) \in Nat
         /\ Cardinality(us) <= Cardinality(Users)
BY ParticipantsFinite, FS_Subset, FS_CardinalityType

\* A sorting lists each user once.
LEMMA SortingFacts ==
  ASSUME NEW us \in SUBSET Users, NEW q \in Sortings(us)
  PROVE  /\ Len(q) = Cardinality(us) /\ Len(q) \in Nat /\ Len(q) <= Cardinality(Users)
         /\ q \in [1..Len(q) -> us]
         /\ \A j, k \in 1..Len(q) : j < k => q[j] # q[k] /\ score[q[j]] >= score[q[k]]
<1>1. Cardinality(us) \in Nat /\ Cardinality(us) <= Cardinality(Users)
  BY FieldSize
<1>2. /\ q \in [1..Cardinality(us) -> us]
      /\ \A j, k \in 1..Cardinality(us) : j < k => q[j] # q[k] /\ score[q[j]] >= score[q[k]]
  BY DEF Sortings
<1>3. Len(q) = Cardinality(us)
  BY <1>1, <1>2, ListIsSeq
<1> QED BY <1>1, <1>2, <1>3

\* The rank of a place is the first place with its score.
LEMMA RankOfPlace ==
  ASSUME NEW us \in SUBSET Users, score \in [Users -> Int], NEW q \in Sortings(us),
         NEW j \in 1..Len(q)
  PROVE  /\ CompetitionRank(q, j) \in 1..j
         /\ score[q[CompetitionRank(q, j)]] = score[q[j]]
         /\ \A l \in 1..(CompetitionRank(q, j) - 1) : score[q[l]] > score[q[j]]
<1> DEFINE S == {k \in 1..j : score[q[k]] = score[q[j]]}
<1>1. /\ Len(q) \in Nat /\ j \in Nat /\ j >= 1 /\ j <= Len(q)
      /\ \A k \in 1..Len(q) : q[k] \in Users /\ score[q[k]] \in Int
      /\ \A k, l \in 1..Len(q) : k < l => score[q[k]] >= score[q[l]]
  <2>1. Len(q) \in Nat /\ q \in [1..Len(q) -> us]
    BY SortingFacts
  <2>2. \A k, l \in 1..Len(q) : k < l => score[q[k]] >= score[q[l]]
    BY SortingFacts
  <2> QED BY <2>1, <2>2
<1>2. j \in S /\ S \in SUBSET Nat
  BY <1>1
<1>3. PICK k \in S : \A l \in S : k <= l
  <2> HIDE DEF S
  <2> QED BY <1>2, LeastNumber
<1>4. k \in 1..j /\ score[q[k]] = score[q[j]]
  OBVIOUS
<1>5. \A l \in 1..(k - 1) : score[q[l]] > score[q[j]]
  <2> SUFFICES ASSUME NEW l \in 1..(k - 1) PROVE score[q[l]] > score[q[j]]
    OBVIOUS
  <2>1. l \in 1..j /\ l < j /\ l \in 1..Len(q) /\ l < k
    BY <1>1, <1>4
  <2>2. score[q[l]] # score[q[j]]
    BY <1>3, <1>4, <2>1
  <2> QED BY <1>1, <2>1, <2>2
<1> QED BY <1>4, <1>5 DEF CompetitionRank

\* sort.Slice and the competition ranking: whatever order it gives to equals,
\* equal scores get equal ranks and a higher score gets a strictly better one.
THEOREM RanksFollowScores ==
  ASSUME NEW us \in SUBSET Users, score \in [Users -> Int], NEW q \in Sortings(us)
  PROVE  \A j, k \in 1..Len(q) :
            /\ score[q[j]] = score[q[k]] => CompetitionRank(q, j) = CompetitionRank(q, k)
            /\ score[q[j]] > score[q[k]] => CompetitionRank(q, j) < CompetitionRank(q, k)
<1> SUFFICES ASSUME NEW j \in 1..Len(q), NEW k \in 1..Len(q)
             PROVE  /\ score[q[j]] = score[q[k]] => CompetitionRank(q, j) = CompetitionRank(q, k)
                    /\ score[q[j]] > score[q[k]] => CompetitionRank(q, j) < CompetitionRank(q, k)
  OBVIOUS
<1> DEFINE a == CompetitionRank(q, j)
           b == CompetitionRank(q, k)
<1>1. /\ a \in 1..j /\ score[q[a]] = score[q[j]]
      /\ \A l \in 1..(a - 1) : score[q[l]] > score[q[j]]
  BY RankOfPlace
<1>2. /\ b \in 1..k /\ score[q[b]] = score[q[k]]
      /\ \A l \in 1..(b - 1) : score[q[l]] > score[q[k]]
  BY RankOfPlace
<1>3. score[q[j]] \in Int /\ score[q[k]] \in Int /\ j \in Nat /\ k \in Nat
  <2>1. Len(q) \in Nat /\ q \in [1..Len(q) -> us]
    BY SortingFacts
  <2> QED BY <2>1
<1> HIDE DEF a, b
<1>4. a \in Nat /\ b \in Nat /\ (a < b => a \in 1..(b - 1)) /\ (b < a => b \in 1..(a - 1))
  BY <1>1, <1>2, <1>3
<1>5. ASSUME score[q[j]] = score[q[k]] PROVE a = b
  BY <1>1, <1>2, <1>3, <1>4, <1>5
<1>6. ASSUME score[q[j]] > score[q[k]] PROVE a < b
  BY <1>1, <1>2, <1>3, <1>4, <1>6
<1> QED BY <1>5, <1>6 DEF a, b

\* What WriteRankings stores has the types of its columns.
LEMMA RankingTyped ==
  ASSUME NEW us \in SUBSET Users, score \in [Users -> Int], NEW q \in Sortings(us)
  PROVE  Ranking(q) \in Seq(RankRow)
<1>1. /\ Len(q) \in Nat /\ Len(q) <= Cardinality(Users) /\ q \in [1..Len(q) -> us]
      /\ Cardinality(Users) \in Nat
  BY SortingFacts, FieldSize
<1>2. ASSUME NEW j \in 1..Len(q)
      PROVE  [user |-> q[j], rank |-> CompetitionRank(q, j), score |-> score[q[j]]] \in RankRow
  <2>1. CompetitionRank(q, j) \in 1..j
    BY RankOfPlace
  <2>2. CompetitionRank(q, j) \in 0..Cardinality(Users)
    BY <1>1, <2>1
  <2>3. q[j] \in Users /\ score[q[j]] \in Int
    BY <1>1
  <2> QED BY <2>2, <2>3 DEF RankRow
<1>3. Ranking(q) \in [1..Len(q) -> RankRow]
  BY <1>1, <1>2 DEF Ranking
<1> QED BY <1>1, <1>3, ListIsSeq

\* The pool that is divided is a whole number of cents.
LEMMA NetPoolNat ==
  ASSUME NEW stored \in Nat, NEW n \in Nat
  PROVE  NetPool(stored, n) \in Nat
<1>1. n * EntryFee \in Nat
  BY AmountsTyped
<1>2. ASSUME NEW gross \in Nat PROVE gross - ((gross * 2000) \div 10000) \in Nat
  OBVIOUS
<1>3. SplitEntryFee(n * EntryFee, DefaultPlatformFeeBps).prize \in Nat
  BY <1>1, <1>2 DEF SplitEntryFee, Share, DefaultPlatformFeeBps
<1> QED BY <1>3 DEF NetPool

\* A list of whole amounts for different users; the places with a positive one,
\* and what is kept of the list at some places.
PrizeList(all) ==
  \E w \in Nat : /\ all \in [1..w -> [user : Users, rank : Nat, amount : Int]]
                 /\ \A j, k \in 1..w : all[j].user = all[k].user => j = k

Positive(all) == {j \in DOMAIN all : all[j].amount > 0}

Chosen(all, at) == [k \in DOMAIN at |-> all[at[k]]]

\* The prizes of a list: typed, no user twice.
PrizesOnce(prizes) ==
  /\ prizes \in Seq(Prize)
  /\ PrizeSet(prizes) \in SUBSET Prize
  /\ \A p, r \in PrizeSet(prizes) : p.user = r.user => p = r

\* calculatePrizes lists different users with whole amounts.
LEMMA PrizesListed ==
  ASSUME NEW us \in SUBSET Users, score \in [Users -> Int], NEW q \in Sortings(us),
         NEW pool \in Nat
  PROVE  PrizeList(CalculatePrizes(q, pool))
<1> DEFINE shares == CalculateForContest(NetPool(pool, Len(q)), Len(q))
           w == IF Len(shares) < Len(q) THEN Len(shares) ELSE Len(q)
<1>1. /\ Len(q) \in Nat /\ q \in [1..Len(q) -> us]
      /\ \A j, k \in 1..Len(q) : j < k => q[j] # q[k]
  BY SortingFacts
<1>2. \E m \in Nat : shares \in [1..m -> Int] /\ Len(shares) = m
  <2>1. NetPool(pool, Len(q)) \in Nat
    BY <1>1, NetPoolNat
  <2> QED BY <1>1, <2>1, SharesTyped
<1>3. CalculatePrizes(q, pool) =
        [j \in 1..w |-> [user |-> q[j], rank |-> CompetitionRank(q, j),
                         amount |-> shares[CompetitionRank(q, j)]]]
  BY DEF CalculatePrizes
<1> HIDE DEF shares
<1>4. Len(shares) \in Nat /\ shares \in [1..Len(shares) -> Int]
  BY <1>2
<1>5. w \in Nat /\ w <= Len(q) /\ w <= Len(shares)
  BY <1>1, <1>4
<1> HIDE DEF w
<1>6. ASSUME NEW j \in 1..w
      PROVE  [user |-> q[j], rank |-> CompetitionRank(q, j), amount |-> shares[CompetitionRank(q, j)]]
                \in [user : Users, rank : Nat, amount : Int]
  <2>1. j \in 1..Len(q) /\ j \in Nat /\ j <= w
    BY <1>1, <1>5
  <2>2. CompetitionRank(q, j) \in 1..j
    BY <2>1, RankOfPlace
  <2>3. CompetitionRank(q, j) \in Nat /\ CompetitionRank(q, j) \in 1..Len(shares)
    BY <1>4, <1>5, <2>1, <2>2
  <2>4. shares[CompetitionRank(q, j)] \in Int
    BY <1>4, <2>3
  <2>5. q[j] \in Users
    BY <1>1, <2>1
  <2> QED BY <2>3, <2>4, <2>5
<1>7. CalculatePrizes(q, pool) \in [1..w -> [user : Users, rank : Nat, amount : Int]]
  BY <1>3, <1>6
<1>8. ASSUME NEW j \in 1..w, NEW k \in 1..w,
             CalculatePrizes(q, pool)[j].user = CalculatePrizes(q, pool)[k].user
      PROVE  j = k
  <2>1. j \in 1..Len(q) /\ k \in 1..Len(q)
    BY <1>1, <1>5
  <2>2. q[j] = q[k]
    BY <1>3, <1>8
  <2> QED BY <1>1, <2>1, <2>2
<1> QED BY <1>5, <1>7, <1>8 DEF PrizeList

\* The prizes that are paid: positive ones, in the order of the list, no user
\* twice.
LEMMA PrizesPaid ==
  ASSUME NEW all, PrizeList(all), NEW at \in InOrder(Positive(all))
  PROVE  PrizesOnce(Chosen(all, at))
<1>1. PICK w \in Nat : /\ all \in [1..w -> [user : Users, rank : Nat, amount : Int]]
                       /\ \A j, k \in 1..w : all[j].user = all[k].user => j = k
  BY DEF PrizeList
<1> DEFINE places == Positive(all)
           prizes == Chosen(all, at)
<1>2. places \in SUBSET (1..w) /\ \A j \in places : all[j].amount > 0
  <2>1. DOMAIN all = 1..w
    BY <1>1
  <2>2. places \in SUBSET (DOMAIN all) /\ \A j \in places : all[j].amount > 0
    BY DEF Positive
  <2> HIDE DEF places
  <2> QED BY <2>1, <2>2, Zenon
<1>3. IsFiniteSet(places) /\ Cardinality(places) \in Nat
  <2> HIDE DEF places
  <2>1. IsFiniteSet(1..w)
    BY FS_Interval
  <2> QED BY <1>2, <2>1, FS_Subset, FS_CardinalityType
<1>4. at \in [1..Cardinality(places) -> places]
  BY DEF InOrder
<1> HIDE DEF places
<1> DEFINE c == Cardinality(places)
<1>5. \A k \in 1..c : all[at[k]] \in Prize /\ at[k] \in 1..w
  <2> SUFFICES ASSUME NEW k \in 1..c PROVE all[at[k]] \in Prize /\ at[k] \in 1..w
    OBVIOUS
  <2>1. at[k] \in places /\ at[k] \in 1..w /\ all[at[k]].amount > 0
    BY <1>2, <1>4
  <2>2. all[at[k]] \in [user : Users, rank : Nat, amount : Int]
    BY <1>1, <2>1
  <2> QED BY <2>1, <2>2 DEF Prize
<1>6. prizes = [k \in 1..c |-> all[at[k]]]
  BY <1>4 DEF Chosen
<1> HIDE DEF c, prizes
<1>7. prizes \in [1..c -> Prize]
  BY <1>5, <1>6
<1>8. prizes \in Seq(Prize)
  BY <1>3, <1>7, ListIsSeq DEF c
<1>9. DOMAIN prizes = 1..c /\ \A k \in 1..c : prizes[k] = all[at[k]]
  BY <1>6
<1>10. PrizeSet(prizes) \in SUBSET Prize
  BY <1>5, <1>9 DEF PrizeSet
<1>11. ASSUME NEW p \in PrizeSet(prizes), NEW r \in PrizeSet(prizes), p.user = r.user
       PROVE  p = r
  <2>1. PICK k \in 1..c, l \in 1..c : p = all[at[k]] /\ r = all[at[l]]
    BY <1>9 DEF PrizeSet
  <2>2. at[k] = at[l]
    BY <1>1, <1>5, <1>11, <2>1
  <2> QED BY <2>1, <2>2
<1> QED BY <1>8, <1>10, <1>11 DEF PrizesOnce, prizes

-----------------------------------------------------------------------------
(* Types of the tables and of the goroutines. *)

Goroutine ==
  [pc : Attempting \union {"idle", "queued"}, attempt : Nat, pool : Nat,
   ranking : Seq(Users) \union Seq(RankRow), prizes : Seq(Prize), orphan : BOOLEAN]

SettlementRow ==
  [status : {"none", "pending", "in_progress", "completed", "failed"}, attempts : Nat,
   stale : BOOLEAN]

PartialScores == UNION {[S -> Int] : S \in SUBSET Users}

ProjectionState ==
  [pc : {"idle", "prepared", "previewed"}, scores : PartialScores,
   payouts : {"none", "stored", "empty"}, ranks : BOOLEAN, done : BOOLEAN]

ContestTyped ==
  /\ status \in {"settling", "completed", "cancelled"}
  /\ active \subseteq Users /\ exposed \subseteq Users /\ unpaid \subseteq Users
  /\ finalRank \in [Users -> 0..Cardinality(Users)]
  /\ score \in [Users -> Int] /\ prizeNet \in Nat
  /\ record \in SettlementRow
  /\ prizeRow \in [Users -> {"none", "credited", "failed"}]
  /\ points \in [Users -> Nat]
  /\ projection \in ProjectionState

\* The participant whose fee is given back, and the rows that are to be written,
\* are there when the step that uses them is reached.
WorkersTyped ==
  /\ worker \in [Instances -> Goroutine]
  /\ \A i \in Instances :
        /\ worker[i].pc = "refunding" => \E u \in Users : worker[i].ranking = <<u>>
        /\ worker[i].pc = "writing" => worker[i].ranking \in Seq(RankRow)

LocksTyped == lock \in Instances \union {Nobody} /\ leaked \in Instances \union {Nobody}

Typed == ContestTyped /\ WorkersTyped /\ LocksTyped

\* An empty list is one of partial scores, and of rankings and prizes.
LEMMA EmptyLists ==
  /\ <<>> \in PartialScores
  /\ <<>> \in Seq(Users) \union Seq(RankRow)
  /\ <<>> \in Seq(Prize)
<1>1. <<>> \in [{} -> Int]
  OBVIOUS
<1>2. {} \in SUBSET Users
  OBVIOUS
<1> QED BY <1>1, <1>2 DEF PartialScores

\* A goroutine that does not exist has the type of one.
LEMMA IdleTyped == Idle \in Goroutine
BY EmptyLists DEF Idle, Goroutine

\* Goto leaves everything of a goroutine but its place.
LEMMA GotoTyped ==
  ASSUME WorkersTyped, NEW i \in Instances, NEW pc \in Attempting \union {"idle", "queued"},
         pc \notin {"refunding", "writing"}, Goto(i, pc)
  PROVE  WorkersTyped'
BY DEF WorkersTyped, Goto, Goroutine

\* A goroutine that is started is typed.
LEMMA TryStartTyped ==
  ASSUME WorkersTyped, NEW i \in Instances, TryStart(i)
  PROVE  WorkersTyped'
BY DEF WorkersTyped, TryStart, Goroutine

\* So is one that ends.
LEMMA IdleAgainTyped ==
  ASSUME WorkersTyped, NEW i \in Instances, worker' = [worker EXCEPT ![i] = Idle]
  PROVE  WorkersTyped'
<1>1. worker' \in [Instances -> Goroutine]
  BY IdleTyped DEF WorkersTyped
<1>2. Idle.pc = "idle"
  BY DEF Idle
<1> QED BY <1>1, <1>2 DEF WorkersTyped

\* Replacing one goroutine by another.
LEMMA ReplacedTyped ==
  ASSUME WorkersTyped, NEW i \in Instances, NEW g \in Goroutine,
         worker' = [worker EXCEPT ![i] = g],
         g.pc = "refunding" => \E u \in Users : g.ranking = <<u>>,
         g.pc = "writing" => g.ranking \in Seq(RankRow)
  PROVE  WorkersTyped'
BY DEF WorkersTyped

\* What a calculation leaves behind, whatever order the sort gave to equals.
LEMMA CalculationFacts ==
  ASSUME ContestTyped, WorkersTyped, NEW i \in Instances, CalculateRankings(i)
  PROVE  \E prizes, ranking :
            /\ PrizesOnce(prizes)
            /\ ranking \in Seq(RankRow)
            /\ worker' = [worker EXCEPT ![i].pc = "writing", ![i].prizes = prizes,
                                        ![i].ranking = ranking]
            /\ allocs' = allocs \union {PrizeSet(prizes)}
<1> DEFINE Prizes(q) == CalculatePrizes(q, worker[i].pool)
<1>1. active \in SUBSET Users /\ score \in [Users -> Int] /\ worker[i].pool \in Nat
  BY DEF ContestTyped, WorkersTyped, Goroutine
<1>2. \A q \in Sortings(active) : PrizeList(Prizes(q))
  BY <1>1, PrizesListed
<1>3. \A q \in Sortings(active) : Ranking(q) \in Seq(RankRow)
  BY <1>1, RankingTyped
<1>5. \E q \in Sortings(active) : \E at \in InOrder(Positive(Prizes(q))) :
         /\ worker' = [worker EXCEPT ![i].pc = "writing", ![i].prizes = Chosen(Prizes(q), at),
                                     ![i].ranking = Ranking(q)]
         /\ allocs' = allocs \union {PrizeSet(Chosen(Prizes(q), at))}
  BY Zenon DEF CalculateRankings, Positive, Chosen
<1> HIDE DEF Prizes
<1>6. PICK q \in Sortings(active) : \E at \in InOrder(Positive(Prizes(q))) :
         /\ worker' = [worker EXCEPT ![i].pc = "writing", ![i].prizes = Chosen(Prizes(q), at),
                                     ![i].ranking = Ranking(q)]
         /\ allocs' = allocs \union {PrizeSet(Chosen(Prizes(q), at))}
  BY <1>5, Zenon
<1>7. PICK at \in InOrder(Positive(Prizes(q))) :
         /\ worker' = [worker EXCEPT ![i].pc = "writing", ![i].prizes = Chosen(Prizes(q), at),
                                     ![i].ranking = Ranking(q)]
         /\ allocs' = allocs \union {PrizeSet(Chosen(Prizes(q), at))}
  BY <1>6, Zenon
<1>8. PrizesOnce(Chosen(Prizes(q), at)) /\ Ranking(q) \in Seq(RankRow)
  BY <1>2, <1>3, <1>7, PrizesPaid, Zenon
<1> QED BY <1>7, <1>8, Zenon

\* Every step keeps the types of the goroutines.
LEMMA WorkersStep ==
  ASSUME ContestTyped, WorkersTyped, [Next]_vars
  PROVE  WorkersTyped'
<1> USE DEF Attempting
<1>1. ASSUME NEW i \in Instances, Trigger(i) PROVE WorkersTyped'
  BY <1>1, TryStartTyped DEF Trigger
<1>2. ASSUME NEW i \in Instances, AcquireLock(i) PROVE WorkersTyped'
  <2> DEFINE g == [worker[i] EXCEPT !.pc = "attempt", !.attempt = 1]
  <2>1. worker[i] \in Goroutine
    BY DEF WorkersTyped
  <2>2. g \in Goroutine /\ g.pc = "attempt"
    BY <2>1 DEF Goroutine
  <2>3. worker' = [worker EXCEPT ![i] = g]
    BY <1>2 DEF AcquireLock, WorkersTyped
  <2> HIDE DEF g
  <2> QED BY <2>2, <2>3, ReplacedTyped
<1>3. ASSUME NEW i \in Instances, LockBusy(i) PROVE WorkersTyped'
  BY <1>3, IdleAgainTyped DEF LockBusy
<1>4. ASSUME NEW i \in Instances, GetSettlementRecord(i) PROVE WorkersTyped'
  <2>1. CASE record.status = "completed"
    BY <1>4, <2>1, IdleAgainTyped DEF GetSettlementRecord, Done
  <2>2. CASE record.status # "completed"
    <3> DEFINE g == [worker[i] EXCEPT !.pc = "recorded", !.pool = prizeNet]
    <3>1. worker[i] \in Goroutine /\ prizeNet \in Nat
      BY DEF WorkersTyped, ContestTyped
    <3>2. g \in Goroutine /\ g.pc = "recorded"
      BY <3>1 DEF Goroutine
    <3>3. worker' = [worker EXCEPT ![i] = g]
      BY <1>4, <2>2 DEF GetSettlementRecord, WorkersTyped
    <3> HIDE DEF g
    <3> QED BY <3>2, <3>3, ReplacedTyped
  <2> QED BY <2>1, <2>2
<1>5. ASSUME NEW i \in Instances, StartEmpty(i) PROVE WorkersTyped'
  BY <1>5, GotoTyped DEF StartEmpty
<1>6. ASSUME NEW i \in Instances, StartSingle(i) PROVE WorkersTyped'
  <2>1. active # {}
    BY <1>6, FS_EmptySet DEF StartSingle
  <2>2. (CHOOSE u \in active : TRUE) \in Users
    BY <2>1 DEF ContestTyped
  <2>3. PICK u \in Users : worker' = [worker EXCEPT ![i].pc = "refunding", ![i].ranking = <<u>>]
    BY <1>6, <2>2 DEF StartSingle
  <2>4. <<u>> \in Seq(Users)
    OBVIOUS
  <2> DEFINE g == [worker[i] EXCEPT !.pc = "refunding", !.ranking = <<u>>]
  <2>5. worker[i] \in Goroutine
    BY DEF WorkersTyped
  <2>6. g \in Goroutine /\ g.pc = "refunding" /\ g.ranking = <<u>>
    BY <2>4, <2>5 DEF Goroutine
  <2>7. worker' = [worker EXCEPT ![i] = g]
    BY <2>3 DEF WorkersTyped
  <2> HIDE DEF g
  <2> QED BY <2>6, <2>7, ReplacedTyped
<1>7. ASSUME NEW i \in Instances, StartMany(i) PROVE WorkersTyped'
  BY <1>7, GotoTyped DEF StartMany
<1>8. ASSUME NEW i \in Instances, RefundSingleParticipant(i) PROVE WorkersTyped'
  BY <1>8, GotoTyped DEF RefundSingleParticipant
<1>9. ASSUME NEW i \in Instances, CompleteRefund(i) PROVE WorkersTyped'
  BY <1>9, GotoTyped DEF CompleteRefund
<1>10. ASSUME NEW i \in Instances, CancelContest(i) PROVE WorkersTyped'
  BY <1>10, IdleAgainTyped DEF CancelContest, Done
<1>11. ASSUME NEW i \in Instances, MarkSettling(i) PROVE WorkersTyped'
  BY <1>11, GotoTyped DEF MarkSettling
<1>12. ASSUME NEW i \in Instances, CloseAllPositions(i) PROVE WorkersTyped'
  BY <1>12, GotoTyped DEF CloseAllPositions
<1>13. ASSUME NEW i \in Instances, CalculateRankings(i) PROVE WorkersTyped'
  <2>1. PICK prizes, ranking :
          /\ PrizesOnce(prizes)
          /\ ranking \in Seq(RankRow)
          /\ worker' = [worker EXCEPT ![i].pc = "writing", ![i].prizes = prizes,
                                      ![i].ranking = ranking]
    BY <1>13, CalculationFacts, Zenon
  <2>2. prizes \in Seq(Prize)
    BY <2>1 DEF PrizesOnce
  <2> DEFINE g == [worker[i] EXCEPT !.pc = "writing", !.prizes = prizes, !.ranking = ranking]
  <2>8. worker[i] \in Goroutine
    BY DEF WorkersTyped
  <2>9. g \in Goroutine /\ g.ranking \in Seq(RankRow) /\ g.pc = "writing"
    BY <2>1, <2>2, <2>8 DEF Goroutine
  <2>10. worker' = [worker EXCEPT ![i] = g]
    BY <2>1 DEF WorkersTyped
  <2> HIDE DEF g
  <2> QED BY <2>9, <2>10, ReplacedTyped
<1>14. ASSUME NEW i \in Instances, WriteRankings(i) PROVE WorkersTyped'
  <2>1. Goto(i, "crediting")
    BY <1>14 DEF WriteRankings
  <2> QED BY <2>1, GotoTyped
<1>15. ASSUME NEW i \in Instances, worker[i].pc = "crediting", worker[i].prizes # <<>>,
              worker' = [worker EXCEPT ![i].prizes = Tail(@)]
       PROVE  WorkersTyped'
  <2>1. worker[i].prizes \in Seq(Prize)
    BY DEF WorkersTyped, Goroutine
  <2>2. Tail(worker[i].prizes) \in Seq(Prize)
    BY <1>15, <2>1, HeadTailProperties
  <2>3. worker' = [worker EXCEPT ![i].prizes = Tail(worker[i].prizes)]
    BY <1>15 DEF WorkersTyped, Goroutine
  <2> QED BY <2>2, <2>3 DEF WorkersTyped, Goroutine
<1>16. ASSUME NEW i \in Instances, CreditPrize(i) PROVE WorkersTyped'
  BY <1>15, <1>16 DEF CreditPrize
<1>17. ASSUME NEW i \in Instances, CreditFails(i) PROVE WorkersTyped'
  BY <1>15, <1>17 DEF CreditFails
<1>18. ASSUME NEW i \in Instances, PrizesDistributed(i) PROVE WorkersTyped'
  BY <1>18, GotoTyped DEF PrizesDistributed
<1>19. ASSUME NEW i \in Instances, UpdateTraggePoints(i) PROVE WorkersTyped'
  BY <1>19, GotoTyped DEF UpdateTraggePoints
<1>20. ASSUME NEW i \in Instances, CompleteFinalization(i) PROVE WorkersTyped'
  BY <1>20, IdleAgainTyped DEF CompleteFinalization, Done
<1>21. ASSUME NEW i \in Instances, AttemptFails(i) PROVE WorkersTyped'
  <2>1. CASE worker[i].attempt < MaxRetries
    <3>1. worker' = [worker EXCEPT ![i] = [Idle EXCEPT !.pc = "attempt", !.orphan = worker[i].orphan,
                                                       !.attempt = worker[i].attempt + 1]]
      BY <1>21, <2>1 DEF AttemptFails
    <3>2. [Idle EXCEPT !.pc = "attempt", !.orphan = worker[i].orphan,
                       !.attempt = worker[i].attempt + 1] \in Goroutine
      <4>1. worker[i].orphan \in BOOLEAN /\ worker[i].attempt + 1 \in Nat
        BY DEF WorkersTyped, Goroutine
      <4> QED BY <4>1, EmptyLists DEF Idle, Goroutine
    <3>3. [Idle EXCEPT !.pc = "attempt", !.orphan = worker[i].orphan,
                       !.attempt = worker[i].attempt + 1].pc = "attempt"
      BY DEF Idle
    <3> QED BY <3>1, <3>2, <3>3 DEF WorkersTyped
  <2>2. CASE ~(worker[i].attempt < MaxRetries)
    BY <1>21, <2>2, IdleAgainTyped DEF AttemptFails, Done
  <2> QED BY <2>1, <2>2
<1>22. ASSUME NEW i \in Instances, Detector(i) PROVE WorkersTyped'
  <2>1. CASE DetectStuck(i)
    BY <2>1 DEF DetectStuck, WorkersTyped
  <2>2. CASE ResetStuck(i) \/ DetectOrphan(i)
    BY <2>2, TryStartTyped DEF ResetStuck, DetectOrphan
  <2> QED BY <1>22, <2>1, <2>2 DEF Detector
<1>23. ASSUME NEW i \in Instances, Timeout(i) \/ Crash(i) PROVE WorkersTyped'
  BY <1>23, IdleAgainTyped DEF Timeout, Crash
<1>24. ASSUME NEW i \in Instances, LoseLockConnection(i) PROVE WorkersTyped'
  BY <1>24 DEF LoseLockConnection, WorkersTyped, Goroutine
<1>25. ASSUME UNCHANGED worker PROVE WorkersTyped'
  BY <1>25 DEF WorkersTyped
<1>26. ASSUME NEW i \in Instances, Progress(i) PROVE WorkersTyped'
  BY <1>2, <1>3, <1>4, <1>5, <1>6, <1>7, <1>8, <1>9, <1>10, <1>11, <1>12, <1>13, <1>14,
     <1>16, <1>18, <1>19, <1>20, <1>21, <1>26 DEF Progress
<1>27. ASSUME NEW i \in Instances, Fault(i) PROVE WorkersTyped'
  BY <1>17, <1>21, <1>23, <1>24, <1>27 DEF Fault
<1>28. ASSUME NEW u \in Users, EngineCloses(u) \/ Disqualify(u) PROVE WorkersTyped'
  BY <1>25, <1>28 DEF EngineCloses, Disqualify
<1>29. ASSUME Projection \/ ProjectionFails PROVE WorkersTyped'
  BY <1>25, <1>29 DEF Projection, PrepareFinalRankings, PreviewPayouts, WriteProjection,
                      CompleteProjection, ProjectionFails
<1>30. ASSUME GoStale \/ FailExhausted \/ RetireConnection PROVE WorkersTyped'
  BY <1>25, <1>30 DEF GoStale, FailExhausted, RetireConnection
<1>31. ASSUME UNCHANGED vars PROVE WorkersTyped'
  BY <1>25, <1>31 DEF vars
<1> QED
  BY <1>1, <1>22, <1>26, <1>27, <1>28, <1>29, <1>30, <1>31 DEF Next

\* Writing the status of the settlement row.
LEMMA InRecordTyped ==
  ASSUME record \in SettlementRow,
         NEW st \in {"none", "pending", "in_progress", "completed", "failed"}, InRecord(st)
  PROVE  record' \in SettlementRow
BY DEF InRecord, SettlementRow

\* A row stays a row when it is touched or its settlement begins.
LEMMA TouchedTyped ==
  ASSUME record \in SettlementRow
  PROVE  Touched(record) \in SettlementRow
BY DEF Touched, SettlementRow

\* The same for the start of a settlement.
LEMMA BeginTyped ==
  ASSUME record \in SettlementRow, Begin
  PROVE  record' \in SettlementRow
BY DEF Begin, SettlementRow

\* The ranks a projection gives to some participants.
LEMMA ProjectedRanks ==
  ASSUME NEW S \in SUBSET Users, NEW place \in [S -> 1..Cardinality(S)], NEW u \in S
  PROVE  place[u] \in 0..Cardinality(Users)
<1>1. Cardinality(S) \in Nat /\ Cardinality(Users) \in Nat /\ Cardinality(S) <= Cardinality(Users)
  BY FieldSize
<1> QED BY <1>1

\* Every step keeps the types of the tables.
LEMMA ContestStep ==
  ASSUME ContestTyped, WorkersTyped, [Next]_vars
  PROVE  ContestTyped'
<1> USE DEF contestVars, moneyVars
<1>0. ASSUME UNCHANGED <<contestVars, prizeRow, unpaid, points, projection>>,
             record' \in SettlementRow
      PROVE  ContestTyped'
  BY <1>0 DEF ContestTyped
<1>1. record \in SettlementRow /\ Touched(record) \in SettlementRow
  BY TouchedTyped DEF ContestTyped
<1>2. ASSUME NEW i \in Instances, Trigger(i) \/ AcquireLock(i) \/ LockBusy(i) PROVE ContestTyped'
  BY <1>0, <1>1, <1>2 DEF Trigger, AcquireLock, LockBusy
<1>3. ASSUME NEW i \in Instances, GetSettlementRecord(i) PROVE ContestTyped'
  <2>1. [NoRecord EXCEPT !.status = "pending"] \in SettlementRow
    BY DEF NoRecord, SettlementRow
  <2> QED BY <1>0, <1>1, <1>3, <2>1 DEF GetSettlementRecord
<1>4. ASSUME NEW i \in Instances, StartEmpty(i) \/ CompleteRefund(i) PROVE ContestTyped'
  BY <1>0, <1>1, <1>4, InRecordTyped DEF StartEmpty, CompleteRefund
<1>5. ASSUME NEW i \in Instances, StartSingle(i) \/ StartMany(i) PROVE ContestTyped'
  BY <1>0, <1>1, <1>5, BeginTyped DEF StartSingle, StartMany
<1>6. ASSUME NEW i \in Instances, RefundSingleParticipant(i) PROVE ContestTyped'
  BY <1>6 DEF RefundSingleParticipant, ContestTyped
<1>7. ASSUME NEW i \in Instances, CancelContest(i) \/ MarkSettling(i) PROVE ContestTyped'
  BY <1>7 DEF CancelContest, MarkSettling, ContestTyped
<1>8. ASSUME NEW i \in Instances, CloseAllPositions(i) \/ PrizesDistributed(i) PROVE ContestTyped'
  BY <1>0, <1>1, <1>8 DEF CloseAllPositions, PrizesDistributed
<1>9. ASSUME NEW i \in Instances, CalculateRankings(i) PROVE ContestTyped'
  BY <1>0, <1>1, <1>9 DEF CalculateRankings
<1>10. ASSUME NEW i \in Instances, WriteRankings(i) PROVE ContestTyped'
  <2> DEFINE q == worker[i].ranking
             at(u) == CHOOSE j \in DOMAIN q : q[j].user = u
             ranked == {q[j].user : j \in DOMAIN q}
  <2>1. q \in Seq(RankRow)
    BY <1>10 DEF WriteRankings, WorkersTyped
  <2>2. \A u \in ranked : at(u) \in DOMAIN q
    OBVIOUS
  <2>3. \A u \in ranked : q[at(u)].rank \in 0..Cardinality(Users) /\ q[at(u)].score \in Int
    <3> HIDE DEF q, ranked, at
    <3>1. \A j \in DOMAIN q : q[j] \in RankRow
      BY <2>1
    <3> QED BY <2>2, <3>1 DEF RankRow
  <2>4. /\ finalRank' = [u \in Users |-> IF u \in ranked THEN q[at(u)].rank ELSE finalRank[u]]
        /\ score' = [u \in Users |-> IF u \in ranked THEN q[at(u)].score ELSE score[u]]
        /\ UNCHANGED <<status, active, exposed, prizeNet, snapshot, prizeRow, unpaid, points,
                       record, projection>>
    BY <1>10, Zenon DEF WriteRankings
  <2> HIDE DEF q, ranked, at
  <2> QED BY <2>3, <2>4 DEF ContestTyped
<1>11. ASSUME NEW i \in Instances, CreditPrize(i) \/ CreditFails(i) PROVE ContestTyped'
  <2> DEFINE p == Head(worker[i].prizes)
  <2>1. worker[i].prizes \in Seq(Prize) /\ worker[i].prizes # <<>>
    BY <1>11 DEF CreditPrize, CreditFails, WorkersTyped, Goroutine
  <2>2. p.user \in Users
    <3>1. p \in Prize
      BY <2>1, HeadTailProperties
    <3> HIDE DEF p
    <3> QED BY <3>1 DEF Prize
  <2>3. /\ prizeRow' \in {prizeRow, [prizeRow EXCEPT ![p.user] = "credited"],
                          [prizeRow EXCEPT ![p.user] = "failed"]}
        /\ unpaid' \in {unpaid \ {p.user}, unpaid \union {p.user}}
        /\ UNCHANGED <<contestVars, points, record, projection>>
    BY <1>11 DEF CreditPrize, CreditFails
  <2> HIDE DEF p
  <2> QED BY <2>2, <2>3 DEF ContestTyped
<1>12. ASSUME NEW i \in Instances, UpdateTraggePoints(i) PROVE ContestTyped'
  BY <1>12 DEF UpdateTraggePoints, ContestTyped
<1>13. ASSUME NEW i \in Instances, CompleteFinalization(i) PROVE ContestTyped'
  BY <1>13, InRecordTyped DEF CompleteFinalization, ContestTyped
<1>14. ASSUME NEW i \in Instances, AttemptFails(i) PROVE ContestTyped'
  <2>1. [record EXCEPT !.status = "failed", !.stale = FALSE] \in SettlementRow
    BY <1>1 DEF SettlementRow
  <2> QED BY <1>0, <1>1, <1>14, <2>1 DEF AttemptFails
<1>15. ASSUME NEW i \in Instances, Detector(i) PROVE ContestTyped'
  BY <1>0, <1>1, <1>15, InRecordTyped DEF Detector, DetectStuck, ResetStuck, DetectOrphan
<1>16. ASSUME NEW i \in Instances, Timeout(i) \/ LoseLockConnection(i) \/ Crash(i) PROVE ContestTyped'
  BY <1>0, <1>1, <1>16 DEF Timeout, LoseLockConnection, Crash
<1>17. ASSUME NEW u \in Users, EngineCloses(u) PROVE ContestTyped'
  <2>1. \A s \in ClosingScores \union {score[u]} : s \in Int
    BY ScoresTyped DEF ContestTyped
  <2> QED BY <1>17, <2>1 DEF EngineCloses, ContestTyped
<1>18. ASSUME NEW u \in Users, Disqualify(u) PROVE ContestTyped'
  BY <1>18 DEF Disqualify, ContestTyped
<1>19. ASSUME PrepareFinalRankings PROVE ContestTyped'
  <2>1. [u \in Eligible |-> score[u]] \in [Eligible -> Int] /\ Eligible \in SUBSET Users
    BY DEF Eligible, ContestTyped
  <2>2. [u \in Eligible |-> score[u]] \in PartialScores
    BY <2>1 DEF PartialScores
  <2>3. projection' \in ProjectionState
    BY <1>19, <2>2 DEF PrepareFinalRankings, ContestTyped, ProjectionState
  <2> QED BY <1>19, <2>3 DEF PrepareFinalRankings, ContestTyped
<1>20. ASSUME PreviewPayouts PROVE ContestTyped'
  <2>1. projection' \in ProjectionState
    BY <1>20 DEF PreviewPayouts, ContestTyped, ProjectionState
  <2> QED BY <1>20, <2>1 DEF PreviewPayouts, ContestTyped
<1>21. ASSUME WriteProjection PROVE ContestTyped'
  <2> DEFINE q == projection.scores
             written == Eligible \intersect DOMAIN q
  <2>1. PICK S \in SUBSET Users : q \in [S -> Int]
    BY DEF ContestTyped, ProjectionState, PartialScores
  <2>2. PICK place \in [S -> 1..Cardinality(S)] :
           finalRank' = [u \in Users |-> IF u \in written THEN place[u] ELSE finalRank[u]]
    BY <1>21, <2>1 DEF WriteProjection
  <2>3. \A u \in written : u \in S /\ place[u] \in 0..Cardinality(Users) /\ q[u] \in Int
    BY <2>1, ProjectedRanks
  <2>4. /\ score' = [u \in Users |-> IF u \in written THEN q[u] ELSE score[u]]
        /\ projection' = [projection EXCEPT !.ranks = TRUE]
        /\ UNCHANGED <<status, active, exposed, prizeNet, snapshot, prizeRow, unpaid, points, record>>
    BY <1>21 DEF WriteProjection
  <2>5. projection' \in ProjectionState
    BY <2>4 DEF ContestTyped, ProjectionState
  <2> HIDE DEF q, written
  <2> QED BY <2>2, <2>3, <2>4, <2>5 DEF ContestTyped
<1>22. ASSUME CompleteProjection \/ ProjectionFails PROVE ContestTyped'
  <2>1. projection' \in ProjectionState
    BY <1>22, EmptyLists DEF CompleteProjection, ProjectionFails, ContestTyped, ProjectionState
  <2> QED BY <1>22, <2>1 DEF CompleteProjection, ProjectionFails, ContestTyped
<1>23. ASSUME GoStale \/ FailExhausted \/ RetireConnection PROVE ContestTyped'
  <2>1. [record EXCEPT !.stale = TRUE] \in SettlementRow
    BY <1>1 DEF SettlementRow
  <2> QED BY <1>0, <1>1, <1>23, <2>1, InRecordTyped DEF GoStale, FailExhausted, RetireConnection
<1>24. ASSUME UNCHANGED vars PROVE ContestTyped'
  BY <1>24 DEF vars, ContestTyped
<1>25. ASSUME NEW i \in Instances, Progress(i) PROVE ContestTyped'
  BY <1>2, <1>3, <1>4, <1>5, <1>6, <1>7, <1>8, <1>9, <1>10, <1>11, <1>12, <1>13, <1>14, <1>25
     DEF Progress
<1>26. ASSUME NEW i \in Instances, Fault(i) PROVE ContestTyped'
  BY <1>11, <1>14, <1>16, <1>26 DEF Fault
<1> QED
  BY <1>2, <1>15, <1>17, <1>18, <1>19, <1>20, <1>21, <1>22, <1>23, <1>24, <1>25, <1>26
     DEF Next, Projection

\* Every step keeps the types of the lock's holders.
LEMMA LocksStep ==
  ASSUME LocksTyped, [Next]_vars
  PROVE  LocksTyped'
<1> USE DEF LocksTyped, lockVars
<1>1. ASSUME NEW i \in Instances, Progress(i) PROVE LocksTyped'
  BY <1>1 DEF Progress, AcquireLock, LockBusy, GetSettlementRecord, Done, StartEmpty, StartSingle,
       StartMany, RefundSingleParticipant, CompleteRefund, CancelContest, MarkSettling,
       CloseAllPositions, CalculateRankings, WriteRankings, CreditPrize, PrizesDistributed,
       UpdateTraggePoints, CompleteFinalization, AttemptFails
<1>2. ASSUME NEW i \in Instances, Trigger(i) \/ Detector(i) \/ Fault(i) PROVE LocksTyped'
  BY <1>2 DEF Trigger, Detector, DetectStuck, ResetStuck, DetectOrphan, Fault, CreditFails,
       AttemptFails, Done, Timeout, LoseLockConnection, Crash
<1>3. ASSUME NEW u \in Users, EngineCloses(u) \/ Disqualify(u) PROVE LocksTyped'
  BY <1>3 DEF EngineCloses, Disqualify
<1>4. ASSUME Projection \/ ProjectionFails \/ GoStale \/ FailExhausted \/ RetireConnection
      PROVE  LocksTyped'
  BY <1>4 DEF Projection, PrepareFinalRankings, PreviewPayouts, WriteProjection,
       CompleteProjection, ProjectionFails, GoStale, FailExhausted, RetireConnection
<1>5. ASSUME UNCHANGED vars PROVE LocksTyped'
  BY <1>5 DEF vars
<1> QED BY <1>1, <1>2, <1>3, <1>4, <1>5 DEF Next

\* The initial states have the types.
LEMMA TypedInit == Init => Typed
<1> SUFFICES ASSUME Init PROVE Typed
  OBVIOUS
<1>1. Cardinality(Users) \in Nat
  BY FieldSize
<1>2. NoProjection \in ProjectionState
  BY EmptyLists DEF NoProjection, ProjectionState
<1>3. NoRecord \in SettlementRow
  BY DEF NoRecord, SettlementRow
<1>4. active \subseteq Users
  BY ParticipantsFinite DEF Init
<1>5. ContestTyped
  BY <1>1, <1>2, <1>3, <1>4, AmountsTyped, ScoresTyped DEF Init, ContestTyped
<1>6. Idle.pc = "idle"
  BY DEF Idle
<1>7. WorkersTyped
  BY <1>6, IdleTyped DEF Init, WorkersTyped
<1>8. LocksTyped
  BY DEF Init, LocksTyped
<1> QED BY <1>5, <1>7, <1>8 DEF Typed

\* Every row and every goroutine of a settlement keeps its type, whatever fails,
\* is retried, or is written by others in between.
THEOREM SettlementTyped == Spec => []Typed
<1>1. Typed /\ [Next]_vars => Typed'
  BY WorkersStep, ContestStep, LocksStep DEF Typed
<1> QED BY TypedInit, <1>1, PTL DEF Spec

-----------------------------------------------------------------------------
(* One settler at a time. *)

\* Who is inside an attempt holds the advisory lock, unless its connection broke.
HoldsLock ==
  \A i \in Instances : worker[i].pc \in Attempting /\ ~worker[i].orphan => lock = i

\* A worker that is replaced by one outside an attempt, or stays inside, keeps
\* the lock's owner unique.
LEMMA HoldsLockStep ==
  ASSUME Typed, HoldsLock, [Next]_vars
  PROVE  HoldsLock'
<1> USE DEF HoldsLock, lockVars
<1>0. worker \in [Instances -> Goroutine]
  BY DEF Typed, WorkersTyped
<1>1. \A i \in Instances : worker[i].pc \notin {"idle", "queued"} => worker[i].pc \in Attempting
  BY <1>0 DEF Goroutine
<1>2. Idle.pc \notin Attempting /\ "queued" \notin Attempting
  BY DEF Idle, Attempting
<1>3. ASSUME NEW i \in Instances, NEW pc, worker[i].pc \in Attempting, Goto(i, pc), UNCHANGED lock
      PROVE  HoldsLock'
  BY <1>0, <1>3 DEF Goto, Goroutine
<1>4. ASSUME NEW i \in Instances, worker' = [worker EXCEPT ![i] = Idle],
             lock' = IF lock = i THEN Nobody ELSE lock
      PROVE  HoldsLock'
  BY <1>0, <1>2, <1>4
<1>5. ASSUME NEW i \in Instances, TryStart(i), UNCHANGED lock PROVE HoldsLock'
  BY <1>0, <1>2, <1>5 DEF TryStart, Goroutine
<1>6. ASSUME UNCHANGED <<worker, lock>> PROVE HoldsLock'
  BY <1>6
<1>7. ASSUME NEW i \in Instances, AcquireLock(i) PROVE HoldsLock'
  BY <1>0, <1>7, InstancesNamed DEF AcquireLock, Goroutine
<1>8. ASSUME NEW i \in Instances, LockBusy(i) PROVE HoldsLock'
  <2>1. worker' = [worker EXCEPT ![i] = Idle] /\ lock' = lock /\ worker[i].pc = "queued"
    BY <1>8 DEF LockBusy
  <2> QED BY <1>0, <1>2, <2>1
<1>9. ASSUME NEW i \in Instances, GetSettlementRecord(i) PROVE HoldsLock'
  <2>1. CASE record.status = "completed"
    BY <1>4, <1>9, <2>1 DEF GetSettlementRecord, Done
  <2>2. CASE record.status # "completed"
    <3>1. /\ worker' = [worker EXCEPT ![i].pc = "recorded", ![i].pool = prizeNet]
          /\ lock' = lock /\ worker[i].pc = "attempt"
      BY <1>9, <2>2 DEF GetSettlementRecord
    <3> QED BY <1>0, <3>1 DEF Goroutine, Attempting
  <2> QED BY <2>1, <2>2
<1>10. ASSUME NEW i \in Instances, StartEmpty(i) \/ StartMany(i) \/ RefundSingleParticipant(i)
              \/ CompleteRefund(i) \/ MarkSettling(i) \/ CloseAllPositions(i) \/ WriteRankings(i)
              \/ PrizesDistributed(i) \/ UpdateTraggePoints(i)
       PROVE  HoldsLock'
  BY <1>3, <1>10 DEF Attempting, StartEmpty, StartMany, RefundSingleParticipant, CompleteRefund,
       MarkSettling, CloseAllPositions, WriteRankings, PrizesDistributed, UpdateTraggePoints
<1>11. ASSUME NEW i \in Instances, CancelContest(i) \/ CompleteFinalization(i) PROVE HoldsLock'
  BY <1>4, <1>11 DEF CancelContest, CompleteFinalization, Done
<1>12. ASSUME NEW i \in Instances, StartSingle(i) PROVE HoldsLock'
  <2>1. PICK r : worker' = [worker EXCEPT ![i].pc = "refunding", ![i].ranking = r]
    BY <1>12 DEF StartSingle
  <2>2. lock' = lock /\ worker[i].pc \in Attempting
    BY <1>12 DEF StartSingle, Attempting
  <2> QED BY <1>0, <2>1, <2>2 DEF Goroutine
<1>13. ASSUME NEW i \in Instances, CalculateRankings(i) PROVE HoldsLock'
  <2>1. PICK prizes, r : worker' = [worker EXCEPT ![i].pc = "writing", ![i].prizes = prizes,
                                                  ![i].ranking = r]
    BY <1>13, CalculationFacts, Zenon DEF Typed
  <2>2. lock' = lock /\ worker[i].pc \in Attempting
    BY <1>13 DEF CalculateRankings, Attempting
  <2> QED BY <1>0, <2>1, <2>2 DEF Goroutine
<1>14. ASSUME NEW i \in Instances, CreditPrize(i) \/ CreditFails(i) PROVE HoldsLock'
  <2>1. worker' = [worker EXCEPT ![i].prizes = Tail(@)] /\ lock' = lock
    BY <1>14 DEF CreditPrize, CreditFails
  <2> QED BY <1>0, <2>1 DEF Goroutine
<1>15. ASSUME NEW i \in Instances, AttemptFails(i) PROVE HoldsLock'
  <2>1. CASE worker[i].attempt < MaxRetries
    <3>1. /\ worker' = [worker EXCEPT ![i] = [Idle EXCEPT !.pc = "attempt", !.orphan = worker[i].orphan,
                                                          !.attempt = worker[i].attempt + 1]]
          /\ lock' = lock /\ worker[i].pc \in Attempting
      BY <1>15, <2>1 DEF AttemptFails
    <3> DEFINE g == [Idle EXCEPT !.pc = "attempt", !.orphan = worker[i].orphan,
                                 !.attempt = worker[i].attempt + 1]
    <3>2. g.orphan = worker[i].orphan
      BY DEF Idle
    <3>3. worker' = [worker EXCEPT ![i] = g]
      BY <3>1
    <3> HIDE DEF g
    <3> QED BY <1>0, <3>1, <3>2, <3>3
  <2>2. CASE ~(worker[i].attempt < MaxRetries)
    BY <1>4, <1>15, <2>2 DEF AttemptFails, Done
  <2> QED BY <2>1, <2>2
<1>16. ASSUME NEW i \in Instances, Timeout(i) \/ Crash(i) PROVE HoldsLock'
  BY <1>4, <1>16 DEF Timeout, Crash
<1>17. ASSUME NEW i \in Instances, LoseLockConnection(i) PROVE HoldsLock'
  <2>1. worker' = [worker EXCEPT ![i].orphan = TRUE] /\ lock = i
    BY <1>17 DEF LoseLockConnection
  <2> QED BY <1>0, <2>1, InstancesNamed DEF Goroutine
<1>18. ASSUME NEW i \in Instances, Trigger(i) \/ Detector(i) PROVE HoldsLock'
  BY <1>5, <1>6, <1>18 DEF Trigger, Detector, DetectStuck, ResetStuck, DetectOrphan
<1>19. ASSUME NEW u \in Users, EngineCloses(u) \/ Disqualify(u) PROVE HoldsLock'
  BY <1>6, <1>19 DEF EngineCloses, Disqualify
<1>20. ASSUME Projection \/ ProjectionFails \/ GoStale \/ FailExhausted \/ RetireConnection
       PROVE  HoldsLock'
  BY <1>6, <1>20 DEF Projection, PrepareFinalRankings, PreviewPayouts, WriteProjection,
       CompleteProjection, ProjectionFails, GoStale, FailExhausted, RetireConnection
<1>21. ASSUME UNCHANGED vars PROVE HoldsLock'
  BY <1>6, <1>21 DEF vars
<1>22. ASSUME NEW i \in Instances, Progress(i) PROVE HoldsLock'
  BY <1>7, <1>8, <1>9, <1>10, <1>11, <1>12, <1>13, <1>14, <1>15, <1>22 DEF Progress
<1>23. ASSUME NEW i \in Instances, Fault(i) PROVE HoldsLock'
  BY <1>14, <1>15, <1>16, <1>17, <1>23 DEF Fault
<1> QED BY <1>18, <1>19, <1>20, <1>21, <1>22, <1>23 DEF Next

\* The advisory lock admits one goroutine to an attempt at a time, for any number
\* of instances, triggers, time-outs, leaked locks and detector restarts; only
\* one that has lost its lock connection may still run beside it.
THEOREM OneSettler == Spec => []SingleSettler
<1>1. Init => HoldsLock
  BY DEF Init, HoldsLock, Idle, Attempting
<1>2. Typed /\ HoldsLock /\ [Next]_vars => HoldsLock'
  BY HoldsLockStep
<1>3. HoldsLock => SingleSettler
  BY DEF HoldsLock, SingleSettler
<1> QED BY SettlementTyped, <1>1, <1>2, <1>3, PTL DEF Spec

-----------------------------------------------------------------------------
(* No credit before the positions are closed. *)

PastClosing == {"ranking", "writing", "crediting", "points", "finalizing"}

\* From closeAllPositions on, no position is open; nothing opens one again.
ClosedBehind ==
  /\ \A i \in Instances : worker[i].pc \in PastClosing => exposed = {}
  /\ NoCreditWhileExposed

\* Every step keeps positions closed behind the instance that closed them.
LEMMA ClosedBehindStep ==
  ASSUME Typed, ClosedBehind, [Next]_vars
  PROVE  ClosedBehind'
<1> USE DEF ClosedBehind, NoCreditWhileExposed, contestVars, moneyVars
<1>0. worker \in [Instances -> Goroutine]
  BY DEF Typed, WorkersTyped
<1>1. Idle.pc \notin PastClosing /\ "queued" \notin PastClosing
  BY DEF Idle, PastClosing
<1>2. ASSUME NEW i \in Instances, NEW pc, Goto(i, pc), UNCHANGED <<exposed, ledger>>,
             pc \in PastClosing => exposed = {}
      PROVE  ClosedBehind'
  BY <1>0, <1>2 DEF Goto, Goroutine
<1>3. ASSUME NEW i \in Instances, worker' = [worker EXCEPT ![i] = Idle], UNCHANGED <<exposed, ledger>>
      PROVE  ClosedBehind'
  BY <1>0, <1>1, <1>3
<1>4. ASSUME NEW i \in Instances, TryStart(i), UNCHANGED <<exposed, ledger>> PROVE ClosedBehind'
  BY <1>0, <1>1, <1>4 DEF TryStart, Goroutine
<1>5. ASSUME UNCHANGED <<worker, ledger>>, exposed' \subseteq exposed PROVE ClosedBehind'
  BY <1>5
<1>6. ASSUME NEW i \in Instances, AcquireLock(i) PROVE ClosedBehind'
  BY <1>0, <1>6 DEF AcquireLock, Goroutine, PastClosing
<1>7. ASSUME NEW i \in Instances, LockBusy(i) \/ Timeout(i) \/ Crash(i) PROVE ClosedBehind'
  BY <1>3, <1>7 DEF LockBusy, Timeout, Crash
<1>8. ASSUME NEW i \in Instances, GetSettlementRecord(i) PROVE ClosedBehind'
  <2>1. CASE record.status = "completed"
    BY <1>3, <1>8, <2>1 DEF GetSettlementRecord, Done
  <2>2. CASE record.status # "completed"
    <3>1. /\ worker' = [worker EXCEPT ![i].pc = "recorded", ![i].pool = prizeNet]
          /\ UNCHANGED <<exposed, ledger>>
      BY <1>8, <2>2 DEF GetSettlementRecord
    <3> QED BY <1>0, <3>1 DEF Goroutine, PastClosing
  <2> QED BY <2>1, <2>2
<1>9. ASSUME NEW i \in Instances, StartEmpty(i) \/ StartMany(i) \/ RefundSingleParticipant(i)
             \/ CompleteRefund(i) \/ MarkSettling(i)
      PROVE  ClosedBehind'
  BY <1>2, <1>9 DEF PastClosing, StartEmpty, StartMany, RefundSingleParticipant, CompleteRefund,
       MarkSettling
<1>10. ASSUME NEW i \in Instances, CloseAllPositions(i) PROVE ClosedBehind'
  BY <1>2, <1>10 DEF CloseAllPositions
<1>11. ASSUME NEW i \in Instances, WriteRankings(i) \/ PrizesDistributed(i) \/ UpdateTraggePoints(i)
       PROVE  ClosedBehind'
  BY <1>2, <1>11 DEF PastClosing, WriteRankings, PrizesDistributed, UpdateTraggePoints
<1>12. ASSUME NEW i \in Instances, CancelContest(i) \/ CompleteFinalization(i) PROVE ClosedBehind'
  BY <1>3, <1>12 DEF CancelContest, CompleteFinalization, Done
<1>13. ASSUME NEW i \in Instances, StartSingle(i) PROVE ClosedBehind'
  <2>1. PICK r : worker' = [worker EXCEPT ![i].pc = "refunding", ![i].ranking = r]
    BY <1>13 DEF StartSingle
  <2>2. UNCHANGED <<exposed, ledger>>
    BY <1>13 DEF StartSingle
  <2> QED BY <1>0, <2>1, <2>2 DEF Goroutine, PastClosing
<1>14. ASSUME NEW i \in Instances, CalculateRankings(i) PROVE ClosedBehind'
  <2>1. PICK prizes, r : worker' = [worker EXCEPT ![i].pc = "writing", ![i].prizes = prizes,
                                                  ![i].ranking = r]
    BY <1>14, CalculationFacts, Zenon DEF Typed
  <2>2. UNCHANGED <<exposed, ledger>> /\ exposed = {}
    BY <1>14 DEF CalculateRankings, PastClosing
  <2> QED BY <1>0, <2>1, <2>2 DEF Goroutine
<1>15. ASSUME NEW i \in Instances, CreditPrize(i) \/ CreditFails(i) PROVE ClosedBehind'
  <2>1. worker' = [worker EXCEPT ![i].prizes = Tail(@)] /\ exposed' = exposed /\ exposed = {}
    BY <1>15 DEF CreditPrize, CreditFails, PastClosing
  <2> QED BY <1>0, <2>1 DEF Goroutine
<1>16. ASSUME NEW i \in Instances, AttemptFails(i) PROVE ClosedBehind'
  <2>1. CASE worker[i].attempt < MaxRetries
    <3> DEFINE g == [Idle EXCEPT !.pc = "attempt", !.orphan = worker[i].orphan,
                                 !.attempt = worker[i].attempt + 1]
    <3>1. g.pc \notin PastClosing
      BY DEF Idle, PastClosing
    <3>2. worker' = [worker EXCEPT ![i] = g] /\ UNCHANGED <<exposed, ledger>>
      BY <1>16, <2>1 DEF AttemptFails
    <3> HIDE DEF g
    <3> QED BY <1>0, <3>1, <3>2
  <2>2. CASE ~(worker[i].attempt < MaxRetries)
    BY <1>3, <1>16, <2>2 DEF AttemptFails, Done
  <2> QED BY <2>1, <2>2
<1>17. ASSUME NEW i \in Instances, LoseLockConnection(i) PROVE ClosedBehind'
  <2>1. worker' = [worker EXCEPT ![i].orphan = TRUE] /\ UNCHANGED <<exposed, ledger>>
    BY <1>17 DEF LoseLockConnection
  <2> QED BY <1>0, <2>1 DEF Goroutine
<1>18. ASSUME NEW i \in Instances, Trigger(i) \/ Detector(i) PROVE ClosedBehind'
  BY <1>4, <1>5, <1>18 DEF Trigger, Detector, DetectStuck, ResetStuck, DetectOrphan
<1>19. ASSUME NEW u \in Users, EngineCloses(u) \/ Disqualify(u) PROVE ClosedBehind'
  BY <1>5, <1>19 DEF EngineCloses, Disqualify
<1>20. ASSUME Projection \/ ProjectionFails \/ GoStale \/ FailExhausted \/ RetireConnection
       PROVE  ClosedBehind'
  BY <1>5, <1>20 DEF Projection, PrepareFinalRankings, PreviewPayouts, WriteProjection,
       CompleteProjection, ProjectionFails, GoStale, FailExhausted, RetireConnection
<1>21. ASSUME UNCHANGED vars PROVE ClosedBehind'
  BY <1>5, <1>21 DEF vars
<1>22. ASSUME NEW i \in Instances, Progress(i) PROVE ClosedBehind'
  BY <1>6, <1>7, <1>8, <1>9, <1>10, <1>11, <1>12, <1>13, <1>14, <1>15, <1>16, <1>22 DEF Progress
<1>23. ASSUME NEW i \in Instances, Fault(i) PROVE ClosedBehind'
  BY <1>7, <1>15, <1>16, <1>17, <1>23 DEF Fault
<1> QED BY <1>18, <1>19, <1>20, <1>21, <1>22, <1>23 DEF Next

\* Prizes are only credited when no position is open and no order is pending,
\* also after retries and by a settler that has lost its lock.
THEOREM CreditsAfterClosing == Spec => []NoCreditWhileExposed
<1>1. Init => ClosedBehind
  BY DEF Init, ClosedBehind, NoCreditWhileExposed, Idle, PastClosing
<1>2. Typed /\ ClosedBehind /\ [Next]_vars => ClosedBehind'
  BY ClosedBehindStep
<1>3. ClosedBehind => NoCreditWhileExposed
  BY DEF ClosedBehind
<1> QED BY SettlementTyped, <1>1, <1>2, <1>3, PTL DEF Spec

-----------------------------------------------------------------------------
(* The prize ledger. *)

Distributing == {"writing", "crediting", "points", "finalizing"}

\* A prize that is in the ledger, or reported as failed.
Answered(p) == Credited(p.user, p.rank) \/ p.user \in unpaid

\* Every allocation has prizes of its own kind, no user twice.
AllocsTyped ==
  /\ IsFiniteSet(allocs)
  /\ \A a \in allocs : /\ a \in SUBSET Prize
                       /\ \A p, r \in a : p.user = r.user => p = r

\* What a goroutine still has to pay, and what is paid, was calculated.
PaidFromAllocs ==
  /\ \A i \in Instances : PrizeSet(worker[i].prizes) \subseteq UNION allocs
  /\ ledger \subseteq UNION allocs

KeysOnce == \A p, r \in ledger : p.user = r.user /\ p.rank = r.rank => p = r

\* Nobody distributes or has finished before there is an allocation; while it is
\* the only one, each of its prizes is answered or still in the hands of the
\* goroutine that distributes it.
OnlyAllocAnswered ==
  /\ allocs = {} => ~snapshot /\ \A i \in Instances : worker[i].pc \notin Distributing
  /\ \A a \in allocs : allocs = {a} =>
        /\ snapshot => \A p \in a : Answered(p)
        /\ \A i \in Instances :
              /\ worker[i].pc \in {"points", "finalizing"} => \A p \in a : Answered(p)
              /\ worker[i].pc \in {"writing", "crediting"} =>
                    \A p \in a : p \in PrizeSet(worker[i].prizes) \/ Answered(p)

LedgerInv ==
  AllocsTyped /\ PaidFromAllocs /\ KeysOnce /\ CreditedRowsBacked /\ OnlyAllocAnswered

\* An empty list has no prizes; a longer one its head and those of its tail.
LEMMA PrizeSetEmpty == PrizeSet(<<>>) = {}
BY DEF PrizeSet

\* The head of a list of prizes and the rest of it.
LEMMA PrizeSetHead ==
  ASSUME NEW s \in Seq(Prize), s # <<>>
  PROVE  /\ Head(s) \in PrizeSet(s) /\ Head(s) \in Prize
         /\ PrizeSet(Tail(s)) \subseteq PrizeSet(s)
         /\ PrizeSet(s) \subseteq {Head(s)} \union PrizeSet(Tail(s))
<1>1. /\ Len(s) \in Nat /\ Len(s) >= 1 /\ DOMAIN s = 1..Len(s)
      /\ Head(s) = s[1] /\ Head(s) \in Prize
  BY EmptySeq, LenProperties, HeadTailProperties
<1>2. /\ Tail(s) \in Seq(Prize) /\ Len(Tail(s)) = Len(s) - 1
      /\ \A k \in 1..Len(Tail(s)) : Tail(s)[k] = s[k + 1]
  BY HeadTailProperties
<1>3. DOMAIN Tail(s) = 1..(Len(s) - 1)
  BY <1>2, LenProperties
<1>4. Head(s) \in PrizeSet(s)
  BY <1>1 DEF PrizeSet
<1>5. ASSUME NEW p \in PrizeSet(Tail(s)) PROVE p \in PrizeSet(s)
  <2>1. PICK k \in 1..(Len(s) - 1) : p = Tail(s)[k]
    BY <1>3 DEF PrizeSet
  <2>2. k + 1 \in DOMAIN s /\ p = s[k + 1]
    BY <1>1, <1>2, <2>1
  <2> QED BY <2>2 DEF PrizeSet
<1>6. ASSUME NEW p \in PrizeSet(s), p # Head(s) PROVE p \in PrizeSet(Tail(s))
  <2>1. PICK k \in 1..Len(s) : p = s[k]
    BY <1>1 DEF PrizeSet
  <2>2. k - 1 \in 1..(Len(s) - 1) /\ (k - 1) + 1 = k
    BY <1>1, <1>6, <2>1
  <2>3. p = Tail(s)[k - 1]
    BY <1>2, <2>1, <2>2
  <2> QED BY <1>3, <2>2, <2>3 DEF PrizeSet
<1> QED BY <1>1, <1>4, <1>5, <1>6

\* A step that pays nothing and calculates nothing: the goroutine keeps its list
\* or has none, and moves on only when that is sound.
LEMMA QuietStep ==
  ASSUME LedgerInv, NEW i \in Instances, NEW g, worker \in [Instances -> Goroutine],
         worker' = [worker EXCEPT ![i] = g],
         UNCHANGED <<allocs, ledger, prizeRow, unpaid, snapshot>>,
         g.prizes \in {<<>>, worker[i].prizes},
         \/ g.pc \notin Distributing
         \/ g.pc = worker[i].pc /\ g.prizes = worker[i].prizes
         \/ g.pc = "crediting" /\ worker[i].pc = "writing" /\ g.prizes = worker[i].prizes
         \/ g.pc = "points" /\ worker[i].pc = "crediting" /\ worker[i].prizes = <<>>
         \/ g.pc = "finalizing" /\ worker[i].pc = "points"
  PROVE  LedgerInv'
<1> USE DEF LedgerInv
<1>1. AllocsTyped' /\ KeysOnce' /\ CreditedRowsBacked'
  BY DEF AllocsTyped, KeysOnce, CreditedRowsBacked
<1>2. \A p : Answered(p)' <=> Answered(p)
  BY DEF Answered, Credited
<1>3. worker'[i] = g /\ \A j \in Instances \ {i} : worker'[j] = worker[j]
  OBVIOUS
<1>4. PaidFromAllocs'
  BY <1>3, PrizeSetEmpty DEF PaidFromAllocs
<1>5. ASSUME allocs = {} PROVE ~snapshot' /\ \A j \in Instances : worker'[j].pc \notin Distributing
  BY <1>3, <1>5 DEF OnlyAllocAnswered, Distributing
<1>6. ASSUME NEW a \in allocs, allocs = {a}, NEW j \in Instances
      PROVE  /\ worker'[j].pc \in {"points", "finalizing"} => \A p \in a : Answered(p)
             /\ worker'[j].pc \in {"writing", "crediting"} =>
                   \A p \in a : p \in PrizeSet(worker'[j].prizes) \/ Answered(p)
  <2>1. /\ worker[j].pc \in {"points", "finalizing"} => \A p \in a : Answered(p)
        /\ worker[j].pc \in {"writing", "crediting"} =>
              \A p \in a : p \in PrizeSet(worker[j].prizes) \/ Answered(p)
    BY <1>6 DEF OnlyAllocAnswered
  <2>2. CASE j # i
    BY <1>3, <2>1, <2>2
  <2>3. CASE j = i
    BY <1>3, <2>1, <2>3, PrizeSetEmpty DEF Distributing
  <2> QED BY <2>2, <2>3
<1>7. OnlyAllocAnswered'
  BY <1>2, <1>5, <1>6 DEF OnlyAllocAnswered
<1> QED BY <1>1, <1>4, <1>7

\* A credit pays the head of the list, under a key that may be in the ledger.
LEMMA CreditPrizeStep ==
  ASSUME LedgerInv, ContestTyped, WorkersTyped, NEW i \in Instances, CreditPrize(i)
  PROVE  LedgerInv'
<1> USE DEF LedgerInv, moneyVars, contestVars
<1> DEFINE s == worker[i].prizes
           p == Head(s)
<1>0. worker \in [Instances -> Goroutine] /\ prizeRow \in [Users -> {"none", "credited", "failed"}]
  BY DEF WorkersTyped, ContestTyped
<1>1. /\ s \in Seq(Prize) /\ s # <<>> /\ worker[i].pc = "crediting"
      /\ ledger' = IF Credited(p.user, p.rank) THEN ledger ELSE ledger \union {p}
      /\ prizeRow' = [prizeRow EXCEPT ![p.user] = "credited"]
      /\ unpaid' = unpaid \ {p.user}
      /\ worker' = [worker EXCEPT ![i].prizes = Tail(s)]
      /\ UNCHANGED <<allocs, snapshot>>
  BY <1>0 DEF CreditPrize, Goroutine
<1>2. /\ p \in PrizeSet(s) /\ p \in Prize
      /\ PrizeSet(Tail(s)) \subseteq PrizeSet(s) /\ PrizeSet(s) \subseteq {p} \union PrizeSet(Tail(s))
  BY <1>1, PrizeSetHead
<1>3. /\ worker'[i].prizes = Tail(s)
      /\ \A j \in Instances : worker'[j].pc = worker[j].pc
      /\ \A j \in Instances \ {i} : worker'[j] = worker[j]
  BY <1>0, <1>1 DEF Goroutine
<1> HIDE DEF p, s
<1>4. p \in UNION allocs
  BY <1>2 DEF PaidFromAllocs, s
<1>5. AllocsTyped'
  BY <1>1 DEF AllocsTyped
<1>6. PaidFromAllocs'
  <2>1. ledger' \subseteq UNION allocs'
    BY <1>1, <1>4 DEF PaidFromAllocs
  <2>2. ASSUME NEW j \in Instances PROVE PrizeSet(worker'[j].prizes) \subseteq UNION allocs'
    <3>1. CASE j = i
      BY <1>1, <1>2, <1>3, <3>1 DEF PaidFromAllocs, s
    <3>2. CASE j # i
      BY <1>1, <1>3, <3>2 DEF PaidFromAllocs
    <3> QED BY <3>1, <3>2
  <2> QED BY <2>1, <2>2 DEF PaidFromAllocs
<1>7. KeysOnce'
  <2>1. CASE Credited(p.user, p.rank)
    BY <1>1, <2>1 DEF KeysOnce
  <2>2. CASE ~Credited(p.user, p.rank)
    BY <1>1, <2>2 DEF KeysOnce, Credited
  <2> QED BY <2>1, <2>2
<1>8. (\E e \in ledger' : e.user = p.user /\ e.rank = p.rank) /\ ledger \subseteq ledger'
  BY <1>1 DEF Credited
<1>9. CreditedRowsBacked'
  BY <1>0, <1>1, <1>8 DEF CreditedRowsBacked
<1>10. ASSUME NEW a \in allocs, allocs = {a}, NEW r \in a, Answered(r) \/ r = p
       PROVE  Answered(r)'
  <2>1. p \in a /\ (r.user = p.user => r = p)
    BY <1>4, <1>10 DEF AllocsTyped
  <2>2. CASE r.user = p.user
    BY <1>8, <2>1, <2>2 DEF Answered, Credited
  <2>3. CASE r.user # p.user
    <3>1. Answered(r)
      BY <1>10, <2>3
    <3>2. Credited(r.user, r.rank) => Credited(r.user, r.rank)'
      BY <1>8 DEF Credited
    <3> QED BY <1>1, <2>3, <3>1, <3>2 DEF Answered
  <2> QED BY <2>2, <2>3
<1>11. OnlyAllocAnswered'
  <2>1. ASSUME allocs = {} PROVE ~snapshot' /\ \A j \in Instances : worker'[j].pc \notin Distributing
    BY <1>1, <1>3, <2>1 DEF OnlyAllocAnswered
  <2>2. ASSUME NEW a \in allocs, allocs = {a}
        PROVE  /\ snapshot' => \A r \in a : Answered(r)'
               /\ \A j \in Instances :
                    /\ worker'[j].pc \in {"points", "finalizing"} => \A r \in a : Answered(r)'
                    /\ worker'[j].pc \in {"writing", "crediting"} =>
                          \A r \in a : r \in PrizeSet(worker'[j].prizes) \/ Answered(r)'
    <3>1. snapshot' => \A r \in a : Answered(r)'
      BY <1>1, <1>10, <2>2 DEF OnlyAllocAnswered
    <3>2. ASSUME NEW j \in Instances, worker'[j].pc \in {"points", "finalizing"}
          PROVE  \A r \in a : Answered(r)'
      BY <1>3, <1>10, <2>2, <3>2 DEF OnlyAllocAnswered
    <3>3. ASSUME NEW j \in Instances, worker'[j].pc \in {"writing", "crediting"}, NEW r \in a
          PROVE  r \in PrizeSet(worker'[j].prizes) \/ Answered(r)'
      <4>1. r \in PrizeSet(worker[j].prizes) \/ Answered(r)
        BY <1>3, <2>2, <3>3 DEF OnlyAllocAnswered
      <4>2. CASE Answered(r)
        BY <1>10, <2>2, <4>2
      <4>3. CASE r \in PrizeSet(worker[j].prizes) /\ j # i
        BY <1>3, <4>3
      <4>4. CASE r \in PrizeSet(worker[j].prizes) /\ j = i
        BY <1>2, <1>3, <1>10, <2>2, <4>4 DEF s
      <4> QED BY <4>1, <4>2, <4>3, <4>4
    <3> QED BY <3>1, <3>2, <3>3
  <2> QED BY <1>1, <2>1, <2>2 DEF OnlyAllocAnswered
<1> QED BY <1>5, <1>6, <1>7, <1>9, <1>11

\* A failed credit is reported with its user.
LEMMA CreditFailsStep ==
  ASSUME LedgerInv, ContestTyped, WorkersTyped, NEW i \in Instances, CreditFails(i)
  PROVE  LedgerInv'
<1> USE DEF LedgerInv, moneyVars, contestVars
<1> DEFINE s == worker[i].prizes
           p == Head(s)
<1>0. worker \in [Instances -> Goroutine] /\ prizeRow \in [Users -> {"none", "credited", "failed"}]
  BY DEF WorkersTyped, ContestTyped
<1>1. /\ s \in Seq(Prize) /\ s # <<>>
      /\ prizeRow' \in {prizeRow, [prizeRow EXCEPT ![p.user] = "failed"]}
      /\ unpaid' = unpaid \union {p.user}
      /\ worker' = [worker EXCEPT ![i].prizes = Tail(s)]
      /\ UNCHANGED <<allocs, ledger, snapshot>>
  BY <1>0 DEF CreditFails, Goroutine
<1>2. PrizeSet(Tail(s)) \subseteq PrizeSet(s) /\ PrizeSet(s) \subseteq {p} \union PrizeSet(Tail(s))
  BY <1>1, PrizeSetHead
<1>3. /\ worker'[i].prizes = Tail(s)
      /\ \A j \in Instances : worker'[j].pc = worker[j].pc
      /\ \A j \in Instances \ {i} : worker'[j] = worker[j]
  BY <1>0, <1>1 DEF Goroutine
<1> HIDE DEF p, s
<1>4. AllocsTyped' /\ KeysOnce'
  BY <1>1 DEF AllocsTyped, KeysOnce
<1>5. CreditedRowsBacked'
  BY <1>0, <1>1 DEF CreditedRowsBacked
<1>6. PaidFromAllocs'
  <2>1. ASSUME NEW j \in Instances PROVE PrizeSet(worker'[j].prizes) \subseteq UNION allocs'
    <3>1. CASE j = i
      BY <1>1, <1>2, <1>3, <3>1 DEF PaidFromAllocs, s
    <3>2. CASE j # i
      BY <1>1, <1>3, <3>2 DEF PaidFromAllocs
    <3> QED BY <3>1, <3>2
  <2> QED BY <1>1, <2>1 DEF PaidFromAllocs
<1>7. \A r : Answered(r) \/ r = p => Answered(r)'
  BY <1>1 DEF Answered, Credited
<1>8. OnlyAllocAnswered'
  <2>1. ASSUME allocs = {} PROVE ~snapshot' /\ \A j \in Instances : worker'[j].pc \notin Distributing
    BY <1>1, <1>3, <2>1 DEF OnlyAllocAnswered
  <2>2. ASSUME NEW a \in allocs, allocs = {a}
        PROVE  /\ snapshot' => \A r \in a : Answered(r)'
               /\ \A j \in Instances :
                    /\ worker'[j].pc \in {"points", "finalizing"} => \A r \in a : Answered(r)'
                    /\ worker'[j].pc \in {"writing", "crediting"} =>
                          \A r \in a : r \in PrizeSet(worker'[j].prizes) \/ Answered(r)'
    <3>1. snapshot' => \A r \in a : Answered(r)'
      BY <1>1, <1>7, <2>2 DEF OnlyAllocAnswered
    <3>2. ASSUME NEW j \in Instances, worker'[j].pc \in {"points", "finalizing"}
          PROVE  \A r \in a : Answered(r)'
      BY <1>3, <1>7, <2>2, <3>2 DEF OnlyAllocAnswered
    <3>3. ASSUME NEW j \in Instances, worker'[j].pc \in {"writing", "crediting"}, NEW r \in a
          PROVE  r \in PrizeSet(worker'[j].prizes) \/ Answered(r)'
      <4>1. r \in PrizeSet(worker[j].prizes) \/ Answered(r)
        BY <1>3, <2>2, <3>3 DEF OnlyAllocAnswered
      <4>2. CASE j # i
        BY <1>3, <1>7, <4>1, <4>2
      <4>3. CASE j = i
        BY <1>2, <1>3, <1>7, <4>1, <4>3 DEF s
      <4> QED BY <4>2, <4>3
    <3> QED BY <3>1, <3>2, <3>3
  <2> QED BY <1>1, <2>1, <2>2 DEF OnlyAllocAnswered
<1> QED BY <1>4, <1>5, <1>6, <1>8

\* A calculation adds an allocation; if it is still the only one, its prizes are
\* all in the list of the goroutine, or were calculated before.
LEMMA CalculateStep ==
  ASSUME LedgerInv, ContestTyped, WorkersTyped, NEW i \in Instances, CalculateRankings(i)
  PROVE  LedgerInv'
<1> USE DEF LedgerInv, moneyVars, contestVars
<1>0. worker \in [Instances -> Goroutine]
  BY DEF WorkersTyped
<1>1. PICK prizes, ranking :
         /\ PrizesOnce(prizes)
         /\ worker' = [worker EXCEPT ![i].pc = "writing", ![i].prizes = prizes, ![i].ranking = ranking]
         /\ allocs' = allocs \union {PrizeSet(prizes)}
  BY CalculationFacts, Zenon
<1> DEFINE b == PrizeSet(prizes)
<1>2. /\ UNCHANGED <<ledger, prizeRow, unpaid, snapshot>>
      /\ worker'[i].prizes = prizes /\ worker'[i].pc = "writing"
      /\ \A j \in Instances \ {i} : worker'[j] = worker[j]
  BY <1>0, <1>1 DEF CalculateRankings, Goroutine
<1>3. /\ b \in SUBSET Prize /\ \A p, r \in b : p.user = r.user => p = r
      /\ allocs' = allocs \union {b} /\ PrizeSet(worker'[i].prizes) = b
  BY <1>1, <1>2 DEF PrizesOnce
<1> HIDE DEF b
<1>4. AllocsTyped'
  <2>1. IsFiniteSet(allocs')
    BY <1>3, FS_AddElement DEF AllocsTyped
  <2> QED BY <1>3, <2>1 DEF AllocsTyped
<1>5. PaidFromAllocs'
  <2>1. UNION allocs \subseteq UNION allocs' /\ b \subseteq UNION allocs'
    BY <1>3
  <2>2. ledger' \subseteq UNION allocs'
    BY <1>2, <2>1 DEF PaidFromAllocs
  <2>3. ASSUME NEW j \in Instances PROVE PrizeSet(worker'[j].prizes) \subseteq UNION allocs'
    <3>1. CASE j = i
      BY <1>3, <2>1, <3>1
    <3>2. CASE j # i
      BY <1>2, <2>1, <3>2 DEF PaidFromAllocs
    <3> QED BY <3>1, <3>2
  <2> QED BY <2>2, <2>3 DEF PaidFromAllocs
<1>6. KeysOnce' /\ CreditedRowsBacked'
  BY <1>2 DEF KeysOnce, CreditedRowsBacked
<1>7. \A r : Answered(r)' <=> Answered(r)
  BY <1>2 DEF Answered, Credited
<1>8. ASSUME NEW a \in allocs', allocs' = {a} PROVE a = b /\ (allocs = {} \/ allocs = {b})
  BY <1>3, <1>8
<1>9. ASSUME allocs' = {b}
      PROVE  /\ snapshot' => \A r \in b : Answered(r)
             /\ \A j \in Instances :
                  /\ worker'[j].pc \in {"points", "finalizing"} => \A r \in b : Answered(r)
                  /\ worker'[j].pc \in {"writing", "crediting"} =>
                        \A r \in b : r \in PrizeSet(worker'[j].prizes) \/ Answered(r)
  <2>1. allocs = {} \/ allocs = {b}
    BY <1>8, <1>9
  <2>2. /\ snapshot => \A r \in b : Answered(r)
        /\ \A j \in Instances :
             /\ worker[j].pc \in {"points", "finalizing"} => \A r \in b : Answered(r)
             /\ worker[j].pc \in {"writing", "crediting"} =>
                   \A r \in b : r \in PrizeSet(worker[j].prizes) \/ Answered(r)
    BY <2>1 DEF OnlyAllocAnswered, Distributing
  <2>3. ASSUME NEW j \in Instances
        PROVE  /\ worker'[j].pc \in {"points", "finalizing"} => \A r \in b : Answered(r)
               /\ worker'[j].pc \in {"writing", "crediting"} =>
                     \A r \in b : r \in PrizeSet(worker'[j].prizes) \/ Answered(r)
    <3>1. CASE j = i
      BY <1>2, <1>3, <3>1
    <3>2. CASE j # i
      BY <1>2, <2>2, <3>2
    <3> QED BY <3>1, <3>2
  <2> QED BY <1>2, <2>2, <2>3
<1>10. allocs' # {}
  BY <1>3
<1>11. OnlyAllocAnswered'
  BY <1>7, <1>8, <1>9, <1>10 DEF OnlyAllocAnswered
<1> QED BY <1>4, <1>5, <1>6, <1>11

\* The contest is completed by a goroutine that has nothing left to pay.
LEMMA FinalizationStep ==
  ASSUME LedgerInv, WorkersTyped, NEW i \in Instances, CompleteFinalization(i)
  PROVE  LedgerInv'
<1> USE DEF LedgerInv, moneyVars, contestVars
<1>0. worker \in [Instances -> Goroutine]
  BY DEF WorkersTyped
<1>1. /\ worker[i].pc = "finalizing"
      /\ worker' = [worker EXCEPT ![i] = Idle]
      /\ UNCHANGED <<allocs, ledger, prizeRow, unpaid>>
  BY DEF CompleteFinalization, Done
<1>2. Idle.pc = "idle" /\ Idle.prizes = <<>>
  BY DEF Idle
<1>3. worker'[i] = Idle /\ \A j \in Instances \ {i} : worker'[j] = worker[j]
  BY <1>0, <1>1
<1>4. AllocsTyped' /\ KeysOnce' /\ CreditedRowsBacked'
  BY <1>1 DEF AllocsTyped, KeysOnce, CreditedRowsBacked
<1>5. PaidFromAllocs'
  BY <1>1, <1>2, <1>3, PrizeSetEmpty DEF PaidFromAllocs
<1>6. \A r : Answered(r)' <=> Answered(r)
  BY <1>1 DEF Answered, Credited
<1>7. allocs # {}
  BY <1>1 DEF OnlyAllocAnswered, Distributing
<1>8. ASSUME NEW a \in allocs, allocs = {a}
      PROVE  /\ \A r \in a : Answered(r)
             /\ \A j \in Instances :
                  worker'[j].pc \in {"writing", "crediting"} =>
                        \A r \in a : r \in PrizeSet(worker'[j].prizes) \/ Answered(r)
  BY <1>1, <1>2, <1>3, <1>8 DEF OnlyAllocAnswered
<1>9. OnlyAllocAnswered'
  BY <1>1, <1>6, <1>7, <1>8 DEF OnlyAllocAnswered
<1> QED BY <1>4, <1>5, <1>9

\* Every step keeps the prize ledger in order.
LEMMA LedgerStep ==
  ASSUME LedgerInv, ContestTyped, WorkersTyped, [Next]_vars
  PROVE  LedgerInv'
<1> USE DEF moneyVars, contestVars
<1>0. worker \in [Instances -> Goroutine]
  BY DEF WorkersTyped
<1>1. Idle.pc \notin Distributing /\ Idle.prizes = <<>>
  BY DEF Idle, Distributing
<1>2. ASSUME NEW i \in Instances, NEW pc, Goto(i, pc),
             UNCHANGED <<allocs, ledger, prizeRow, unpaid, snapshot>>,
             \/ pc \notin Distributing
             \/ pc = "crediting" /\ worker[i].pc = "writing"
             \/ pc = "points" /\ worker[i].pc = "crediting" /\ worker[i].prizes = <<>>
             \/ pc = "finalizing" /\ worker[i].pc = "points"
      PROVE  LedgerInv'
  <2> DEFINE g == [worker[i] EXCEPT !.pc = pc]
  <2>1. g.pc = pc /\ g.prizes = worker[i].prizes /\ worker' = [worker EXCEPT ![i] = g]
    BY <1>0, <1>2 DEF Goto, Goroutine
  <2> HIDE DEF g
  <2> QED BY <1>0, <1>2, <2>1, QuietStep
<1>3. ASSUME NEW i \in Instances, worker' = [worker EXCEPT ![i] = Idle],
             UNCHANGED <<allocs, ledger, prizeRow, unpaid, snapshot>>
      PROVE  LedgerInv'
  BY <1>0, <1>1, <1>3, QuietStep
<1>4. ASSUME UNCHANGED <<worker, allocs, ledger, prizeRow, unpaid, snapshot>> PROVE LedgerInv'
  BY <1>4 DEF LedgerInv, AllocsTyped, PaidFromAllocs, KeysOnce, CreditedRowsBacked,
       OnlyAllocAnswered, Answered, Credited
<1>5. ASSUME NEW i \in Instances, TryStart(i),
             UNCHANGED <<allocs, ledger, prizeRow, unpaid, snapshot>>
      PROVE  LedgerInv'
  <2>1. CASE worker[i].pc = "idle"
    <3> DEFINE g == [worker[i] EXCEPT !.pc = "queued"]
    <3>1. /\ g.pc = "queued" /\ g.prizes = worker[i].prizes /\ worker' = [worker EXCEPT ![i] = g]
      BY <1>0, <1>5, <2>1 DEF TryStart, Goroutine
    <3>2. "queued" \notin Distributing
      BY DEF Distributing
    <3> HIDE DEF g
    <3> QED BY <1>0, <1>5, <3>1, <3>2, QuietStep
  <2>2. CASE worker[i].pc # "idle"
    BY <1>4, <1>5, <2>2 DEF TryStart
  <2> QED BY <2>1, <2>2
<1>6. ASSUME NEW i \in Instances, AcquireLock(i) PROVE LedgerInv'
  <2> DEFINE g == [worker[i] EXCEPT !.pc = "attempt", !.attempt = 1]
  <2>1. g.pc \notin Distributing /\ g.prizes = worker[i].prizes /\ worker' = [worker EXCEPT ![i] = g]
    BY <1>0, <1>6 DEF AcquireLock, Goroutine, Distributing
  <2>2. UNCHANGED <<allocs, ledger, prizeRow, unpaid, snapshot>>
    BY <1>6 DEF AcquireLock
  <2> HIDE DEF g
  <2> QED BY <1>0, <2>1, <2>2, QuietStep
<1>7. ASSUME NEW i \in Instances, LockBusy(i) \/ Timeout(i) \/ Crash(i) \/ CancelContest(i)
      PROVE  LedgerInv'
  BY <1>3, <1>7 DEF LockBusy, Timeout, Crash, CancelContest, Done
<1>8. ASSUME NEW i \in Instances, GetSettlementRecord(i) PROVE LedgerInv'
  <2>1. CASE record.status = "completed"
    BY <1>3, <1>8, <2>1 DEF GetSettlementRecord, Done
  <2>2. CASE record.status # "completed"
    <3> DEFINE g == [worker[i] EXCEPT !.pc = "recorded", !.pool = prizeNet]
    <3>1. g.pc \notin Distributing /\ g.prizes = worker[i].prizes /\ worker' = [worker EXCEPT ![i] = g]
      BY <1>0, <1>8, <2>2 DEF GetSettlementRecord, Goroutine, Distributing
    <3>2. UNCHANGED <<allocs, ledger, prizeRow, unpaid, snapshot>>
      BY <1>8 DEF GetSettlementRecord
    <3> HIDE DEF g
    <3> QED BY <1>0, <3>1, <3>2, QuietStep
  <2> QED BY <2>1, <2>2
<1>9. ASSUME NEW i \in Instances, StartEmpty(i) \/ StartMany(i) \/ RefundSingleParticipant(i)
             \/ CompleteRefund(i) \/ MarkSettling(i) \/ CloseAllPositions(i)
      PROVE  LedgerInv'
  BY <1>2, <1>9 DEF Distributing, StartEmpty, StartMany, RefundSingleParticipant, CompleteRefund,
       MarkSettling, CloseAllPositions
<1>10. ASSUME NEW i \in Instances, WriteRankings(i) \/ PrizesDistributed(i) \/ UpdateTraggePoints(i)
       PROVE  LedgerInv'
  BY <1>2, <1>10 DEF WriteRankings, PrizesDistributed, UpdateTraggePoints
<1>11. ASSUME NEW i \in Instances, StartSingle(i) PROVE LedgerInv'
  <2>1. PICK r : worker' = [worker EXCEPT ![i].pc = "refunding", ![i].ranking = r]
    BY <1>11 DEF StartSingle
  <2> DEFINE g == [worker[i] EXCEPT !.pc = "refunding", !.ranking = r]
  <2>2. g.pc \notin Distributing /\ g.prizes = worker[i].prizes /\ worker' = [worker EXCEPT ![i] = g]
    BY <1>0, <2>1 DEF Goroutine, Distributing
  <2>3. UNCHANGED <<allocs, ledger, prizeRow, unpaid, snapshot>>
    BY <1>11 DEF StartSingle
  <2> HIDE DEF g
  <2> QED BY <1>0, <2>2, <2>3, QuietStep
<1>12. ASSUME NEW i \in Instances, AttemptFails(i) PROVE LedgerInv'
  <2>1. CASE worker[i].attempt < MaxRetries
    <3> DEFINE g == [Idle EXCEPT !.pc = "attempt", !.orphan = worker[i].orphan,
                                 !.attempt = worker[i].attempt + 1]
    <3>1. g.pc \notin Distributing /\ g.prizes = <<>>
      BY DEF Idle, Distributing
    <3>2. worker' = [worker EXCEPT ![i] = g]
          /\ UNCHANGED <<allocs, ledger, prizeRow, unpaid, snapshot>>
      BY <1>12, <2>1 DEF AttemptFails
    <3> HIDE DEF g
    <3> QED BY <1>0, <3>1, <3>2, QuietStep
  <2>2. CASE ~(worker[i].attempt < MaxRetries)
    BY <1>3, <1>12, <2>2 DEF AttemptFails, Done
  <2> QED BY <2>1, <2>2
<1>13. ASSUME NEW i \in Instances, LoseLockConnection(i) PROVE LedgerInv'
  <2> DEFINE g == [worker[i] EXCEPT !.orphan = TRUE]
  <2>1. /\ g.pc = worker[i].pc /\ g.prizes = worker[i].prizes /\ worker' = [worker EXCEPT ![i] = g]
    BY <1>0, <1>13 DEF LoseLockConnection, Goroutine
  <2>2. UNCHANGED <<allocs, ledger, prizeRow, unpaid, snapshot>>
    BY <1>13 DEF LoseLockConnection
  <2> HIDE DEF g
  <2> QED BY <1>0, <2>1, <2>2, QuietStep
<1>14. ASSUME NEW i \in Instances, Trigger(i) \/ Detector(i) PROVE LedgerInv'
  BY <1>4, <1>5, <1>14 DEF Trigger, Detector, DetectStuck, ResetStuck, DetectOrphan
<1>15. ASSUME NEW u \in Users, EngineCloses(u) \/ Disqualify(u) PROVE LedgerInv'
  BY <1>4, <1>15 DEF EngineCloses, Disqualify
<1>16. ASSUME Projection \/ ProjectionFails \/ GoStale \/ FailExhausted \/ RetireConnection
       PROVE  LedgerInv'
  BY <1>4, <1>16 DEF Projection, PrepareFinalRankings, PreviewPayouts, WriteProjection,
       CompleteProjection, ProjectionFails, GoStale, FailExhausted, RetireConnection
<1>17. ASSUME UNCHANGED vars PROVE LedgerInv'
  BY <1>4, <1>17 DEF vars
<1>18. ASSUME NEW i \in Instances, Progress(i) PROVE LedgerInv'
  BY <1>6, <1>7, <1>8, <1>9, <1>10, <1>11, <1>12, <1>18, CreditPrizeStep, CalculateStep,
     FinalizationStep DEF Progress
<1>19. ASSUME NEW i \in Instances, Fault(i) PROVE LedgerInv'
  BY <1>7, <1>12, <1>13, <1>19, CreditFailsStep DEF Fault
<1> QED BY <1>14, <1>15, <1>16, <1>17, <1>18, <1>19 DEF Next

\* The ledger's invariant holds in every reachable state.
LEMMA LedgerAlways == Spec => [](Typed /\ LedgerInv)
<1>1. Init => LedgerInv
  <2> SUFFICES ASSUME Init PROVE LedgerInv
    OBVIOUS
  <2>1. \A i \in Instances : worker[i] = Idle
    BY DEF Init
  <2>2. Idle.prizes = <<>> /\ Idle.pc = "idle"
    BY DEF Idle
  <2>3. AllocsTyped
    BY FS_EmptySet DEF Init, AllocsTyped
  <2> QED BY <2>1, <2>2, <2>3, PrizeSetEmpty
       DEF Init, LedgerInv, PaidFromAllocs, KeysOnce, CreditedRowsBacked, OnlyAllocAnswered,
           Distributing
<1>2. LedgerInv /\ Typed /\ [Next]_vars => LedgerInv'
  BY LedgerStep DEF Typed
<1> QED BY SettlementTyped, <1>1, <1>2, PTL DEF Spec

\* A set of allocations of size one has one member.
LEMMA OnlyOne ==
  ASSUME AllocsTyped, Cardinality(allocs) = 1
  PROVE  \E a \in allocs : allocs = {a}
BY FS_Singleton DEF AllocsTyped

\* Types, credited rows that are backed by the wallet ledger, and a finished
\* contest whose winners are all paid or reported: what settlement leaves behind
\* can be trusted, for every field, every pool and every number of faults.
THEOREM SettlementTrusted == Spec => []WinnersAccounted
<1>1. Typed => SettlementTypeOK
  <2> SUFFICES ASSUME Typed PROVE SettlementTypeOK
    OBVIOUS
  <2>1. \A i \in Instances : worker[i].pc \in Attempting \union {"idle", "queued"}
    BY DEF Typed, WorkersTyped, Goroutine
  <2>2. /\ record.status \in {"none", "pending", "in_progress", "completed", "failed"}
        /\ record.attempts \in Nat
    BY DEF Typed, ContestTyped, SettlementRow
  <2> QED BY <2>1, <2>2 DEF Typed, ContestTyped, LocksTyped, SettlementTypeOK
<1>2. LedgerInv => FinishedWinnersAccounted
  <2> SUFFICES ASSUME LedgerInv, snapshot, Cardinality(allocs) = 1, NEW p \in UNION allocs
               PROVE  Credited(p.user, p.rank) \/ p.user \in unpaid
    BY DEF FinishedWinnersAccounted
  <2>1. PICK a \in allocs : allocs = {a}
    BY OnlyOne DEF LedgerInv
  <2>2. p \in a
    BY <2>1
  <2> QED BY <2>1, <2>2 DEF LedgerInv, OnlyAllocAnswered, Answered
<1>3. LedgerInv => CreditedRowsBacked
  BY DEF LedgerInv
<1>4. Typed /\ LedgerInv => WinnersAccounted
  BY <1>1, <1>2, <1>3 DEF WinnersAccounted
<1> QED BY LedgerAlways, <1>4, PTL

\* As long as every attempt calculates the same prizes nobody is paid twice, ties
\* included.
PaidOnce ==
  Cardinality(allocs) = 1 => \A p, r \in ledger : p.user = r.user => p = r

\* However many attempts, crashes and settlers there are, one calculation pays
\* each of its winners at most once.
THEOREM WinnersPaidOnce == Spec => []PaidOnce
<1>1. LedgerInv => PaidOnce
  <2> SUFFICES ASSUME LedgerInv, Cardinality(allocs) = 1,
                      NEW p \in ledger, NEW r \in ledger, p.user = r.user
               PROVE  p = r
    BY DEF PaidOnce
  <2>1. PICK a \in allocs : allocs = {a}
    BY OnlyOne DEF LedgerInv
  <2>2. p \in a /\ r \in a
    BY <2>1 DEF LedgerInv, PaidFromAllocs
  <2> QED BY <2>2 DEF LedgerInv, AllocsTyped
<1> QED BY LedgerAlways, <1>1, PTL

-----------------------------------------------------------------------------
(* The detailed settlement implements the promise of the prize ledger. *)

\* Every step of the service is a calculation, a credit or a refund of the
\* abstract ledger, or changes nothing of it.
LEMMA PayoutStep ==
  ASSUME Typed, LedgerInv, [Next]_vars
  PROVE  Payout!Next \/ UNCHANGED Payout!vars
<1> USE DEF moneyVars, contestVars
<1> DEFINE Quiet == UNCHANGED <<allocs, ledger, refunded>>
           Goal == Payout!Next \/ UNCHANGED Payout!vars
<1>1. Quiet => Goal
  BY DEF Payout!vars
<1>2. ASSUME NEW i \in Instances, CalculateRankings(i) PROVE Goal
  <2>1. PICK prizes, ranking : PrizesOnce(prizes) /\ allocs' = allocs \union {PrizeSet(prizes)}
    BY <1>2, CalculationFacts, Zenon DEF Typed
  <2> DEFINE b == PrizeSet(prizes)
  <2>2. b \subseteq Payout!Prizes /\ allocs' = allocs \union {b}
    BY <2>1 DEF PrizesOnce, Prize, Payout!Prizes
  <2>3. UNCHANGED <<ledger, refunded>>
    BY <1>2 DEF CalculateRankings
  <2> HIDE DEF b
  <2>4. b \in allocs'
    BY <2>2
  <2> QED BY <2>2, <2>3, <2>4 DEF Payout!Next, Payout!Calculate
<1>3. ASSUME NEW i \in Instances, CreditPrize(i) PROVE Goal
  <2> DEFINE s == worker[i].prizes
             p == Head(s)
  <2>1. /\ ledger' = IF Credited(p.user, p.rank) THEN ledger ELSE ledger \union {p}
        /\ UNCHANGED <<allocs, refunded>> /\ s # <<>>
    BY <1>3 DEF CreditPrize
  <2>2. s \in Seq(Prize)
    BY DEF Typed, WorkersTyped, Goroutine
  <2>3. p \in PrizeSet(s)
    BY <2>1, <2>2, PrizeSetHead
  <2>4. p \in UNION allocs
    BY <2>3 DEF LedgerInv, PaidFromAllocs
  <2> HIDE DEF p, s
  <2>5. CASE Credited(p.user, p.rank)
    BY <1>1, <2>1, <2>5
  <2>6. CASE ~Credited(p.user, p.rank)
    <3>1. \A q \in ledger : <<q.user, q.rank>> # <<p.user, p.rank>>
      BY <2>6 DEF Credited
    <3>2. ledger' = ledger \union {p}
      BY <2>1, <2>6
    <3> QED BY <2>1, <2>4, <3>1, <3>2 DEF Payout!Next, Payout!Credit
  <2> QED BY <2>5, <2>6
<1>4. ASSUME NEW i \in Instances, RefundSingleParticipant(i) PROVE Goal
  <2>1. PICK u \in Users : worker[i].ranking = <<u>>
    BY <1>4 DEF RefundSingleParticipant, Typed, WorkersTyped
  <2>2. Head(worker[i].ranking) = u
    BY <2>1
  <2>3. u \notin refunded /\ refunded' = refunded \union {u} /\ UNCHANGED <<allocs, ledger>>
    BY <1>4, <2>2 DEF RefundSingleParticipant
  <2> QED BY <2>3 DEF Payout!Next, Payout!Refund
<1>5. ASSUME NEW i \in Instances, Progress(i) PROVE Goal
  <2>1. CASE CalculateRankings(i) \/ CreditPrize(i) \/ RefundSingleParticipant(i)
    BY <1>2, <1>3, <1>4, <2>1
  <2>2. CASE ~(CalculateRankings(i) \/ CreditPrize(i) \/ RefundSingleParticipant(i))
    <3>1. Quiet
      BY <1>5, <2>2 DEF Progress, AcquireLock, LockBusy, GetSettlementRecord, StartEmpty,
           StartSingle, StartMany, CompleteRefund, CancelContest, MarkSettling, CloseAllPositions,
           WriteRankings, PrizesDistributed, UpdateTraggePoints, CompleteFinalization, AttemptFails
    <3> QED BY <1>1, <3>1
  <2> QED BY <2>1, <2>2
<1>6. ASSUME NEW i \in Instances, Trigger(i) \/ Detector(i) \/ Fault(i) PROVE Goal
  <2>1. Quiet
    BY <1>6 DEF Trigger, Detector, DetectStuck, ResetStuck, DetectOrphan, Fault, CreditFails,
         AttemptFails, Timeout, LoseLockConnection, Crash
  <2> QED BY <1>1, <2>1
<1>7. ASSUME NEW u \in Users, EngineCloses(u) \/ Disqualify(u) PROVE Goal
  <2>1. Quiet
    BY <1>7 DEF EngineCloses, Disqualify
  <2> QED BY <1>1, <2>1
<1>8. ASSUME Projection \/ ProjectionFails \/ GoStale \/ FailExhausted \/ RetireConnection
             \/ UNCHANGED vars
      PROVE  Goal
  <2>1. Quiet
    BY <1>8 DEF Projection, PrepareFinalRankings, PreviewPayouts, WriteProjection,
         CompleteProjection, ProjectionFails, GoStale, FailExhausted, RetireConnection, vars
  <2> QED BY <1>1, <2>1
<1> HIDE DEF Goal
<1>9. Goal
  BY <1>5, <1>6, <1>7, <1>8 DEF Next
<1> QED BY <1>9 DEF Goal

\* The refinement: whatever the settlement service, the stuck detector, faults and
\* other writers do, the prize ledger credits a user at most once for a rank and
\* only from calculated prizes, refunds a fee at most once, and never takes an
\* entry back.
THEOREM PayoutImplemented == Spec => ImplementsPayout
<1>1. Init => Payout!Init
  BY DEF Init, Payout!Init
<1>2. Typed /\ LedgerInv /\ [Next]_vars => [Payout!Next]_(Payout!vars)
  BY PayoutStep
<1> QED BY LedgerAlways, <1>1, <1>2, PTL DEF Spec, ImplementsPayout, Payout!Spec

-----------------------------------------------------------------------------
(* Deposits. *)

\* Only a finished payment maps to succeeded.
LEMMA MapStatusFacts ==
    ASSUME NEW s \in ProviderStates
    PROVE  /\ MapStatus(s) \in IntentStatuses
           /\ MapStatus(s) = "succeeded" <=> s \in Finished
BY DEF MapStatus, Finished, ProviderStates, ProviderTerminal, IntentStatuses, IntentTerminal

\* Writing one status keeps the table's type.
LEMMA SetStatusType ==
    ASSUME PayTypeOK, NEW i \in Intents, NEW s \in IntentStatuses, SetStatus(i, s)
    PROVE  /\ intent' \in [Intents -> [status : IntentStatuses, provId : BOOLEAN, old : BOOLEAN]]
           /\ intent'[i].status = s
           /\ \A j \in Intents \ {i} : intent'[j] = intent[j]
BY DEF PayTypeOK, SetStatus

\* PostConfirmedDeposit leaves exactly one posting for its intent.
LEMMA PostDepositType ==
    ASSUME PayTypeOK, NEW i \in Intents, PostDeposit(i)
    PROVE  /\ posted' \in [Intents -> Nat]
           /\ posted'[i] = 1
           /\ \A j \in Intents \ {i} : posted'[j] = posted[j]
BY DEF PayTypeOK, PostDeposit

\* A webhook or a callback that reports what the provider has decided keeps
\* intents and postings together.
LEMMA ApplyWebhookSafe ==
    ASSUME DepositsBacked, NEW i \in Intents, NEW s \in ProviderStates,
           s \in Finished => provider[i] = s,
           ApplyWebhook(i, s), UNCHANGED provider
    PROVE  /\ intent' \in [Intents -> [status : IntentStatuses, provId : BOOLEAN, old : BOOLEAN]]
           /\ posted' \in [Intents -> Nat]
           /\ CreditedOnce' /\ SucceededCredited'
<1> USE DEF DepositsBacked
<1>1. CASE intent[i].status \in IntentTerminal
  BY <1>1 DEF ApplyWebhook, PayTypeOK, CreditedOnce, SucceededCredited
<1>2. CASE intent[i].status \notin IntentTerminal /\ s = "finished"
  <2>1. PostDeposit(i) /\ SetStatus(i, "succeeded") /\ s \in Finished
    BY <1>2 DEF ApplyWebhook, Finished
  <2>2. "succeeded" \in IntentStatuses
    BY DEF IntentStatuses, IntentTerminal
  <2> QED
    BY <2>1, <2>2, SetStatusType, PostDepositType DEF CreditedOnce, SucceededCredited
<1>3. CASE intent[i].status \notin IntentTerminal /\ s # "finished"
  <2> DEFINE t == IF s = "short" THEN "failed" ELSE MapStatus(s)
  <2>1. SetStatus(i, t) /\ UNCHANGED <<posted, balance>>
    BY <1>3 DEF ApplyWebhook
  <2>2. t \in IntentStatuses /\ t # "succeeded"
    BY <1>3, MapStatusFacts DEF Finished, IntentStatuses, IntentTerminal
  <2> HIDE DEF t
  <2> QED
    BY <2>1, <2>2, SetStatusType DEF CreditedOnce, SucceededCredited, PayTypeOK
<1> QED BY <1>1, <1>2, <1>3

\* The steps that create a deposit, and those of the provider.
LEMMA CreateStepsSafe ==
    ASSUME DepositsBacked, NEW i \in Intents,
           \/ CreateDeposit(i) \/ ProviderOpens(i) \/ CreatePaymentReturns(i)
           \/ CreatePaymentFails(i) \/ CreateCrashes(i) \/ CleanupOrphan(i) \/ Age(i)
    PROVE  DepositsBacked'
<1> USE DEF DepositsBacked, PayTypeOK, ReportsTrue, CreditedOnce, SucceededCredited,
            payoutVars, IntentStatuses, IntentTerminal
<1>1. CASE CreateDeposit(i)
  BY <1>1 DEF CreateDeposit
<1>2. CASE ProviderOpens(i)
  BY <1>2 DEF ProviderOpens, ProviderStates, ProviderTerminal, Finished
<1>3. CASE CreatePaymentReturns(i)
  BY <1>3 DEF CreatePaymentReturns
<1>4. CASE CreatePaymentFails(i)
  BY <1>4 DEF CreatePaymentFails
<1>5. CASE CreateCrashes(i)
  BY <1>5 DEF CreateCrashes
<1>6. CASE CleanupOrphan(i)
  BY <1>6 DEF CleanupOrphan, SetStatus
<1>7. CASE Age(i)
  BY <1>7 DEF Age
<1> QED BY <1>1, <1>2, <1>3, <1>4, <1>5, <1>6, <1>7

\* A payment the provider has finished moves no more, so what was reported of
\* it stays true; and each announcement says what the provider then says.
LEMMA ProviderMovesSafe ==
    ASSUME DepositsBacked, NEW i \in Intents, ProviderMoves(i)
    PROVE  DepositsBacked'
<1> USE DEF DepositsBacked, PayTypeOK
<1>1. PICK s \in ProviderTerminal \union {"confirming"} :
        /\ provider' = [provider EXCEPT ![i] = s]
        /\ inbox' = inbox \union {[intent |-> i, status |-> s]}
  BY DEF ProviderMoves
<1>2. s \in ProviderStates /\ provider[i] \notin Finished
  BY DEF ProviderMoves, ProviderStates, ProviderTerminal, Finished
<1>3. UNCHANGED <<intent, creating, linked, replay, answers, posted, payoutVars, balance>>
  BY DEF ProviderMoves
<1>4. PayTypeOK'
  BY <1>1, <1>2, <1>3 DEF payoutVars
<1>5. ReportsTrue'
  <2>1. \A e \in inbox' : e.status \in Finished => provider'[e.intent] = e.status
    BY <1>1, <1>2 DEF ReportsTrue
  <2>2. \A a \in answers' : a.status \in Finished => provider'[a.intent] = a.status
    BY <1>1, <1>2, <1>3 DEF ReportsTrue
  <2> QED BY <2>1, <2>2, <1>3 DEF ReportsTrue
<1>6. CreditedOnce' /\ SucceededCredited'
  BY <1>1, <1>2, <1>3 DEF CreditedOnce, SucceededCredited
<1> QED BY <1>4, <1>5, <1>6

\* What is read from the provider is the provider's status, or not terminal.
LEMMA AnswerTrue ==
    ASSUME PayTypeOK, NEW i \in Intents
    PROVE  /\ GetPaymentStatus(i) \in ProviderStates
           /\ GetPaymentStatus(i) \in Finished => provider[i] = GetPaymentStatus(i)
BY DEF GetPaymentStatus, PayTypeOK, ProviderStates, ProviderTerminal, Finished

\* Holding another answer keeps the reports true.
LEMMA AskSafe ==
    ASSUME DepositsBacked, NEW i \in Intents, NEW by \in {"poll", "expiry", "inquiry"},
           Ask(by, i),
           by = "poll" => MapStatus(GetPaymentStatus(i)) \notin IntentTerminal
    PROVE  DepositsBacked'
<1> USE DEF DepositsBacked
<1>1. answers' = answers \union {Answer(by, i)}
      /\ UNCHANGED <<intent, provider, creating, linked, inbox, replay, posted, payoutVars, balance>>
  BY DEF Ask
<1>2. /\ Answer(by, i) \in [by : {"poll", "expiry", "inquiry"}, intent : Intents,
                            status : ProviderStates]
      /\ Answer(by, i).status = GetPaymentStatus(i)
      /\ Answer(by, i).intent = i /\ Answer(by, i).by = by
  BY AnswerTrue DEF Answer
<1>3. PayTypeOK'
  BY <1>1, <1>2 DEF PayTypeOK, payoutVars
<1>4. ReportsTrue'
  BY <1>1, <1>2, AnswerTrue DEF ReportsTrue
<1>5. CreditedOnce' /\ SucceededCredited'
  BY <1>1 DEF CreditedOnce, SucceededCredited
<1> QED BY <1>3, <1>4, <1>5

\* Webhooks and Jibit callbacks, the lost and the repeated ones too.
LEMMA WebhookSafe ==
    ASSUME DepositsBacked, NEW e \in inbox \union replay, Webhook(e)
    PROVE  DepositsBacked'
<1> USE DEF DepositsBacked
<1>0. e \in [intent : Intents, status : ProviderStates]
  BY DEF PayTypeOK
<1>1. CASE HandleWebhook(e)
  <2>1. /\ e \in inbox /\ ApplyWebhook(e.intent, e.status) /\ UNCHANGED provider
        /\ replay' = replay \union {e} /\ inbox' \in {inbox, inbox \ {e}}
        /\ UNCHANGED <<creating, linked, answers, payoutVars>>
    BY <1>1 DEF HandleWebhook
  <2>2. e.intent \in Intents /\ e.status \in ProviderStates
        /\ (e.status \in Finished => provider[e.intent] = e.status)
    BY <1>0, <2>1 DEF ReportsTrue
  <2>3. /\ intent' \in [Intents -> [status : IntentStatuses, provId : BOOLEAN, old : BOOLEAN]]
        /\ posted' \in [Intents -> Nat]
        /\ CreditedOnce' /\ SucceededCredited'
    BY <2>1, <2>2, ApplyWebhookSafe
  <2>4. PayTypeOK'
    BY <1>0, <2>1, <2>3 DEF PayTypeOK, payoutVars
  <2>5. ReportsTrue'
    BY <2>1 DEF ReportsTrue
  <2> QED BY <2>3, <2>4, <2>5
<1>2. CASE WebhookFails(e) \/ WebhookLost(e) \/ ReplayExpires(e)
  BY <1>0, <1>2 DEF WebhookFails, WebhookLost, ReplayExpires, PayTypeOK, ReportsTrue, CreditedOnce,
                    SucceededCredited, payoutVars
<1> QED BY <1>1, <1>2 DEF Webhook

\* The callback page applies what the provider says now, as a webhook would.
LEMMA JibitCallbackSafe ==
    ASSUME DepositsBacked, NEW i \in Intents, JibitCallback(i)
    PROVE  DepositsBacked'
<1> USE DEF DepositsBacked
<1>1. ApplyWebhook(i, provider[i]) /\ provider[i] \in ProviderStates
      /\ UNCHANGED <<provider, creating, linked, inbox, replay, answers, payoutVars>>
  BY DEF JibitCallback, PayTypeOK
<1>2. /\ intent' \in [Intents -> [status : IntentStatuses, provId : BOOLEAN, old : BOOLEAN]]
      /\ posted' \in [Intents -> Nat]
      /\ CreditedOnce' /\ SucceededCredited'
  BY <1>1, ApplyWebhookSafe
<1>3. PayTypeOK' /\ ReportsTrue'
  BY <1>1, <1>2 DEF PayTypeOK, ReportsTrue, payoutVars
<1> QED BY <1>2, <1>3

\* A poll overwrites the status blindly, but never with a terminal one.
LEMMA PollWritesSafe ==
    ASSUME DepositsBacked, NEW a \in answers, PollWrites(a)
    PROVE  DepositsBacked'
<1> USE DEF DepositsBacked
<1> DEFINE s == MapStatus(a.status)
<1>1. a.intent \in Intents /\ a.status \in ProviderStates
  BY DEF PayTypeOK
<1>2. /\ a.by = "poll" /\ answers' = answers \ {a} /\ SetStatus(a.intent, s)
      /\ UNCHANGED <<provider, creating, linked, inbox, replay, posted, payoutVars, balance>>
  BY DEF PollWrites
<1>3. s \in IntentStatuses /\ s # "succeeded"
  BY <1>1, <1>2, MapStatusFacts DEF ReportsTrue, IntentTerminal
<1> HIDE DEF s
<1>4. PayTypeOK' /\ SucceededCredited'
  BY <1>1, <1>2, <1>3, SetStatusType DEF PayTypeOK, SucceededCredited, payoutVars
<1>5. ReportsTrue' /\ CreditedOnce'
  BY <1>2 DEF ReportsTrue, CreditedOnce
<1> QED BY <1>4, <1>5

\* The expiry worker and the inquiry write under the lock what was answered.
LEMMA WorkerWritesSafe ==
    ASSUME DepositsBacked, NEW a \in answers, WorkerWrites(a)
    PROVE  DepositsBacked'
<1> USE DEF DepositsBacked
<1> DEFINE s == MapStatus(a.status)
           i == a.intent
<1>1. i \in Intents /\ a.status \in ProviderStates
      /\ (a.status \in Finished => provider[i] = a.status)
  BY DEF PayTypeOK, ReportsTrue
<1>2. /\ answers' = answers \ {a}
      /\ UNCHANGED <<provider, creating, linked, inbox, replay, payoutVars>>
  BY DEF WorkerWrites
<1>3. s \in IntentStatuses /\ (s = "succeeded" <=> a.status \in Finished)
  BY <1>1, MapStatusFacts
<1>4. ReportsTrue'
  BY <1>2 DEF ReportsTrue
<1>5. CASE intent[i].status \in IntentTerminal
  <2>1. UNCHANGED <<intent, posted, balance>>
    BY <1>5 DEF WorkerWrites
  <2> QED BY <1>2, <1>4, <2>1 DEF PayTypeOK, CreditedOnce, SucceededCredited, payoutVars
<1>6. CASE intent[i].status \notin IntentTerminal /\ a.status \in Finished
  <2>1. SetStatus(i, s) /\ PostDeposit(i)
    BY <1>6 DEF WorkerWrites
  <2> HIDE DEF s, i
  <2>2. PayTypeOK'
    BY <1>1, <1>2, <1>3, <2>1, SetStatusType, PostDepositType DEF PayTypeOK, payoutVars
  <2>3. CreditedOnce' /\ SucceededCredited'
    BY <1>1, <1>2, <1>3, <1>6, <2>1, SetStatusType, PostDepositType
       DEF CreditedOnce, SucceededCredited
  <2> QED BY <1>4, <2>2, <2>3
<1>7. CASE intent[i].status \notin IntentTerminal /\ a.status \notin Finished
  <2>1. SetStatus(i, s) /\ UNCHANGED <<posted, balance>>
    BY <1>7 DEF WorkerWrites
  <2> HIDE DEF s, i
  <2>2. PayTypeOK'
    BY <1>1, <1>2, <1>3, <2>1, SetStatusType DEF PayTypeOK, payoutVars
  <2>3. CreditedOnce' /\ SucceededCredited'
    BY <1>1, <1>2, <1>3, <1>7, <2>1, SetStatusType DEF CreditedOnce, SucceededCredited
  <2> QED BY <1>4, <2>2, <2>3
<1> QED BY <1>5, <1>6, <1>7

-----------------------------------------------------------------------------
(* Withdrawals. *)

\* A withdrawal touches no deposit, and changes at most its own payout.
LEMMA WithdrawalTypes ==
    ASSUME DepositsBacked, NEW r \in Requests, Withdrawal(r)
    PROVE  DepositsBacked'
<1> USE DEF DepositsBacked, PayTypeOK, ReportsTrue, CreditedOnce, SucceededCredited,
            depositVars, Held
<1>1. CASE CheckLimits(r)
  BY <1>1 DEF CheckLimits
<1>2. CASE CreateWithdraw(r)
  BY <1>2 DEF CreateWithdraw
<1>3. CASE ApproveWithdrawal(r) \/ CompleteWithdrawal(r)
  BY <1>3 DEF ApproveWithdrawal, CompleteWithdrawal
<1>4. CASE RejectWithdrawal(r)
  BY <1>4 DEF RejectWithdrawal, Return
<1>5. CASE FailWithdrawal(r)
  BY <1>5 DEF FailWithdrawal, Return
<1>6. CASE FindStuckPayout(r)
  BY <1>6 DEF FindStuckPayout
<1>7. CASE RollbackStuckPayout(r)
  BY <1>7 DEF RollbackStuckPayout, Return
<1> QED BY <1>1, <1>2, <1>3, <1>4, <1>5, <1>6, <1>7 DEF Withdrawal

\* Every step keeps deposits backed.
LEMMA DepositStep == DepositsBacked /\ [PayNext]_payVars => DepositsBacked'
<1> SUFFICES ASSUME DepositsBacked, [PayNext]_payVars PROVE DepositsBacked'
  OBVIOUS
<1>1. ASSUME NEW i \in Intents, Deposit(i) \/ Age(i) \/ ExpiryAsks(i)
      PROVE  DepositsBacked'
  <2>1. CASE PollAsks(i)
    BY <2>1, AskSafe DEF PollAsks
  <2>2. CASE InquiryAsks(i)
    BY <2>2, AskSafe DEF InquiryAsks
  <2>3. CASE ExpiryAsks(i)
    BY <2>3, AskSafe DEF ExpiryAsks
  <2> QED
    BY <1>1, <2>1, <2>2, <2>3, CreateStepsSafe, ProviderMovesSafe, JibitCallbackSafe DEF Deposit
<1>2. ASSUME NEW e \in inbox \union replay, Webhook(e) PROVE DepositsBacked'
  BY <1>2, WebhookSafe
<1>3. ASSUME NEW a \in answers, PollWrites(a) \/ WorkerWrites(a) PROVE DepositsBacked'
  BY <1>3, PollWritesSafe, WorkerWritesSafe
<1>4. ASSUME NEW r \in Requests, Withdrawal(r) PROVE DepositsBacked'
  BY <1>4, WithdrawalTypes
<1>5. CASE ChargeUserWallet
  BY <1>5 DEF ChargeUserWallet, DepositsBacked, PayTypeOK, ReportsTrue, CreditedOnce,
              SucceededCredited, depositVars
<1>6. CASE UNCHANGED payVars
  BY <1>6 DEF payVars, depositVars, payoutVars, DepositsBacked, PayTypeOK, ReportsTrue,
              CreditedOnce, SucceededCredited
<1> QED BY <1>1, <1>2, <1>3, <1>4, <1>5, <1>6 DEF PayNext

\* No payment exists at first.
LEMMA DepositInit == PayInit => DepositsBacked
BY DEF PayInit, DepositsBacked, PayTypeOK, ReportsTrue, CreditedOnce, SucceededCredited,
       IntentStatuses, ProviderStates

\* An intent is credited at most once, only for a payment its provider finished,
\* and is shown as succeeded only if it was: webhooks, callbacks, polls, the
\* inquiry and the expiry worker may overlap in any way.
THEOREM DepositsAreBacked == PaySpec => []DepositsBacked
BY DepositInit, DepositStep, PTL DEF PaySpec

-----------------------------------------------------------------------------
(* One key, one debit. *)

\* A payout leaves "none" only where CreateWithdraw looked the key up.
LEMMA PayoutAppears ==
    ASSUME PayTypeOK, [PayNext]_payVars
    PROVE  \/ \A q \in Requests : payout'[q] # "none" => payout[q] # "none"
           \/ \E r \in Requests :
                /\ payout' = [payout EXCEPT ![r] = "pending"]
                /\ \A q \in Requests : payout[q] # "none" => Key(q) # Key(r)
<1> USE DEF PayTypeOK, payVars, depositVars, payoutVars
<1>1. ASSUME NEW r \in Requests, CreateWithdraw(r)
      PROVE  \/ payout' = payout
             \/ /\ payout' = [payout EXCEPT ![r] = "pending"]
                /\ \A q \in Requests : payout[q] # "none" => Key(q) # Key(r)
  BY <1>1 DEF CreateWithdraw
<1>2. ASSUME NEW r \in Requests,
             ApproveWithdrawal(r) \/ RejectWithdrawal(r) \/ CompleteWithdrawal(r)
               \/ FailWithdrawal(r) \/ RollbackStuckPayout(r)
      PROVE  \A q \in Requests : payout'[q] # "none" => payout[q] # "none"
  BY <1>2 DEF ApproveWithdrawal, RejectWithdrawal, CompleteWithdrawal, FailWithdrawal,
              RollbackStuckPayout, Held
<1>3. ASSUME NEW r \in Requests, CheckLimits(r) \/ FindStuckPayout(r)
      PROVE  payout' = payout
  BY <1>3 DEF CheckLimits, FindStuckPayout
<1>4. ASSUME NEW i \in Intents, Deposit(i) \/ Age(i) \/ ExpiryAsks(i)
      PROVE  payout' = payout
  BY <1>4 DEF Deposit, Age, ExpiryAsks, Ask, CreateDeposit, ProviderOpens, CreatePaymentReturns,
              CreatePaymentFails, CreateCrashes, ProviderMoves, JibitCallback, PollAsks,
              InquiryAsks, CleanupOrphan
<1>5. ASSUME NEW e \in inbox \union replay, Webhook(e) PROVE payout' = payout
  BY <1>5 DEF Webhook, HandleWebhook, WebhookFails, WebhookLost, ReplayExpires
<1>6. ASSUME NEW a \in answers, PollWrites(a) \/ WorkerWrites(a) PROVE payout' = payout
  BY <1>6 DEF PollWrites, WorkerWrites
<1>7. CASE ChargeUserWallet \/ UNCHANGED payVars
  BY <1>7 DEF ChargeUserWallet
<1> QED
  BY <1>1, <1>2, <1>3, <1>4, <1>5, <1>6, <1>7, Zenon DEF PayNext, Withdrawal

\* A second payout under a key is refused by the look-up of the first, which no
\* step deletes.
LEMMA KeyStep == PayTypeOK /\ KeyDebitsOnce /\ [PayNext]_payVars => KeyDebitsOnce'
<1> SUFFICES ASSUME PayTypeOK, KeyDebitsOnce, [PayNext]_payVars PROVE KeyDebitsOnce'
  OBVIOUS
<1>1. CASE \A q \in Requests : payout'[q] # "none" => payout[q] # "none"
  BY <1>1 DEF KeyDebitsOnce
<1>2. ASSUME NEW r \in Requests,
             payout' = [payout EXCEPT ![r] = "pending"],
             \A q \in Requests : payout[q] # "none" => Key(q) # Key(r)
      PROVE  KeyDebitsOnce'
  BY <1>2 DEF KeyDebitsOnce, PayTypeOK
<1> QED BY <1>1, <1>2, PayoutAppears

\* Two requests under one Idempotency-Key never both debit the wallet.
THEOREM OneDebitPerKey == PaySpec => []KeyDebitsOnce
<1>1. PayInit => KeyDebitsOnce
  BY DEF PayInit, KeyDebitsOnce
<1>2. DepositsBacked => PayTypeOK
  BY DEF DepositsBacked
<1> QED BY <1>1, <1>2, KeyStep, DepositsAreBacked, PTL DEF PaySpec

-----------------------------------------------------------------------------
(* The balance. *)

\* What is counted is finite, because intents and requests are.
LEMMA Sizes ==
    /\ IsFiniteSet(Credits) /\ Cardinality(Credits) \in Nat
    /\ IsFiniteSet(Kept) /\ Cardinality(Kept) \in Nat
<1>1. Credits \subseteq Intents /\ Kept \subseteq Requests
  BY DEF Credits, Kept
<1> QED BY <1>1, PaymentAssumption, FS_Subset, FS_CardinalityType

\* One more, or one less, of equal amounts.
LEMMA OneMore ==
    ASSUME NEW a \in Nat, NEW k \in Nat
    PROVE  a * (k + 1) = a * k + a
OBVIOUS

\* A posting adds its amount and its intent, or neither.
LEMMA PostDepositFunds ==
    ASSUME DepositsBacked, FundsAccounted, NEW i \in Intents, PostDeposit(i),
           UNCHANGED <<payout, refunds, charges>>
    PROVE  FundsAccounted'
<1> USE DEF DepositsBacked, PayTypeOK
<1>1. Kept' = Kept /\ ReturnedEnded'
  BY DEF Kept, FundsAccounted, ReturnedEnded
<1>2. Amount \in Nat /\ Withdrawn + Fee \in Nat /\ Charged \in Nat
  BY PaymentAssumption
<1>3. CASE posted[i] = 0
  <2>1. Credits' = Credits \union {i} /\ i \notin Credits /\ balance' = balance + Amount
    BY <1>3 DEF PostDeposit, Credits
  <2>2. Cardinality(Credits') = Cardinality(Credits) + 1
    BY <2>1, Sizes, FS_AddElement
  <2>3. Amount * Cardinality(Credits') = Amount * Cardinality(Credits) + Amount
    BY <1>2, <2>2, Sizes, OneMore
  <2>4. /\ Amount * Cardinality(Credits) \in Nat /\ Charged * charges \in Nat
        /\ (Withdrawn + Fee) * Cardinality(Kept) \in Nat
    BY <1>2, Sizes
  <2> QED BY <1>1, <1>2, <2>1, <2>3, <2>4 DEF FundsAccounted
<1>4. CASE posted[i] # 0
  <2>1. Credits' = Credits /\ balance' = balance
    BY <1>4 DEF PostDeposit, Credits
  <2> QED BY <1>1, <2>1 DEF FundsAccounted
<1> QED BY <1>3, <1>4

\* What changes neither balance, postings nor payouts keeps the account.
LEMMA QuietFunds ==
    ASSUME FundsAccounted, UNCHANGED <<posted, balance, payout, refunds, charges>>
    PROVE  FundsAccounted'
BY DEF FundsAccounted, ReturnedEnded, Credits, Kept

\* A request debits amount and fee, and its payout is then held.
LEMMA CreateWithdrawFunds ==
    ASSUME DepositsBacked, FundsAccounted, NEW r \in Requests, CreateWithdraw(r)
    PROVE  FundsAccounted'
<1> USE DEF DepositsBacked, PayTypeOK
<1>1. UNCHANGED <<posted, refunds, charges>>
  BY DEF CreateWithdraw, depositVars
<1>2. CASE UNCHANGED <<payout, balance>>
  BY <1>1, <1>2, QuietFunds
<1>3. CASE /\ balance >= Withdrawn + Fee /\ balance' = balance - Withdrawn - Fee
           /\ payout' = [payout EXCEPT ![r] = "pending"] /\ payout[r] = "none"
  <2>1. Kept' = Kept \union {r} /\ r \notin Kept /\ Credits' = Credits
    BY <1>1, <1>3 DEF Kept, Held, Credits
  <2>2. Cardinality(Kept') = Cardinality(Kept) + 1
    BY <2>1, Sizes, FS_AddElement
  <2> DEFINE w == Withdrawn + Fee
  <2>3. Amount \in Nat /\ Withdrawn \in Nat /\ Fee \in Nat /\ w \in Nat /\ Charged \in Nat
    BY PaymentAssumption
  <2>4. w * Cardinality(Kept') = w * Cardinality(Kept) + w
    BY <2>2, <2>3, Sizes, OneMore
  <2>5. /\ Amount * Cardinality(Credits) \in Nat /\ Charged * charges \in Nat
        /\ w * Cardinality(Kept) \in Nat
    BY <2>3, Sizes
  <2>6. ReturnedEnded'
    BY <1>1, <1>3 DEF ReturnedEnded, FundsAccounted
  <2>7. balance' \in Nat
    BY <1>3, <2>3 DEF FundsAccounted
  <2>8. balance' = Amount * Cardinality(Credits') + Charged * charges' - w * Cardinality(Kept')
    BY <1>1, <1>3, <2>1, <2>3, <2>4, <2>5 DEF FundsAccounted
  <2> QED BY <2>6, <2>7, <2>8 DEF FundsAccounted
<1> QED
  <2>1. (balance < Withdrawn + Fee) \/ (balance >= Withdrawn + Fee)
    BY PaymentAssumption DEF FundsAccounted
  <2>2. (\E q \in Requests : payout[q] # "none" /\ Key(q) = Key(r)) \/ payout[r] = "none"
    OBVIOUS
  <2> QED BY <1>2, <1>3, <2>1, <2>2 DEF CreateWithdraw

\* A withdrawal that ends unpaid is no longer kept, and returns amount and fee:
\* a held one has no entry in the refund ledger yet.
LEMMA ReturnFunds ==
    ASSUME DepositsBacked, FundsAccounted, NEW r \in Requests, NEW kind \in {"refund", "rollback"},
           NEW st \in {"rejected", "failed"}, st = "rejected" => kind = "refund",
           payout[r] \in Held, payout' = [payout EXCEPT ![r] = st], Return(r, kind),
           UNCHANGED <<posted, charges>>
    PROVE  FundsAccounted'
<1> USE DEF DepositsBacked, PayTypeOK
<1> DEFINE entry == [request |-> r, kind |-> kind]
           w == Withdrawn + Fee
<1>1. entry \notin refunds
  BY DEF FundsAccounted, ReturnedEnded, Held
<1>2. refunds' = refunds \union {entry} /\ balance' = balance + Withdrawn + Fee
  BY <1>1 DEF Return
<1>3. Kept' = Kept \ {r} /\ r \in Kept /\ Credits' = Credits
  BY DEF Kept, Held, Credits
<1>4. Cardinality(Kept) = Cardinality(Kept') + 1 /\ Cardinality(Kept') \in Nat
  <2>1. /\ IsFiniteSet(Kept \ {r})
        /\ Cardinality(Kept \ {r}) = Cardinality(Kept) - 1
    BY <1>3, Sizes, FS_RemoveElement
  <2>2. Cardinality(Kept \ {r}) \in Nat
    BY <2>1, FS_CardinalityType
  <2> QED BY <1>3, <2>1, <2>2, Sizes
<1>5. Amount \in Nat /\ Withdrawn \in Nat /\ Fee \in Nat /\ w \in Nat /\ Charged \in Nat
  BY PaymentAssumption
<1>6. w * Cardinality(Kept) = w * Cardinality(Kept') + w
  BY <1>4, <1>5, OneMore
<1>7. ReturnedEnded'
  <2>1. \A e \in refunds : e.request # r
    BY DEF FundsAccounted, ReturnedEnded, Held
  <2> QED BY <1>2, <2>1 DEF ReturnedEnded, FundsAccounted
<1>8. /\ Amount * Cardinality(Credits) \in Nat /\ Charged * charges \in Nat
      /\ w * Cardinality(Kept') \in Nat
  BY <1>4, <1>5, Sizes
<1>9. balance' \in Nat
  BY <1>2, <1>5 DEF FundsAccounted
<1>10. balance' = Amount * Cardinality(Credits') + Charged * charges' - w * Cardinality(Kept')
  <2>1. balance = Amount * Cardinality(Credits) + Charged * charges - w * Cardinality(Kept)
    BY DEF FundsAccounted
  <2> HIDE DEF w
  <2>2. balance' = balance + w
    BY <1>2, <1>5, <1>9 DEF w, FundsAccounted
  <2> QED BY <1>3, <1>5, <1>6, <1>8, <2>1, <2>2
<1> QED BY <1>7, <1>9, <1>10 DEF FundsAccounted

\* The admin's charge, and the steps of a payout that return nothing.
LEMMA ChargeFunds ==
    ASSUME DepositsBacked, FundsAccounted, ChargeUserWallet
    PROVE  FundsAccounted'
<1> USE DEF DepositsBacked, PayTypeOK
<1>1. /\ charges' = charges + 1 /\ balance' = balance + Charged
      /\ Credits' = Credits /\ Kept' = Kept /\ ReturnedEnded'
  BY DEF ChargeUserWallet, depositVars, Credits, Kept, ReturnedEnded, FundsAccounted
<1>2. Amount \in Nat /\ Withdrawn + Fee \in Nat /\ Charged \in Nat
  BY PaymentAssumption
<1>3. Charged * charges' = Charged * charges + Charged
  BY <1>1, <1>2, OneMore
<1>4. /\ Amount * Cardinality(Credits) \in Nat /\ Charged * charges \in Nat
      /\ (Withdrawn + Fee) * Cardinality(Kept) \in Nat
  BY <1>2, Sizes
<1> QED BY <1>1, <1>2, <1>3, <1>4 DEF FundsAccounted

\* Approval and completion move no money.
LEMMA ReviewFunds ==
    ASSUME DepositsBacked, FundsAccounted, NEW r \in Requests,
           ApproveWithdrawal(r) \/ CompleteWithdrawal(r)
    PROVE  FundsAccounted'
<1> USE DEF DepositsBacked, PayTypeOK
<1>1. UNCHANGED <<posted, balance, refunds, charges>>
  BY DEF ApproveWithdrawal, CompleteWithdrawal, depositVars
<1>2. Kept' = Kept /\ Credits' = Credits
  BY <1>1 DEF ApproveWithdrawal, CompleteWithdrawal, Kept, Held, Credits
<1>3. ReturnedEnded'
  BY <1>1 DEF ApproveWithdrawal, CompleteWithdrawal, ReturnedEnded, FundsAccounted
<1> QED BY <1>1, <1>2, <1>3 DEF FundsAccounted

\* Every operation of a withdrawal keeps the balance explained.
LEMMA WithdrawalFunds ==
    ASSUME DepositsBacked, FundsAccounted, NEW r \in Requests, Withdrawal(r)
    PROVE  FundsAccounted'
<1>1. CASE CheckLimits(r) \/ FindStuckPayout(r)
  BY <1>1, QuietFunds DEF CheckLimits, FindStuckPayout, depositVars
<1>2. CASE RejectWithdrawal(r)
  BY <1>2, ReturnFunds DEF RejectWithdrawal, depositVars
<1>3. CASE FailWithdrawal(r)
  BY <1>3, ReturnFunds DEF FailWithdrawal, depositVars, Held
<1>4. CASE RollbackStuckPayout(r)
  <2>1. CASE payout[r] # "pending"
    BY <1>4, <2>1, QuietFunds DEF RollbackStuckPayout, depositVars
  <2>2. CASE payout[r] = "pending"
    BY <1>4, <2>2, ReturnFunds DEF RollbackStuckPayout, depositVars, Held
  <2> QED BY <2>1, <2>2
<1> QED
  BY <1>1, <1>2, <1>3, <1>4, CreateWithdrawFunds, ReviewFunds DEF Withdrawal

\* Deposits meet the balance only through PostDeposit.
LEMMA ApplyWebhookFunds ==
    ASSUME DepositsBacked, FundsAccounted, NEW i \in Intents, NEW s, ApplyWebhook(i, s),
           UNCHANGED <<payout, refunds, charges>>
    PROVE  FundsAccounted'
BY PostDepositFunds, QuietFunds DEF ApplyWebhook

\* Every step of the payment service does.
LEMMA FundsStep ==
    DepositsBacked /\ FundsAccounted /\ [PayNext]_payVars => FundsAccounted'
<1> SUFFICES ASSUME DepositsBacked, FundsAccounted, [PayNext]_payVars PROVE FundsAccounted'
  OBVIOUS
<1>1. ASSUME NEW i \in Intents, Deposit(i) \/ Age(i) \/ ExpiryAsks(i)
      PROVE  FundsAccounted'
  <2>1. CASE JibitCallback(i)
    BY <2>1, ApplyWebhookFunds DEF JibitCallback, payoutVars
  <2>2. CASE ~JibitCallback(i)
    <3>1. UNCHANGED <<posted, balance, payout, refunds, charges>>
      BY <1>1, <2>2 DEF Deposit, Age, ExpiryAsks, Ask, CreateDeposit, ProviderOpens,
              CreatePaymentReturns, CreatePaymentFails, CreateCrashes, ProviderMoves, PollAsks,
              InquiryAsks, CleanupOrphan, payoutVars
    <3> QED BY <3>1, QuietFunds
  <2> QED BY <2>1, <2>2
<1>2. ASSUME NEW e \in inbox \union replay, Webhook(e) PROVE FundsAccounted'
  <2>1. e.intent \in Intents
    BY DEF DepositsBacked, PayTypeOK
  <2>2. CASE HandleWebhook(e)
    BY <2>1, <2>2, ApplyWebhookFunds DEF HandleWebhook, payoutVars
  <2>3. CASE WebhookFails(e) \/ WebhookLost(e) \/ ReplayExpires(e)
    BY <2>3, QuietFunds DEF WebhookFails, WebhookLost, ReplayExpires, payoutVars
  <2> QED BY <1>2, <2>2, <2>3 DEF Webhook
<1>3. ASSUME NEW a \in answers, PollWrites(a) \/ WorkerWrites(a) PROVE FundsAccounted'
  <2>1. a.intent \in Intents
    BY DEF DepositsBacked, PayTypeOK
  <2> QED
    BY <1>3, <2>1, PostDepositFunds, QuietFunds DEF PollWrites, WorkerWrites, payoutVars
<1>4. ASSUME NEW r \in Requests, Withdrawal(r) PROVE FundsAccounted'
  BY <1>4, WithdrawalFunds
<1>5. CASE UNCHANGED payVars
  BY <1>5, QuietFunds DEF payVars, depositVars, payoutVars
<1> QED BY <1>1, <1>2, <1>3, <1>4, <1>5, ChargeFunds DEF PayNext

\* At first there is nothing to explain.
LEMMA FundsInit == PayInit => FundsAccounted
<1> SUFFICES ASSUME PayInit PROVE FundsAccounted
  OBVIOUS
<1>1. Credits = {} /\ Kept = {} /\ refunds = {}
  BY DEF PayInit, Credits, Kept, Held
<1>2. Cardinality(Credits) = 0 /\ Cardinality(Kept) = 0
  BY <1>1, FS_EmptySet
<1> QED
  BY <1>1, <1>2, PaymentAssumption DEF PayInit, FundsAccounted, ReturnedEnded

\* The wallet is never negative and holds to the cent what was deposited and
\* charged, less the withdrawals that are held or paid: whatever admins, the
\* expiry worker and repeated requests do to a payout, it is debited once and
\* returned at most once.
THEOREM WalletIsExplained == PaySpec => []FundsAccounted
BY FundsInit, FundsStep, DepositsAreBacked, PTL DEF PaySpec

=============================================================================
