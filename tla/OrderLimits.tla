---------------------------- MODULE OrderLimits ----------------------------
(***************************************************************************)
(* apps/trading-engine/server/rate_limiter.go: every order passes a        *)
(* global bucket, a window of its contest and a bucket and a window of its *)
(* user, and an order one tier refuses gives back what the tiers before it *)
(* took.  Orders come from one goroutine (the consumer of the topic); the  *)
(* refresh of the contest rates, the clean-up of limiters nobody uses and  *)
(* the eviction of a finished contest run beside it and may take a limiter *)
(* away that an order is holding.                                          *)
(*                                                                         *)
(* A second has SecondTicks ticks.  Buckets count in tokens / SecondTicks, *)
(* so that a rate per second is what they gain per tick (the code counts   *)
(* thousandths of a token and milliseconds).                               *)
(***************************************************************************)
EXTENDS Integers, Sequences, FiniteSets, FiniteSetsExt

CONSTANTS OrderUsers,
          SecondTicks, MinuteTicks, StaleTicks, \* a second, a minute, five minutes
          GlobalPerSecond, UserPerSecond, UserPerMinute,
          ContestPerSecond,  \* the static rate of a contest
          ContestLimitBaseRate, ContestLimitMultiplier,
          MaxParticipants,   \* bound on the participants of the contest
          MaxOrderTime,      \* bound on the clock
          MaxOrdersSent      \* bound on the orders

ASSUME OrderLimitsAssumption ==
  /\ {SecondTicks, GlobalPerSecond, UserPerSecond, UserPerMinute} \subseteq Nat \ {0}
  /\ SecondTicks <= MinuteTicks /\ MinuteTicks <= StaleTicks

VARIABLES
  otime,      \* the clock
  global,     \* globalLimiter
  limiters,   \* contest limiters: two instances, of which one may be out of the map
  registered, \* the instance in contestLimiters, 0 for none
  userLimit,  \* userLimiters
  checking,   \* the order being checked: its step, its user, the limiters it holds
  rateRefresh,\* the instance a refresh has read, 0 for none
  sweep,      \* keys the clean-up has found stale and not deleted yet
  eviction,   \* RemoveContest: "no", "contest" (its limiter is gone), "done"
  sent,       \* orders sent so far
  allowedAt,  \* (history) when each order of a user that was allowed was
  early       \* (history) users who lost a limiter that was not stale

orderLimitVars == <<sent, otime, global, limiters, registered, userLimit, checking, rateRefresh,
                    sweep, eviction,
                    allowedAt, early>>

(* Token buckets and sliding windows. *)

NewTokenBucket(rate) == [tokens |-> rate * SecondTicks, last |-> otime]

Refill(b, rate) ==
  [tokens |-> Min({rate * SecondTicks, b.tokens + (otime - b.last) * rate}), last |-> otime]

HasToken(b) == b.tokens >= SecondTicks
SpendToken(b) == [b EXCEPT !.tokens = @ - SecondTicks]
Refund(b, rate) == [b EXCEPT !.tokens = Min({rate * SecondTicks, @ + SecondTicks})]

\* Field "real" is (history): orders of this window that passed every tier.
NewSlidingWindow == [current |-> 0, previous |-> 0, start |-> otime, real |-> 0]

Shift(w, size) ==
  LET passed == (otime - w.start) \div size
      empty == [NewSlidingWindow EXCEPT !.start = otime - (otime % size)]
  IN CASE passed >= 2 -> empty
       [] passed = 1 -> [empty EXCEPT !.previous = w.current, !.start = w.start + size]
       [] OTHER -> w

\* The weighted count is below the limit.
UnderLimit(w, size, max) ==
  w.previous * (size - (otime - w.start)) + w.current * size < max * size

Increment(w) == [w EXCEPT !.current = @ + 1]
GiveBack(w) == [w EXCEPT !.current = Max({@ - 1, 0})]

(* Limiters. *)

NoLimiter == [none |-> TRUE]
NewUserRateLimiter ==
  [second |-> NewTokenBucket(UserPerSecond), minute |-> NewSlidingWindow, access |-> otime]
NewContestRateLimiter(rate) == [window |-> NewSlidingWindow, max |-> rate, access |-> otime]

ComputeDynamicLimit(count) == Max({ContestLimitBaseRate, count * ContestLimitMultiplier})

\* The rate of a new limiter: static when the count fails or is zero.
ContestRates == {ContestPerSecond} \cup {ComputeDynamicLimit(n) : n \in 1 .. MaxParticipants}

NoOrder == [at |-> "none", user |-> "", limiter |-> 0, held |-> NoLimiter]

\* What is left of the instances when those nobody holds are collected.
Live(ls) ==
  LET held == {registered', checking'.limiter, rateRefresh'}
  IN [i \in 1 .. 2 |-> IF i \in held THEN ls[i] ELSE NoLimiter]

OrderLimitsInit ==
  /\ otime = 0 /\ global = [tokens |-> GlobalPerSecond * SecondTicks, last |-> 0]
  /\ limiters = <<NoLimiter, NoLimiter>> /\ registered = 0
  /\ userLimit = [u \in OrderUsers |-> NoLimiter]
  /\ checking = NoOrder /\ rateRefresh = 0 /\ sweep = {} /\ eviction = "no"
  /\ allowedAt = [u \in OrderUsers |-> <<>>] /\ sent = 0 /\ early = {}

OrderTick ==
  /\ otime < MaxOrderTime /\ otime' = otime + 1
  /\ UNCHANGED <<sent, global, limiters, registered, userLimit, checking, rateRefresh, sweep,
                 eviction,
                 allowedAt, early>>

(* Check. *)

CheckGlobal(u) ==
  LET b == Refill(global, GlobalPerSecond)
  IN /\ checking = NoOrder /\ sent < MaxOrdersSent /\ sent' = sent + 1
     /\ \/ /\ HasToken(b) /\ global' = SpendToken(b)
           /\ checking' = [NoOrder EXCEPT !.at = "contest", !.user = u]
        \/ ~HasToken(b) /\ global' = b /\ checking' = NoOrder
     /\ UNCHANGED <<otime, limiters, registered, userLimit, rateRefresh, sweep, eviction,
                    allowedAt, early>>

GetOrCreateContestLimiter(rate) ==
  LET new == CHOOSE i \in 1 .. 2 : i # rateRefresh
  IN /\ checking.at = "contest"
     /\ IF registered # 0
        THEN checking' = [checking EXCEPT !.at = "window", !.limiter = registered]
             /\ UNCHANGED <<limiters, registered>>
        ELSE checking' = [checking EXCEPT !.at = "window", !.limiter = new]
             /\ limiters' = [limiters EXCEPT ![new] = NewContestRateLimiter(rate)]
             /\ registered' = new
     /\ UNCHANGED <<sent, otime, global, userLimit, rateRefresh, sweep, eviction, allowedAt,
                    early>>

CheckContest ==
  LET l == [limiters[checking.limiter] EXCEPT !.access = otime, !.window = Shift(@, SecondTicks)]
      ok == UnderLimit(l.window, SecondTicks, l.max)
  IN /\ checking.at = "window"
     /\ checking' = IF ok THEN [checking EXCEPT !.at = "user"] ELSE NoOrder
     /\ global' = IF ok THEN global ELSE Refund(global, GlobalPerSecond)
     /\ UNCHANGED <<sent, otime, registered, userLimit, rateRefresh, sweep, eviction, allowedAt,
                    early>>
     /\ limiters' = Live([limiters EXCEPT ![checking.limiter] =
          IF ok THEN [l EXCEPT !.window = Increment(@)] ELSE l])

GetOrCreateUserLimiter ==
  LET u == checking.user
  IN /\ checking.at = "user"
     /\ userLimit' = [userLimit EXCEPT ![u] = IF @ = NoLimiter THEN NewUserRateLimiter ELSE @]
     /\ checking' = [checking EXCEPT !.at = "bucket", !.held = userLimit'[u]]
     /\ UNCHANGED <<sent, otime, global, limiters, registered, rateRefresh, sweep, eviction,
                    allowedAt, early>>

\* What a user's limiter becomes: the second, then the minute, whose refusal
\* gives the token of the second back.
UserTryConsume(l) ==
  LET second == Refill(l.second, UserPerSecond)
      minute == Shift(l.minute, MinuteTicks)
      now == [l EXCEPT !.access = otime, !.second = second]
  IN IF ~HasToken(second) THEN [ok |-> FALSE, limiter |-> now]
     ELSE IF ~UnderLimit(minute, MinuteTicks, UserPerMinute)
     THEN [ok |-> FALSE,
           limiter |-> [now EXCEPT !.minute = minute,
                                   !.second = Refund(SpendToken(second), UserPerSecond)]]
     ELSE [ok |-> TRUE, limiter |-> [now EXCEPT !.minute = Increment(minute),
                                                !.second = SpendToken(second)]]

\* Only this goroutine changes a user's limiter, so the held copy is current;
\* if it has been taken out of the map, what it counts is lost.
CheckUser ==
  LET u == checking.user
      try == UserTryConsume(checking.held)
      gone == userLimit[u] = NoLimiter
  IN /\ checking.at = "bucket"
     /\ userLimit' = IF gone THEN userLimit ELSE [userLimit EXCEPT ![u] = try.limiter]
     /\ early' = IF gone THEN early \cup {u} ELSE early
     /\ checking' = NoOrder
     /\ UNCHANGED <<sent, otime, registered, rateRefresh, sweep, eviction>>
     /\ \/ /\ try.ok
           /\ allowedAt' = [allowedAt EXCEPT ![u] = Append(@, otime)]
           /\ limiters' = Live([limiters EXCEPT ![checking.limiter].window.real = @ + 1])
           /\ UNCHANGED global
        \/ /\ ~try.ok
           /\ global' = Refund(global, GlobalPerSecond)
           /\ limiters' = Live(IF registered = 0 THEN limiters
                               ELSE [limiters EXCEPT ![registered].window = GiveBack(@)])
           /\ UNCHANGED allowedAt

(* Beside the orders. *)

\* refreshDynamicContestLimits walks the map, then counts, then updates.
RefreshRange ==
  /\ rateRefresh = 0 /\ registered # 0 /\ rateRefresh' = registered
  /\ UNCHANGED <<sent, otime, global, limiters, registered, userLimit, checking, sweep, eviction,
                 allowedAt, early>>

\* No participants, or no answer, changes nothing.
UpdateRate(count) ==
  /\ rateRefresh # 0 /\ rateRefresh' = 0
  /\ UNCHANGED <<sent, otime, global, registered, userLimit, checking, sweep, eviction, allowedAt,
                 early>>
  /\ limiters' = Live(IF count = 0 THEN limiters
                      ELSE [limiters EXCEPT ![rateRefresh].max = ComputeDynamicLimit(count)])

Contest == "contest"
Stale(l) == l # NoLimiter /\ l.access < otime - StaleTicks

\* cleanupStaleEntries looks at a limiter ...
FindStale(k) ==
  /\ k \notin sweep
  /\ IF k = Contest THEN registered # 0 /\ Stale(limiters[registered]) ELSE Stale(userLimit[k])
  /\ sweep' = sweep \cup {k}
  /\ UNCHANGED <<sent, otime, global, limiters, registered, userLimit, checking, rateRefresh,
                 eviction, allowedAt, early>>

DropUser(u) ==
  /\ userLimit' = [userLimit EXCEPT ![u] = NoLimiter]
  /\ early' = IF userLimit[u] = NoLimiter \/ Stale(userLimit[u]) THEN early ELSE early \cup {u}

\* ... and deletes what is under its key by then.
DeleteStale(k) ==
  /\ k \in sweep /\ sweep' = sweep \ {k}
  /\ IF k = Contest THEN registered' = 0 /\ UNCHANGED <<userLimit, early>>
     ELSE DropUser(k) /\ UNCHANGED registered
  /\ UNCHANGED <<sent, otime, global, checking, rateRefresh, eviction, allowedAt>>
  /\ limiters' = Live(limiters)

\* The contest is finished and evicted: first its limiter, then its users'.
RemoveContest ==
  /\ eviction = "no" /\ eviction' = "contest" /\ registered' = 0
  /\ UNCHANGED <<sent, otime, global, userLimit, checking, rateRefresh, sweep, allowedAt, early>>
  /\ limiters' = Live(limiters)

RemoveUsers ==
  /\ eviction = "contest" /\ eviction' = "done"
  /\ userLimit' = [u \in OrderUsers |-> NoLimiter]
  /\ early' = early \cup {u \in OrderUsers : userLimit[u] # NoLimiter}
  /\ UNCHANGED <<sent, otime, global, limiters, registered, checking, rateRefresh, sweep,
                 allowedAt>>

OrderLimitsNext ==
  \/ OrderTick \/ CheckContest \/ GetOrCreateUserLimiter \/ CheckUser
  \/ RefreshRange \/ RemoveContest \/ RemoveUsers
  \/ \E u \in OrderUsers : CheckGlobal(u)
  \/ \E rate \in ContestRates : GetOrCreateContestLimiter(rate)
  \/ \E count \in 0 .. MaxParticipants : UpdateRate(count)
  \/ \E k \in OrderUsers \cup {Contest} : FindStale(k) \/ DeleteStale(k)

(***************************************************************************)
(* Properties.                                                             *)
(***************************************************************************)

\* Orders of a user allowed from tick a to tick b.
Allowed(u, a, b) == Cardinality({i \in DOMAIN allowedAt[u] : allowedAt[u][i] \in a .. b})

\* A user gets no more than the bucket holds and gains, and no more than two
\* minutes' worth in one minute, even when limiters nobody uses are dropped;
\* only a limiter taken away from under an checking, or from a contest that was
\* evicted, lets its user start afresh.
UsersLimited ==
  \A u \in OrderUsers \ early : \A a \in 0 .. otime : \A b \in a .. otime :
    /\ Allowed(u, a, b) * SecondTicks <= UserPerSecond * (SecondTicks + b - a)
    /\ b - a < MinuteTicks => Allowed(u, a, b) <= 2 * UserPerMinute

\* An order that was refused has cost nobody anything: between two orders the
\* window of the contest counts the orders it let through, and the global
\* bucket has given out no more than it held and gained.
RefusedCostNothing ==
  checking = NoOrder =>
    /\ registered # 0 => limiters[registered].window.current = limiters[registered].window.real
    /\ MapThenSumSet(LAMBDA u : Allowed(u, 0, otime), OrderUsers) * SecondTicks + global.tokens
         <= GlobalPerSecond * (SecondTicks + global.last)

\* The limits hold and are taken from nobody (rate_limiter.go).
OrderLimitsHold == UsersLimited /\ RefusedCostNothing
=============================================================================
